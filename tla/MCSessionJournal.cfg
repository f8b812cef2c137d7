SPECIFICATION Spec
CONSTANTS
    Sessions = {s1, s2, s3}
    Correlations = {k1, k2}
    Requests = {q1}
    Auths = {a1}
    Clients = {c1, c2}
    Faults = {"lost", "torn", "whole"}
    None = None
    s1 = s1
    s2 = s2
    s3 = s3
    k1 = k1
    k2 = k2
    c1 = c1
    c2 = c2
INVARIANTS
    TypeOK
    AckedDurable
    OneWinner
    StartedWithProof
    LineageSound
PROPERTIES
    FailureIsFinal
    ImplementsLifecycle
SYMMETRY Symmetry
CHECK_DEADLOCK FALSE
