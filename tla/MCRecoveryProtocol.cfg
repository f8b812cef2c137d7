SPECIFICATION RecoverySpec
CONSTANTS
    Sessions = {s1, s2}
    Correlations = {k1, k2}
    Requests = {q1}
    Auths = {a1, a2}
    Clients = {c1, c2}
    Faults = {"lost", "torn", "whole"}
    None = None
    CorrelationOf <- MCCorrelationOf
    RequestOf <- MCRequestOf
    s1 = s1
    s2 = s2
    k1 = k1
    k2 = k2
    q1 = q1
INVARIANTS
    RecoveryTypeOK
    DurableIntent
    ExecutedOnce
    OneOutcome
    NoInventedClosure
    OneDecision
SYMMETRY Symmetry
CHECK_DEADLOCK FALSE
