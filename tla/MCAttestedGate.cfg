SPECIFICATION Spec
CONSTANTS
    Devices = {d1, d2}
    Executables = {x1, x2}
    Processes = {p1, p2}
    Attestations = {a1, a2, a3, a4}
    Seen <- SomeEvidence
    MaxDevices = 1
    MaxExecutables = 2
    MaxProcesses = 2
    MaxAttestations = 2
    Challenges = {c1, c2}
    Times = {1, 2, 3}
    MaxAge = 1
    MaxSkew = 0
    MaxFailures = 2
    Faults = {"lost", "torn", "whole"}
    None = None
    d1 = d1
    d2 = d2
    x1 = x1
    x2 = x2
    p1 = p1
    p2 = p2
    a1 = a1
    a2 = a2
    a3 = a3
    a4 = a4
    c1 = c1
    c2 = c2
INVARIANTS
    PersistedBeforePrivilege
    ReplayAgrees
PROPERTIES
    RevokedForGood
