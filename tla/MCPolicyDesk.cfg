SPECIFICATION Spec
CONSTANTS
    Policies = {p1, p2}
    Nonces = {n1, n2, n3}
    Operators = {1, 2}
    MaxRecords = 5
    MaxPolicies = 2
    Resolutions = {deferred, refused}
    MaxQueueRecords = 2
    MaxTickets = 1
    Operations = {read, write}
    RuntimeLease = 2
    RulesOf <- SomeRules
    Asked <- SomeRequests
    Desk = 1
    MaxFailures = 1
    Faults = {"torn", "whole"}
    None = None
    p1 = p1
    p2 = p2
    read = read
    write = write
    n1 = n1
    n2 = n2
    n3 = n3
    deferred = deferred
    refused = refused
SYMMETRY Symmetry
INVARIANTS
    Acknowledged
    WritesReplay
    EngineAnswers
PROPERTIES
    ImplementsRegister
CHECK_DEADLOCK FALSE
