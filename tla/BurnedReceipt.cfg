SPECIFICATION RecoverySpec
CONSTANTS
    Sessions = {s1, s2}
    Correlations = {k1, k2}
    Requests = {q1}
    Auths = {a1, a2}
    Clients = {c1}
    Faults = {"lost"}
    None = None
    CorrelationOf <- MCCorrelationOf
    RequestOf <- MCRequestOf
    s1 = s1
    s2 = s2
    k1 = k1
    k2 = k2
    q1 = q1
INVARIANT ConsumedReceiptDecides
SYMMETRY Symmetry
CHECK_DEADLOCK FALSE
