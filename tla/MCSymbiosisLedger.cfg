SPECIFICATION Spec
CONSTANTS
    Grants = {kept, session}
    Policy <- MCPolicy
    Observations = {o1, o2, o3}
    GrantOf <- MCGrantOf
    Memories = {m1, m3}
    SourceOf <- MCSourceOf
    Times = {1, 2}
    Faults = {"lost", "torn", "whole"}
    None = None
    kept = kept
    session = session
    o1 = o1
    o2 = o2
    o3 = o3
    m1 = m1
    m3 = m3
CONSTRAINT Bounded
INVARIANTS
    SymbiosisTypeOK
    ReplayRestores
    RevocationSticks
    ForgottenStaysForgotten
    PromotionsAllowed
