SPECIFICATION Spec
CONSTANTS
    Receipts = {root, v1, v2}
    MaxUses <- ChainMax
    ParentOf <- ChainParent
    Branches = {s1, s2}
    BackedBy <- ChainVouchers
    KeyOf <- ChainKeys
    Expires <- ChainExpires
    EphemeralKeys = {k1}
    Times = {1, 2}
    Leases = {l1, l2}
    Lease <- ChainLease
    Runtimes = {here, there}
    Faults = {"lost", "torn", "whole"}
    MaxMishaps = 3
    None = None
    root = root
    v1 = v1
    v2 = v2
    s1 = s1
    s2 = s2
    k1 = k1
    l1 = l1
    l2 = l2
    here = here
    there = there
CONSTRAINT Bounded
INVARIANTS
    UsesAreBacked
    OnlyFailuresBurn
    OneBranchPerKey
PROPERTIES
    RevocationsHold
