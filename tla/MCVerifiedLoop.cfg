SPECIFICATION Spec
CONSTANTS
    PipeSize = 2
    Buffer = 1
    MaxOutput = 2
    MaxWall = 2
    Budgets <- MCBudgets
INVARIANTS
    VerifiedIsEarned
PROPERTIES
    RunEnds
