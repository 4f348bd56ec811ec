SPECIFICATION MemSpec
CONSTANTS
    LockPaths <- TwoPaths
    LockDurations <- Lifetimes
    Claimants = {x1, x2}
    x1 = x1
    x2 = x2
    MaxTokens = 3
    MaxClock = 2
    MaxConditions = 2
SYMMETRY AnyClaimant
VIEW WithoutReply
INVARIANT LocksInv
PROPERTY ImplementsLockTable
CHECK_DEADLOCK FALSE
