SPECIFICATION Spec
CONSTANTS
    r = r
    f1 = f1
    f2 = f2
    f3 = f3
    f4 = f4
    x1 = x1
    x2 = x2
    x3 = x3
    x4 = x4
    p1 = p1
    p2 = p2
    a = a
    b = b
    m = m
    n = n
    FolderIds = {r, f1, f2}
    Root = r
    FileIds = {x1}
    Sources = {a}
    SizeOf <- OneSource
    Names = {m, n}
    Ops = {p1}
    MaxOps = 5
    MaxBatch = 1
    MaxFaults = 0
    MaxSilent = 0
    MaxCrashes = 0
    Serial = TRUE
    MoveBelowSelf = TRUE
INVARIANT TreeRooted
SYMMETRY Keys
CHECK_DEADLOCK FALSE
