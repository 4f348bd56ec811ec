SPECIFICATION Spec
CONSTANTS
    r = r
    f1 = f1
    f2 = f2
    f3 = f3
    f4 = f4
    x1 = x1
    x2 = x2
    x3 = x3
    x4 = x4
    p1 = p1
    p2 = p2
    a = a
    b = b
    m = m
    n = n
    FolderIds = {r, f1, f2}
    Root = r
    FileIds = {x1, x2}
    Sources = {a}
    SizeOf <- OneSource
    Names = {m, n}
    Ops = {p1, p2}
    MaxOps = 4
    MaxBatch = 1
    MaxFaults = 1
    MaxSilent = 1
    MaxCrashes = 1
    Serial = FALSE
    MoveBelowSelf = FALSE
INVARIANT TreeLedger
SYMMETRY KeysAndOps
CHECK_DEADLOCK FALSE
