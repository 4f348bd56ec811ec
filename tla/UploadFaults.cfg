SPECIFICATION Spec
CONSTANTS
    s1 = s1
    s2 = s2
    s3 = s3
    r1 = r1
    r2 = r2
    d1 = d1
    d2 = d2
    fileA = fileA
    fileB = fileB
    Sessions = {s1, s2, s3}
    NameOf <- ThreeNames
    Total <- ThreeTotals
    Requests = {r1, r2}
    Deleters = {d1}
    ChunkSize = 2
    MaxStorage = 4
    MaxIndex = 1
    MaxArrivals = 4
    MaxPerSession = 1
    MaxFaults = 1
    MaxCrashes = 1
    Disconnects = FALSE
    DeleteWhileUploading = FALSE
CONSTRAINT TwoSessions
INVARIANT PromotedComplete
INVARIANT StorageExact
INVARIANT QuotaOvershootBounded
SYMMETRY RequestSymmetry
CHECK_DEADLOCK FALSE
