SPECIFICATION FairSpec
CONSTANTS
    s1 = s1
    s2 = s2
    s3 = s3
    r1 = r1
    r2 = r2
    d1 = d1
    d2 = d2
    fileA = fileA
    fileB = fileB
    Sessions = {s1}
    NameOf <- OneName
    Total <- OneTotal
    Requests = {r1, r2}
    Deleters = {d1}
    ChunkSize = 1
    MaxStorage = 4
    MaxIndex = 1
    MaxArrivals = 2
    MaxPerSession = 2
    MaxFaults = 0
    MaxCrashes = 1
    Disconnects = TRUE
    DeleteWhileUploading = TRUE
INVARIANT StorageLedger
PROPERTY PlaceholdersResolve
CHECK_DEADLOCK FALSE
