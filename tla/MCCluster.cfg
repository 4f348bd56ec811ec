SPECIFICATION MCSpec
CONSTANTS
    NodeIDs = {2}
    MaxObjects = 2
    Retry = 2
    MaxOutages = 1
    MaxRequests = 3
    Downloads = {d1, d2}
    Magnets = {d2}
    Limit = 1
    MaxRetry = 1
    WsNodes = {"slave"}
    MaxFailures = 2
    MaxCrashes = 1
    MaxUnderFaults = 1
    Puts = {p1, p2}
    Hashes = {h1, h2}
    MaxResets = 1
    MaxLosses = 1
    Calls = {c1, c2, c3}
    ChanSize = 2
INVARIANT PoolInv
INVARIANT UnderwayIsMonitored
 
INVARIANT SlaveInv
INVARIANT RPCInv
PROPERTY BackOnline
 
CHECK_DEADLOCK FALSE
