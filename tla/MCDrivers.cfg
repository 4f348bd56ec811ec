SPECIFICATION MCSpec
CONSTANTS
  Drivers = {"oss", "cos", "s3", "qiniu", "upyun", "onedrive", "remote", "local"}
  MaxKey = 3
  DirOf <- ThreeDirs
  PageSize = 2
  GroupSize = 2
  Routines = {1, 2}
  Speeds = {0, 1, 9}
  MinLimit = 2
  MaxLimit = 8
  LinkTTL = 1
  CacheTTL = 1
  VendorLinkLife = 2
  MaxNow = 3
  MaxVersion = 3
  MaxReplyFaults = 1
  MaxOverlap = 2
  Sizes = {0, 1, 2, 3, 4, 5}
  ChunkSizes = {0, 1, 2, 3}
  MaxRetries = 2
  Clients = {c1, c2}
  SlaveClients = {s1}
  MaxExchanges = 4
  Settings = {siteURL}
  Sessions = {callback}
  Readers = {p1, p2}
  TTL = 1
  MaxChanges = 2
  MaxClock = 3
 
INVARIANT ChunkInv
INVARIANT CredInv
INVARIANT CacheInv
PROPERTY NeverClobbers
CHECK_DEADLOCK FALSE
