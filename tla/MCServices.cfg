SPECIFICATION MCSpec
CONSTANTS
  Links = {l1}
  Objects = {o1}
  Visitors = {x1, x2}
  Visits = {r1, r2}
  Passwords = {pw}
  NoPassword = none
  Limits = {2}
  MaxGrants = 2
  Docs = {x1, x2}
  FSObjects = {fs1, fs2}
  Jobs = {r1, r2}
  Tickets = {k1}
  MaxSourceLinks = 2
  Dirs = {top, x1, x2}
  Top = top
  LeafFiles = {w1, w2}
  Matching = {w1}
  Readers = {rd1}
  Outside = outside
  MaxMoves = 2
  MaxCached = 1
  Users = {a1}
  Handlers = {r1, r2}
  Values = {1}
  MaxEdits = 3
  MaxMails = 1
  Members = {m1}
  GroupIDs = {gs, g4}
  SystemGroups = {gs}
  PolicyIDs = {p1, p2}
  DefaultPolicy = p1
  Records = {e1}
  Clerks = {r1, r2}
  MaxVersions = 2
  MaxSaves = 3
  PolicyLists <- MCLists
  NSettings = 3
  Marker = 2
  MaxCrashes = 2
  MaxReleases = 1
  MaxFiles = 1
INVARIANT SharesInv
INVARIANT FileRequestsInv
 
 
INVARIANT AdminInv
INVARIANT MigrationInv
CONSTRAINT FewLinks
SYMMETRY Symmetry
CHECK_DEADLOCK FALSE
