SPECIFICATION MCSpec
CONSTANTS
  Tasks = {t1, t2}
  Items = {o1, o2}
  MaxWorkers = 1
  Parallel = 2
  Quota = 1
  MaxCrashes = 1
  Files = {f1, f2, f3}
  Requests = {r1, r2}
  Folders = {d1, d2}
  Names = {a, b}
  MaxLength = 1
  MaxStorage = 2
INVARIANT TasksInv
 
PROPERTY TaskEnds
PROPERTY OtherContentKept
CHECK_DEADLOCK FALSE
