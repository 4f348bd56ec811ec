SPECIFICATION StreamSpec
CONSTANTS
  Files = {f1, f2}
  Requests = {r1, r2}
  Folders = {d1, d2}
  Names = {a, b}
  MaxLength = 1
  MaxStorage = 2
INVARIANT StoredUploadReturns
CHECK_DEADLOCK FALSE
