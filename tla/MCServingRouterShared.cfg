SPECIFICATION MCSpec
CONSTANTS
  Parts = {"router"}
  RouterShards = {1, 2}
  Requests = {r1, r2, r3, r4}
  Keys = {"anonymous", "k1", "k2"}
  Anonymous = "anonymous"
  MaxConcurrent = 2
  MaxKeys = 2
  NoKey = "none"
INVARIANT
  OwnMethod
CHECK_DEADLOCK FALSE
