SPECIFICATION MCSpec
CONSTANTS
  Parts = {"fds"}
  Signal = s1
  NumShards = 1
  Stoppers = {s1}
  StopWhen = "any"
  Ops = {o1}
  Cancellers = {c1}
INVARIANT
  RemovedNotMonitored
CHECK_DEADLOCK FALSE
