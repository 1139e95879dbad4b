SPECIFICATION MCSpec
CONSTANTS
  Parts = {"server"}
  Signal = s1
  NumShards = 2
  Stoppers = {s1}
  StopWhen = "afterReady"
  Ops = {o1}
  Cancellers = {c1}
PROPERTY
  ServerStopEndsLoops
CHECK_DEADLOCK FALSE
