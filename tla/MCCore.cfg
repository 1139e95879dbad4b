SPECIFICATION MCSpec
CONSTANTS
  Parts = {"server", "settled", "drain", "fds", "timers", "post", "tokens", "limit"}
  Signal = s1
  NumShards = 2
  Stoppers = {s1, s2}
  StopWhen = "any"
  Ops = {o1, o2, o3}
  Cancellers = {c1, c2}
INVARIANTS
  ShutdownSound
  LoopSound
  CallbacksSound
PROPERTIES
  SettledStops
  DrainEnds
  LoopServes
  CancelReachesEveryone
  LimitClears
CHECK_DEADLOCK FALSE
