SPECIFICATION QuicSpec
CONSTANTS
  Parts = {"quic"}
  RouterShards = {1}
  Requests = {r1, r2, r3, r4}
  Keys = {"anonymous", "k1", "k2"}
  Anonymous = "anonymous"
  MaxConcurrent = 2
  MaxKeys = 2
  NoKey = "none"
PROPERTY
  IdleRemoved
CHECK_DEADLOCK FALSE
