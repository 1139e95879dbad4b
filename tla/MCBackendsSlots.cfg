SPECIFICATION MCSpec
CONSTANTS
  Parts = {"pool"}
  Clients = {c1, c2, c3}
  Conns = {k1, k2, k3}
  PoolSize = 2
  MaxHeld = 2
  Driver = "postgresql"
  ClientProtocols = {"h3"}
  ClientAttempts = 1
INVARIANT SlotsKept
CHECK_DEADLOCK FALSE
