SPECIFICATION MCSpec
CONSTANTS
  Parts = {"client"}
  Clients = {c1, c2, c3}
  Conns = {k1, k2, k3}
  PoolSize = 2
  MaxHeld = 2
  Driver = "postgresql"
  ClientProtocols = {"h3"}
  ClientAttempts = 1
INVARIANT NoTaskLeftSuspended
CHECK_DEADLOCK FALSE
