SPECIFICATION MCSpec
CONSTANTS
  Parts = {"pool", "tx", "migration", "migrations", "client"}
  Clients = {c1, c2, c3}
  Conns = {k1, k2, k3}
  PoolSize = 2
  MaxHeld = 2
  Driver = "postgresql"
  ClientProtocols = {"h1", "h2", "h3"}
  ClientAttempts = 2
INVARIANTS
  ConnectionsAccounted
  NoLostWakeup
  ScopesAndLedger
  
PROPERTIES
  AcquireEnds
  FailureNotCommitted
CHECK_DEADLOCK FALSE
