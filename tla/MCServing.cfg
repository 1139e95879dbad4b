SPECIFICATION MCSpec
CONSTANTS
  Parts = {"concurrency", "rate", "h2", "long", "h3", "quic", "beans", "router", "jwt",
           "sessions", "forms", "access", "static", "tls", "client", "packets"}
  RouterShards = {1}
  Requests = {r1, r2, r3, r4}
  Keys = {"anonymous", "k1", "k2"}
  Anonymous = "anonymous"
  MaxConcurrent = 2
  MaxKeys = 2
  NoKey = "none"
INVARIANTS
  CountsMatchPermits
  ConcurrencyBounded
  RateSound
  TransportsSound
  BeansSound
  RouteFound
  TokensSound
  SessionsSound
  AccessSound
  StaticSound
  
  PacketsSound
CHECK_DEADLOCK FALSE
