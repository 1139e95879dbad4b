SPECIFICATION MCSpec
CONSTANTS
  Parts = {"sse", "h1", "websocket", "heartbeat", "relay"}
  Publishers = {p1, p2}
  Sizes = {1, 2}
  MaxEvents = 3
  MaxBytes = 4
  MaxPublished = 5
  Payloads = {1, 4}
  Limit = 8
  Header = 1
  QueueOverhead = 2
  CloseSize = 2
  Window = 5
  MaxSends = 4
  Transport = "h2"
  Periods = {0, 1, 3}
INVARIANTS
  PendingWithinLimits
  RequestsAnswered
  CloseIsLast
  OutboundBounded
  StompSound
PROPERTIES
  ImplementsChannel
  WaitsEnd
  ClosingSendsClose
CHECK_DEADLOCK FALSE
