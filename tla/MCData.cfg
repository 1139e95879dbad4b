SPECIFICATION MCSpec
CONSTANTS
  Parts = {"memory", "topic", "ids", "senders", "queue", "user", "websocket", "stomp", "orm", "query", "batch"}
  Page = 4
  Threshold = 7
  BlockSizes = {1, 5}
  Sizes = {0, 3, 5, 8}
  Aligns = {1, 4}
  Capacity = 2
  MaxMaps = 3
  MaxLive = 3
INVARIANTS
  BrokerSound
  DecodedAsSent
  OrmSound
  QueriesSound
  BatchSound
  MemorySound
CHECK_DEADLOCK FALSE
