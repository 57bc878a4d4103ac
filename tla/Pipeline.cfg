SPECIFICATION PipelineSpec
CONSTANTS
  Request = {r1, r2, r3}
  Traffic <- MCTraffic
  Arrivals <- MCArrivals
  Rare = r3
  Address = {"a1", "a2"}
  Limit = 1
  Window = 2
  PurgeEvery = 2
  MaxStaleKeys = 1
  QueueSize = 1
  Nobody = Nobody
INVARIANTS
  LimiterExact
  NoLogAfterStop
PROPERTIES
  ShutdownCompletes
  ImplementsTrail
CHECK_DEADLOCK FALSE
