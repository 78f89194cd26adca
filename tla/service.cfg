SPECIFICATION FairSpec
CHECK_DEADLOCK FALSE
CONSTANTS
  Requests <- MCRequests
  Kinds <- MCKinds
  ApiKeys = {"user-key", "admin-key"}
  Limits <- MCLimits
  RateWindow = 2
  StaleAge = 3
  PruneEvery = 1
  MaxBuckets = 1
  FailureThreshold = 2
  RequestTimeout = 1
  PoolSize = 1
  MaxClock = 3
INVARIANTS
  WithinRate
  CircuitFollowsOutcomes
PROPERTIES
  EveryRequestAnswered
