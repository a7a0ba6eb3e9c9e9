CONSTANTS
  N = 2
  Length <- Walk2
  Lists <- Mixed
  BatchSize = 2
  Setups <- CutShortOrCached
SPECIFICATION FairSpec
INVARIANTS TypeOK DeliveredInOrder NothingForgotten CompleteOrReported
PROPERTY ReturnsUnlessStranded
CHECK_DEADLOCK FALSE
