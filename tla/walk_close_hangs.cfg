CONSTANTS
  N = 1
  Length <- Walk1
  Lists <- OneWalk
  BatchSize = 2
  Setups <- CheckStops
SPECIFICATION FairSpec
PROPERTY CloseReturns
CHECK_DEADLOCK FALSE
