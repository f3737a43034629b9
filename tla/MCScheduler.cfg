SPECIFICATION MCSpec
CONSTANTS
  i1 = i1
  i2 = i2
  op = op
  Nobody = Nobody
  Instances = {i1, i2}
  Operators = {op}
  LastMinute = 3
  Cron = {1, 2, 3}
  Policy = "catch_up_limited"
  MisfireLimit = 2
  SharedLock = FALSE
  MaxCrashes = 1
  MaxFaults = 1
INVARIANTS
  FiredOnce
PROPERTIES
  OneInOrder
  LatecomersCatchUp
CHECK_DEADLOCK FALSE
