SPECIFICATION Spec
CONSTANTS
  Nobody = Nobody
  Instances = {i1}
  Operators = {}
  LastMinute = 4
  Cron = {1, 2, 3, 4}
  Policy = "catch_up_limited"
  MisfireLimit = 3
  SharedLock = TRUE
  MaxCrashes = 1
  MaxFaults = 0
INVARIANT NothingPassedOver
CHECK_DEADLOCK FALSE
