SPECIFICATION MCSpec
CONSTANTS
  d1 = d1
  d2 = d2
  NEvents = 2
  NHandlers = 2
  Dispatchers = {d1, d2}
  BatchSize = 2
  LeaseUnits = 2
  MaxAttempts = 2
  DbErrors <- MCPoison
  MaxCrashes = 1
  MaxReplays = 1
INVARIANTS
  HandledOnce
PROPERTIES
  ImplementsDelivery
  AllSettled
CHECK_DEADLOCK FALSE
