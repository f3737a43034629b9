SPECIFICATION Spec
CONSTANTS
  e1 = e1
  e2 = e2
  d1 = d1
  d2 = d2
  o1 = o1
  outboxDispatcher = outboxDispatcher
  Events = {e1, e2}
  Dispatchers = {d1, d2}
  DispatcherId <- MCDispatcherId
  Operators = {o1}
  NoOne = NoOne
  BatchSize = 2
  LockSeconds = 1
  RetryDelay = 1
  MaxAttempts = 2
  MaxTime = 3
  MaxReplays = 1
SYMMETRY Symmetry
INVARIANTS
  OneCurrentHolder
  AttemptCountExact
  RetryBudget
PROPERTIES
  LiveLeaseNotStolen
  ImplementsDelivery
CHECK_DEADLOCK FALSE
