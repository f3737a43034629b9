SPECIFICATION MCSpec
CONSTANTS
  c1 = c1
  w1 = w1
  w2 = w2
  o1 = o1
  NoProc = NoProc
  Tasks = {1, 2}
  Clients = {c1}
  Workers = {w1, w2}
  Operators = {o1}
  Providers = {"sync", "database", "celery"}
  MaxAttempts = 2
  Nested = {1}
  Deletions = TRUE
  MaxRetries = 2
  MaxCrashes = 2
INVARIANTS
  NeverLeftRunning
  DeadLetterEarned
PROPERTIES
  ExecutedWhenDue
  SettledByTheLoops
CHECK_DEADLOCK FALSE
