SPECIFICATION Spec
CONSTANTS
  NoProc = NoProc
  Tasks = {1}
  Clients = {c1}
  Workers = {w1, w2}
  Operators = {}
  Providers = {"database"}
  MaxAttempts = 2
  Nested = {}
  Deletions = FALSE
  MaxRetries = 0
  MaxCrashes = 0
PROPERTY SucceededIsFinal
CHECK_DEADLOCK FALSE
