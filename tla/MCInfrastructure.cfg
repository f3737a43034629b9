SPECIFICATION MCSpec
CONSTANTS
  c1 = c1
  c2 = c2
  c3 = c3
  a1 = a1
  a2 = a2
  a3 = a3
  e1 = e1
  e2 = e2
  t1 = t1
  m1 = m1
  m2 = m2
  Nobody = Nobody
  Clients = {c1, c2, c3}
  OwnerToken <- MCOwnerToken
  NoOwner = NoOwner
  Ttl = 2
  MaxTime = 4
  MaxGrants = 3
  MaxTokens = 4
  Callers = {1, 2}
  Provider = "memory"
  CacheTtl = 1
  MaxDelay = 1
  MaxChanges = 2
  Recorders = {a1, a2, a3}
  Exporters = {e1}
  Retainers = {}
  ProcessOf <- MCProcessOf
  Distributed = FALSE
  EarlyStart = FALSE
  PerRequest = 1
  Ids = {1, 2, 3}
  ExportIds = {1}
  Limited = {1, 2, 3, 4}
  Identity <- Users
  Limiters <- MCLimiters
  MaxCalls = 5
SYMMETRY Symmetry
INVARIANTS
  MutualExclusion
  OneChainWhilePlain
  ExportsWholeChains
  RevocationTakesHold
  LimitsAsDeclared
  DeployedAsDeclared
PROPERTIES
  ImplementsFencedLock
  OthersKeyUntouched
CHECK_DEADLOCK FALSE
