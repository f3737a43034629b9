SPECIFICATION MCSpec
CONSTANTS
  a1 = a1
  a2 = a2
  a3 = a3
  Nobody = Nobody
  Recorders = {a1, a2, a3}
  Exporters = {}
  Retainers = {}
  ProcessOf <- MCProcessOf
  Provider = FALSE
  EarlyStart = TRUE
  PerRequest = 1
  Ids = {1, 2, 3}
  ExportIds = {}
INVARIANT OneChain
CHECK_DEADLOCK FALSE
