SPECIFICATION MCSpec
CONSTANTS
  c1 = c1
  c2 = c2
  c3 = c3
  Clients = {c1, c2, c3}
  Amount <- MCAmount
  NRules = 2
  Limit <- MCLimit
  Failing = {c1, c2, c3}
  Returning = {c1, c2, c3}
  MaxCrashes = 1
  Null = Null
  Tenants = {"t1", "t2"}
  Values = {"v", "w"}
  Refs = {"ref"}
  MaxVersion = 3
  TenantOf <- MCTenantOf
  BatchSize = 2
  Metrics <- MCMetrics
  Size = 2
  UploadLimit = 4
  Retention = TRUE
  Home = "t1"
  Elsewhere = "t2"
  MaxChanges = 1
  Tasks = {c1, c2}
  Connections = {"conn"}
  Rows = {"r1", "r2", "r3"}
  Owner <- MCOwner
  MaxDepth = 3
  Administrators = {c1, c2}
  AccessVersions = 2
  Users = {"u1", "u2"}
  FirstAdmins = {"u1"}
  AdminPermissions = {"p", "q"}
  Created = {"t1"}
  Names = {"platform-admin"}
  Keys = {"k"}
  ScopePermissions <- MCScopePermissions
  Trees <- MCTrees
  Expressions <- MCExpressions
  Serial = TRUE
  MaxProjections = 1
INVARIANTS
  UsedWithinLimit
  ExactlyBooked
  ObjectsAccountedFor
  HistoryExplainsValue
  ServedAsAuthorized
  AccessAdministered
  TenantsKeptApart
CHECK_DEADLOCK FALSE
