SPECIFICATION Spec
CONSTANTS
  c1 = c1
  c2 = c2
  c3 = c3
  Clients = {c1, c2, c3}
  Amount <- MCAmount
  NRules = 1
  Limit <- MCLimit
  Failing = {}
  Returning = {}
  MaxCrashes = 0
INVARIANT HandlerIsBooked
CHECK_DEADLOCK FALSE
