SPECIFICATION MCSpec
CONSTANTS
  g1 = g1
  g2 = g2
  p1 = p1
  p2 = p2
  a1 = a1
  a2 = a2
  d1 = d1
  d2 = d2
  o1 = o1
  NoGrant = NoGrant
  Grants = {g1, g2}
  Invited = {g2}
  Perms = {p1, p2}
  Admins = {a1, a2}
  Dispatchers = {d1, d2}
  Operators = {o1}
  MaxUpdates = 1
  MaxCrashes = 1
INVARIANTS
  HandledIsProjected
PROPERTIES
  RepairExact
  RevocationSettles
CHECK_DEADLOCK FALSE
