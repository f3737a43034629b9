SPECIFICATION MCSpec
CONSTANTS
  r1 = r1
  r2 = r2
  r3 = r3
  r4 = r4
  q1 = q1
  q2 = q2
  q3 = q3
  o1 = o1
  o2 = o2
  Nobody = Nobody
  Requests = {r1, r2, r3, r4}
  Hash <- MCHash
  RetryFailed = {r4}
  Catching = {r1, r3}
  MaxExpiries = 2
  MaxCrashes = 2
  Callers = {q1, q2, q3}
  Users = {u1, u2}
  Admins = {u1}
  Tenants = {t1}
  Subjects = {"subject"}
  Passwords = {"password"}
  Operators = {o1, o2}
  Statuses = {"active", "disabled"}
  MaxFailures = 2
  Null = Null
SYMMETRY Symmetry
INVARIANTS
  AnswersCommitted
  ExactWhileAlive
  DisabledStaysOut
  DeletionInOrder
PROPERTIES
  NoSilentRetryWhenCaught
  IdentitiesHold
  LegalHistory
CHECK_DEADLOCK FALSE
