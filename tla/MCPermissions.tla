--------------------------- MODULE MCPermissions ----------------------------
(* Permissions for TLC: two grants, two dispatchers, a reconciler.  The     *)
(* setting of a behaviour is chosen in its initial state.                   *)
EXTENDS Permissions

CONSTANTS g1, g2, p1, p2, a1, a2, d1, d2, o1

VARIABLE setting

\* One grant whose template changes, two dispatchers, a reconciler: `change'.
\* The same with two grants and a template that stays.
Repair == INSTANCE Permissions WITH MaxUpdates <- 0, MaxCrashes <- 0

\* Two dispatchers and two administrators; the template stays, nobody reconciles.
Two == INSTANCE Permissions WITH Admins <- {a1, a2, o1}, Operators <- {},
         MaxUpdates <- 0, MaxCrashes <- 0

\* One dispatcher and two administrators, who may change the template.
One == INSTANCE Permissions WITH Admins <- {a1, a2, o1, d2}, Dispatchers <- {d1},
         Operators <- {}

\* The processes that play no part in a setting.
Absent(P) == \A p \in P : proc'[p] = proc[p]

MCInit ==
  /\ setting \in {"change", "repair", "two", "one"}
  /\ Init
  /\ template = {p1}

MCNext ==
  \/ /\ setting = "change" /\ Next /\ Absent({a2}) /\ UNCHANGED setting
     /\ \A p \in Procs : proc'[p].grant # g2
  \/ setting = "repair" /\ Repair!Next /\ Absent({a2}) /\ UNCHANGED setting
  \/ setting = "two" /\ Two!Next /\ Absent({o1}) /\ UNCHANGED setting
  \/ setting = "one" /\ One!Next /\ Absent({o1, d2}) /\ UNCHANGED setting

MCFairness ==
  /\ \A g \in Grants : WF_vars(setting = "one" /\ One!HandleEvent(d1, g))
  /\ \A p \in Procs : WF_vars(setting = "one" /\ One!Work(p))

MCSpec == MCInit /\ [][MCNext]_<<vars, setting>> /\ MCFairness

-----------------------------------------------------------------------------
(* With one dispatcher the rows of a revoked grant disappear (revoke_role    *)
(* publishes the event that removes them).                                   *)
RevocationSettles ==
  \A g \in Grants : setting = "one" /\ grants[g] = "gone" ~> RowsOf(g) = {}
=============================================================================
