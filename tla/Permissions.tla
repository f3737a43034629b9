---------------------------- MODULE Permissions -----------------------------
(***************************************************************************)
(* Role grants and their projection to the table that decisions read       *)
(* (core/permissions/services.py, projector.py; platform_apps/access), for *)
(* one subject, one role template and the successive grants of it.         *)
(*                                                                         *)
(* A grant and a revocation write the fact and an outbox event in one      *)
(* transaction; a dispatcher handles the event later, at least once, and   *)
(* projects whatever it finds.  `reconcile --repair' compares facts and    *)
(* projection.  Every transaction deletes projected rows first and inserts *)
(* rows then.  The database is PostgreSQL at READ COMMITTED: a DELETE      *)
(* finds its rows when it starts, waits for those another transaction has  *)
(* deleted, and never sees what that transaction inserts; an INSERT waits  *)
(* for open transactions on its unique key and fails if the key is there.  *)
(***************************************************************************)
EXTENDS Naturals, FiniteSets

CONSTANTS
  Grants,        \* ids of the grants that may be made
  Invited,       \* those made by accepting an invitation
  Perms,         \* permission points
  Admins,        \* requests that grant, revoke and change the template
  Dispatchers,   \* outbox dispatcher processes
  Operators,     \* runs of `core permissions reconcile --repair'
  MaxUpdates,    \* bound: changes of the template
  MaxCrashes,    \* bound: crashes
  NoGrant        \* no grant

Procs == Admins \cup Dispatchers \cup Operators

ASSUME PermissionsAssumption ==
  /\ Invited \subseteq Grants /\ NoGrant \notin Grants
  /\ Perms # {}
  /\ Admins \cap Dispatchers = {} /\ Admins \cap Operators = {}
  /\ Dispatchers \cap Operators = {}
  /\ MaxUpdates \in Nat /\ MaxCrashes \in Nat

VARIABLES
  template,     \* role_templates: its permissions
  grants,       \* role_grants: whether each grant was never made, lives or is deleted
  policies,     \* projected_policies: the rows of allowed permissions
  events,       \* undelivered role_grant_changed events of each grant
  proc,         \* the transaction of each process
  undisturbed,  \* history: reconcilers since whose start nothing was committed
  started,      \* history: dispatchers that have handled an event, reconcilers that ran
  updates, crashes

vars == <<template, grants, policies, events, proc, undisturbed, started, updates, crashes>>

Rows == Grants \X Perms

Phases == {"idle", "loaded", "planned", "deleting", "inserting", "ready", "done"}

\* rules: the rows it is to insert; snap: those its DELETE has found; known: the
\* grants a reconciler has read.
Proc == [phase : Phases, job : {"none", "grant", "revoke", "project", "remove", "repair"},
         grant : Grants \cup {NoGrant}, known : SUBSET Grants,
         rules : SUBSET Rows, snap : SUBSET Rows]

Idle == [phase |-> "idle", job |-> "none", grant |-> NoGrant, known |-> {},
         rules |-> {}, snap |-> {}]

TypeOK ==
  /\ template \in SUBSET Perms \ {{}}
  /\ grants \in [Grants -> {"none", "live", "gone"}]
  /\ policies \subseteq Rows
  /\ events \in [Grants -> Nat]
  /\ proc \in [Procs -> Proc]
  /\ undisturbed \subseteq Operators /\ started \subseteq Dispatchers \cup Operators
  /\ updates \in 0..MaxUpdates /\ crashes \in 0..MaxCrashes

Init ==
  /\ template \in SUBSET Perms \ {{}}
  /\ grants = [g \in Grants |-> "none"]
  /\ policies = {}
  /\ events = [g \in Grants |-> 0]
  /\ proc = [p \in Procs |-> Idle]
  /\ undisturbed = {} /\ started = {}
  /\ updates = 0 /\ crashes = 0

Live == {g \in Grants : grants[g] = "live"}

\* rules_for_grant: one row for each permission of the template.
RulesFor(g) == {g} \X template

RowsOf(g) == {r \in policies : r[1] = g}

Database == <<template, grants, policies, events>>

Goes(p, phase) ==
  /\ proc' = [proc EXCEPT ![p].phase = phase]
  /\ UNCHANGED <<Database, undisturbed, started, updates, crashes>>

Begins(p, phase, job, g, rules) ==
  /\ proc[p].phase = "idle"
  /\ proc' = [proc EXCEPT ![p] = [phase |-> phase, job |-> job, grant |-> g,
                                  known |-> {}, rules |-> rules, snap |-> {}]]
  /\ UNCHANGED <<Database, undisturbed, updates, crashes>>

-----------------------------------------------------------------------------
(* Requests                                                                 *)

\* TenantRoleGrantService.grant_role projects in its own transaction; it has looked
\* for an existing grant.  The acceptance of an invitation does neither.
GrantRole(a, g) ==
  /\ grants[g] = "none"
  /\ \A q \in Procs : proc[q].job = "grant" => proc[q].grant # g
  /\ g \notin Invited => Live = {}
  /\ UNCHANGED started
  /\ Begins(a, "inserting", "grant", g, IF g \in Invited THEN {} ELSE RulesFor(g))

\* RoleGrantService.revoke_role loads the grant; DeleteBegin follows.
RevokeRole(a, g) ==
  /\ grants[g] = "live"
  /\ Begins(a, "planned", "revoke", g, {})
  /\ UNCHANGED started

\* update_template changes the permissions and nothing else.
UpdateTemplate(permissions) ==
  /\ updates < MaxUpdates
  /\ permissions # template
  /\ template' = permissions
  /\ updates' = updates + 1
  /\ undisturbed' = {}
  /\ UNCHANGED <<grants, policies, events, proc, started, crashes>>

-----------------------------------------------------------------------------
(* Dispatchers                                                              *)

\* Claimed events are locked until their iteration ends.
Unclaimed(g) == Cardinality({d \in Dispatchers : proc[d].grant = g}) < events[g]

\* Mutant: a missing grant is an error, and the event is tried again.
HandleEvent_NotFound(d, g) ==
  /\ Unclaimed(g)
  /\ grants[g] = "live"
  /\ Begins(d, "loaded", "project", g, {})
  /\ started' = started \cup {d}

\* handle_role_grant_changed loads the grant: it projects or removes.
HandleEvent(d, g) ==
  /\ Unclaimed(g)
  /\ IF grants[g] = "live" THEN Begins(d, "loaded", "project", g, {})
                           ELSE Begins(d, "planned", "remove", g, {})
  /\ started' = started \cup {d}

\* The template is loaded, after the grants.
LoadTemplate(p) ==
  /\ proc[p].phase = "loaded"
  /\ LET gs == IF proc[p].job = "repair" THEN proc[p].known ELSE {proc[p].grant}
     IN proc' = [proc EXCEPT ![p].phase = "planned", ![p].rules = gs \X template]
  /\ UNCHANGED <<Database, undisturbed, started, updates, crashes>>

-----------------------------------------------------------------------------
(* Reconciliation                                                           *)

RepairBegin(o) ==
  /\ proc[o].phase = "idle"
  /\ proc' = [proc EXCEPT ![o].phase = "loaded", ![o].job = "repair", ![o].known = Live]
  /\ undisturbed' = undisturbed \cup {o}
  /\ started' = started \cup {o}
  /\ UNCHANGED <<Database, updates, crashes>>

Missing(expected) == expected \ policies

\* Mutant: stale rows are only looked for among the grants that live.
Stale_OfKnown(expected) == {r \in policies : r \notin expected /\ \E e \in expected : e[1] = r[1]}

Stale(expected) == policies \ expected

\* reconcile loads the projection and compares.
RepairPlan(o) ==
  /\ proc[o].phase = "planned" /\ proc[o].job = "repair"
  /\ proc' = [proc EXCEPT ![o].snap = Stale(proc[o].rules),
                          ![o].rules = Missing(proc[o].rules),
                          ![o].phase = IF Stale(proc[o].rules) = {} /\ Missing(proc[o].rules) = {}
                                       THEN "done" ELSE "deleting"]
  /\ UNCHANGED <<Database, undisturbed, started, updates, crashes>>

-----------------------------------------------------------------------------
(* The statements and the commit that all share                              *)

\* DELETE ... WHERE role_grant_id = ... starts and finds the committed rows.
DeleteBegin(p) ==
  /\ proc[p].phase = "planned" /\ proc[p].job # "repair"
  /\ proc' = [proc EXCEPT ![p].phase = "deleting", ![p].snap = RowsOf(proc[p].grant)]
  /\ UNCHANGED <<Database, undisturbed, started, updates, crashes>>

\* The rows q's open transaction has deleted or inserted.
Touched(q) ==
  (IF proc[q].phase \in {"inserting", "ready"} THEN proc[q].snap ELSE {})
    \cup (IF proc[q].phase = "ready" THEN proc[q].rules ELSE {})

Waits(p, rows) == \E q \in Procs \ {p} : Touched(q) \cap rows # {}

\* It waits for the rows another transaction has deleted.
DeleteEnd(p) ==
  /\ proc[p].phase = "deleting"
  /\ ~Waits(p, proc[p].snap)
  /\ Goes(p, "inserting")

\* Another open transaction has inserted the subject's grant, or deletes the one that
\* lives: the same INSERT or DELETE waits, and an INSERT waits for a DELETE.
GrantLocked(p) ==
  \E q \in Procs \ {p} :
    /\ proc[q].phase = "ready"
    /\ \/ proc[p].job = "grant" /\ proc[q].job = "grant"
       \/ /\ proc[q].job = "revoke" /\ grants[proc[q].grant] = "live"
          /\ \/ proc[p].job = "grant"
             \/ proc[p].job = "revoke" /\ proc[p].grant = proc[q].grant

\* A unique key is there: uq_role_grants_... or uq_projected_policies_rule.
Duplicate(p) ==
  \/ proc[p].job = "grant" /\ Live # {}
  \/ proc[p].rules \cap (policies \ proc[p].snap) # {}

\* The flush: INSERTs, and for a revocation the DELETE of the grant.
Flush(p) ==
  /\ proc[p].phase = "inserting"
  /\ ~GrantLocked(p) /\ ~Waits(p, proc[p].rules)
  /\ ~Duplicate(p)
  /\ Goes(p, "ready")

\* The transaction is rolled back; an operator's command ends, a dispatcher starts again.
RolledBack(p) == IF p \in Operators THEN [Idle EXCEPT !.phase = "done"] ELSE Idle

FlushFails(p) ==
  /\ proc[p].phase = "inserting"
  /\ ~GrantLocked(p) /\ ~Waits(p, proc[p].rules)
  /\ Duplicate(p)
  /\ proc' = [proc EXCEPT ![p] = RolledBack(p)]
  /\ undisturbed' = undisturbed \ {p}
  /\ UNCHANGED <<Database, started, updates, crashes>>

\* Mutant: a revocation publishes no event.
CommitFact_Silent(p) ==
  LET g == proc[p].grant IN
  CASE proc[p].job = "grant"  -> /\ grants' = [grants EXCEPT ![g] = "live"]
                                 /\ events' = [events EXCEPT ![g] = @ + 1]
    [] proc[p].job = "revoke" -> /\ grants' = [grants EXCEPT ![g] = "gone"]
                                 /\ UNCHANGED events
    [] proc[p].job \in {"project", "remove"} -> /\ events' = [events EXCEPT ![g] = @ - 1]
                                                /\ UNCHANGED grants
    [] OTHER -> UNCHANGED <<grants, events>>

\* The fact changes with its event; a handled event is marked published.
CommitFact(p) ==
  LET g == proc[p].grant IN
  CASE proc[p].job = "grant"  -> /\ grants' = [grants EXCEPT ![g] = "live"]
                                 /\ events' = [events EXCEPT ![g] = @ + 1]
    [] proc[p].job = "revoke" -> /\ grants' = [grants EXCEPT ![g] = "gone"]
                                 /\ events' = [events EXCEPT ![g] = @ + 1]
    [] proc[p].job \in {"project", "remove"} -> /\ events' = [events EXCEPT ![g] = @ - 1]
                                                /\ UNCHANGED grants
    [] OTHER -> UNCHANGED <<grants, events>>

\* Mutant: the DELETE runs after the INSERTs.
Commit_DeletesLast(p) ==
  /\ proc[p].phase = "ready"
  /\ CommitFact(p)
  /\ policies' = (policies \cup proc[p].rules) \ proc[p].snap
  /\ proc' = [q \in Procs |-> IF q = p THEN RolledBack(p)
                              ELSE [proc[q] EXCEPT !.snap = @ \ proc[p].snap]]
  /\ undisturbed' = undisturbed \cap {p}
  /\ UNCHANGED <<template, started, updates, crashes>>

\* A row that is gone is gone for the DELETEs that have found it, too.
Commit(p) ==
  /\ proc[p].phase = "ready"
  /\ CommitFact(p)
  /\ policies' = (policies \ proc[p].snap) \cup proc[p].rules
  /\ proc' = [q \in Procs |-> IF q = p THEN RolledBack(p)
                              ELSE [proc[q] EXCEPT !.snap = @ \ proc[p].snap]]
  /\ undisturbed' = undisturbed \cap {p}
  /\ UNCHANGED <<template, started, updates, crashes>>

Crash(p) ==
  /\ crashes < MaxCrashes
  /\ proc[p].phase \notin {"idle", "done"}
  /\ proc' = [proc EXCEPT ![p] = RolledBack(p)]
  /\ crashes' = crashes + 1
  /\ undisturbed' = undisturbed \ {p}
  /\ UNCHANGED <<Database, started, updates>>

-----------------------------------------------------------------------------
\* What a process does once it has begun.
Work(p) ==
  \/ LoadTemplate(p) \/ RepairPlan(p) \/ DeleteBegin(p) \/ DeleteEnd(p)
  \/ Flush(p) \/ FlushFails(p) \/ Commit(p)

Next ==
  \/ \E a \in Admins, g \in Grants : GrantRole(a, g) \/ RevokeRole(a, g)
  \/ \E permissions \in SUBSET Perms \ {{}} : UpdateTemplate(permissions)
  \/ \E d \in Dispatchers, g \in Grants : HandleEvent(d, g)
  \/ \E o \in Operators : RepairBegin(o)
  \/ \E p \in Procs : Work(p) \/ Crash(p)

Spec == Init /\ [][Next]_vars

\* The dispatcher is a loop, and a transaction that has begun ends.
FairSpec ==
  /\ Spec
  /\ \A d \in Dispatchers, g \in Grants : WF_vars(HandleEvent(d, g))
  /\ \A p \in Procs : WF_vars(Work(p))

-----------------------------------------------------------------------------
\* A deleted grant without an undelivered event has no projected rows.
NoOrphans == \A g \in Grants : grants[g] = "gone" /\ events[g] = 0 => RowsOf(g) = {}

\* A grant whose event is handled is projected with the permissions of its template.
Projected == \A g \in Grants : grants[g] = "live" /\ events[g] = 0 => RowsOf(g) = RulesFor(g)

\* Nobody has reconciled; and one dispatcher at most has handled the events.
NoRepair == started \cap Operators = {}
OneDispatcher == NoRepair /\ \A d, e \in started : d = e

(* Once the events of a grant are handled its projection is right.  With one *)
(* dispatcher a revoked grant keeps no row, although a late projection can   *)
(* put rows back after the revocation has deleted them (revoke_role,         *)
(* handle_role_grant_changed); and while the template stays and nobody       *)
(* reconciles, a live grant is projected exactly, whatever dispatchers meet  *)
(* on it (project_grant).                                                    *)
HandledIsProjected ==
  /\ OneDispatcher => NoOrphans
  /\ NoRepair /\ updates = 0 => Projected

(* A repair during which nothing else was committed leaves exactly the       *)
(* policies of the facts ("facts -> expected policies -> actual policies ->  *)
(* diff -> repair"), whatever orphans and gaps it started from.              *)
RepairExact ==
  [][\A o \in undisturbed :
       proc[o].phase # "done" /\ proc'[o].phase = "done" /\ crashes' = crashes
         => policies' = Live \X template]_vars
=============================================================================
