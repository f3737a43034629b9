------------------------- MODULE PermissionsProofs --------------------------
(***************************************************************************)
(* Which rows the projection of grants leaves, for any number of grants,   *)
(* permissions, requests and crashes.  One dispatcher leaves no row of a   *)
(* revoked grant.  NoOrphans is not inductive: the dispatcher may be about *)
(* to insert rows of a grant that is already gone.  It rests on counting   *)
(* events: such a dispatcher has an event of the grant in its hands, and   *)
(* the revocation has added another one, which only the same dispatcher    *)
(* can handle.  Any number of dispatchers project a live grant exactly     *)
(* while its template stays, and a repair that nothing disturbed is exact. *)
(***************************************************************************)
EXTENDS Permissions, FiniteSetTheorems, TLAPS

\* A record with the fields of a process.
IsProc(s) == s = [f \in {"phase", "job", "grant", "known", "rules", "snap"} |-> s[f]]

\* Whoever has not started is idle; finitely many have.
StartedInv ==
  /\ started \subseteq Dispatchers \cup Operators /\ IsFiniteSet(started)
  /\ DOMAIN proc = Procs /\ proc = [p \in Procs |-> proc[p]]
  /\ \A p \in Procs : IsProc(proc[p])
  /\ \A p \in (Dispatchers \cup Operators) \ started : proc[p] = Idle

(* A step of one process that is a request, or has started by then.          *)
LEMMA StartedMoves ==
  ASSUME StartedInv, NEW p \in Procs, NEW s, proc' = [proc EXCEPT ![p] = s], IsProc(s),
         started' \in {started, started \cup {p}}, started' \subseteq Dispatchers \cup Operators,
         p \in Admins \cup started'
  PROVE  StartedInv'
<1>1. proc'[p] = s /\ \A q \in Procs \ {p} : proc'[q] = proc[q]
  BY DEF StartedInv
<1>2. IsFiniteSet(started') /\ started' \subseteq Dispatchers \cup Operators
  BY FS_AddElement DEF StartedInv
<1>3. \A q \in (Dispatchers \cup Operators) \ started' : proc'[q] = Idle
  BY <1>1, PermissionsAssumption DEF StartedInv, Procs
<1>4. DOMAIN proc' = Procs /\ proc' = [q \in Procs |-> proc'[q]]
  BY DEF StartedInv
<1> QED
  BY <1>1, <1>2, <1>3, <1>4 DEF StartedInv

LEMMA StartedNext == ASSUME StartedInv, Next PROVE StartedInv'
<1>0. /\ \A p \in Procs : IsProc(proc[p]) /\ IsProc(RolledBack(p))
      /\ \A p \in Procs : proc[p] # Idle => p \in Admins \cup started
  BY DEF StartedInv, RolledBack, Idle, IsProc, Procs
<1>1. ASSUME NEW p \in Procs, NEW phase, NEW job, NEW g, NEW rules, Begins(p, phase, job, g, rules),
             (started' = started /\ p \in Admins) \/ (started' = started \cup {p} /\ p \in Dispatchers)
      PROVE  StartedInv'
  <2> DEFINE s == [phase |-> phase, job |-> job, grant |-> g, known |-> {}, rules |-> rules, snap |-> {}]
  <2>1. IsProc(s)
    BY DEF IsProc
  <2>2. proc' = [proc EXCEPT ![p] = s]
    BY <1>1 DEF Begins
  <2> HIDE DEF s
  <2>3. started' \in {started, started \cup {p}} /\ started' \subseteq Dispatchers \cup Operators
    BY <1>1 DEF StartedInv
  <2>4. p \in Admins \cup started'
    BY <1>1
  <2> QED
    BY <2>1, <2>2, <2>3, <2>4, StartedMoves
<1>2. ASSUME NEW a \in Admins, NEW g \in Grants, GrantRole(a, g) \/ RevokeRole(a, g)
      PROVE  StartedInv'
  BY <1>1, <1>2 DEF GrantRole, RevokeRole, Procs
<1>3. ASSUME NEW d \in Dispatchers, NEW g \in Grants, HandleEvent(d, g) PROVE StartedInv'
  BY <1>1, <1>3 DEF HandleEvent, Procs
<1>4. ASSUME NEW permissions, UpdateTemplate(permissions) PROVE StartedInv'
  BY <1>4 DEF UpdateTemplate, StartedInv
<1>5. ASSUME NEW o \in Operators, RepairBegin(o) PROVE StartedInv'
  <2> DEFINE s == [proc[o] EXCEPT !.phase = "loaded", !.job = "repair", !.known = Live]
  <2>0. o \in Procs
    BY DEF Procs
  <2>1. IsProc(s)
    BY <1>0, <2>0 DEF IsProc
  <2>2. proc' = [proc EXCEPT ![o] = s] /\ started' = started \cup {o}
    BY <1>5 DEF RepairBegin
  <2> HIDE DEF s
  <2>3. started' \subseteq Dispatchers \cup Operators
    BY <2>2 DEF StartedInv
  <2> QED
    BY <2>0, <2>1, <2>2, <2>3, StartedMoves
<1>6. ASSUME NEW p \in Procs, NEW s, proc' = [proc EXCEPT ![p] = s], IsProc(s),
             proc[p].phase # "idle", started' = started
      PROVE  StartedInv'
  <2>1. p \in Admins \cup started
    BY <1>0, <1>6 DEF Idle
  <2>2. started' \subseteq Dispatchers \cup Operators
    BY <1>6 DEF StartedInv
  <2> QED
    BY <1>6, <2>1, <2>2, StartedMoves
<1>7. ASSUME NEW p \in Procs, LoadTemplate(p) PROVE StartedInv'
  <2>1. PICK rules : proc' = [proc EXCEPT ![p] = [proc[p] EXCEPT !.phase = "planned", !.rules = rules]]
    BY <1>7 DEF LoadTemplate
  <2>2. IsProc([proc[p] EXCEPT !.phase = "planned", !.rules = rules])
    BY <1>0 DEF IsProc
  <2> QED
    BY <1>6, <1>7, <2>1, <2>2 DEF LoadTemplate
<1>8. ASSUME NEW p \in Procs, RepairPlan(p) PROVE StartedInv'
  <2>1. PICK phase, rules, snap :
          proc' = [proc EXCEPT ![p] = [proc[p] EXCEPT !.snap = snap, !.rules = rules, !.phase = phase]]
    BY <1>8 DEF RepairPlan
  <2>2. IsProc([proc[p] EXCEPT !.snap = snap, !.rules = rules, !.phase = phase])
    BY <1>0 DEF IsProc
  <2> QED
    BY <1>6, <1>8, <2>1, <2>2 DEF RepairPlan
<1>9. ASSUME NEW p \in Procs, DeleteBegin(p) PROVE StartedInv'
  <2>1. IsProc([proc[p] EXCEPT !.phase = "deleting", !.snap = RowsOf(proc[p].grant)])
    BY <1>0 DEF IsProc
  <2> QED
    BY <1>6, <1>9, <2>1 DEF DeleteBegin
<1>10. ASSUME NEW p \in Procs, NEW phase, Goes(p, phase), proc[p].phase # "idle" PROVE StartedInv'
  <2>1. IsProc([proc[p] EXCEPT !.phase = phase])
    BY <1>0 DEF IsProc
  <2> QED
    BY <1>6, <1>10, <2>1 DEF Goes
<1>11. ASSUME NEW p \in Procs, FlushFails(p) \/ Crash(p) PROVE StartedInv'
  <2>1. IsProc(RolledBack(p))
    BY <1>0
  <2> QED
    BY <1>6, <1>11, <2>1 DEF FlushFails, Crash
<1>12. ASSUME NEW p \in Procs, Commit(p) PROVE StartedInv'
  <2>1. /\ proc[p].phase = "ready" /\ started' = started
        /\ proc' = [q \in Procs |-> IF q = p THEN RolledBack(p)
                                    ELSE [proc[q] EXCEPT !.snap = @ \ proc[p].snap]]
    BY <1>12 DEF Commit
  <2>2. p \in Admins \cup started
    BY <1>0, <2>1 DEF Idle
  <2>3. ASSUME NEW q \in Procs \ {p}
        PROVE  IsProc(proc'[q]) /\ (proc[q] = Idle => proc'[q] = Idle)
    <3>1. proc'[q] = [proc[q] EXCEPT !.snap = @ \ proc[p].snap] /\ IsProc(proc[q])
      BY <1>0, <2>1
    <3>2. IsProc(proc'[q])
      BY <3>1 DEF IsProc
    <3>3. ASSUME proc[q] = Idle PROVE proc'[q] = Idle
      <4>1. proc'[q] = [Idle EXCEPT !.snap = {}]
        BY <3>1, <3>3 DEF Idle
      <4> QED
        BY <4>1 DEF Idle
    <3> QED
      BY <3>2, <3>3
  <2>4. \A q \in Procs : IsProc(proc'[q])
    BY <1>0, <2>1, <2>3
  <2>5. \A q \in (Dispatchers \cup Operators) \ started' : proc'[q] = Idle
    BY <2>1, <2>2, <2>3, PermissionsAssumption DEF StartedInv, Procs
  <2> QED
    BY <2>1, <2>4, <2>5 DEF StartedInv
<1>13. ASSUME NEW p \in Procs, Work(p) \/ Crash(p) PROVE StartedInv'
  <2>1. CASE DeleteEnd(p)
    BY <1>10, <2>1 DEF DeleteEnd
  <2>2. CASE Flush(p)
    BY <1>10, <2>2 DEF Flush
  <2> QED
    BY <1>7, <1>8, <1>9, <1>11, <1>12, <1>13, <2>1, <2>2 DEF Work
<1> QED
  BY <1>2, <1>3, <1>4, <1>5, <1>13 DEF Next

LEMMA StartedGrows == [Next]_vars => started \subseteq started'
<1>1. ASSUME NEW p \in Procs, Work(p) \/ Crash(p) PROVE started' = started
  BY <1>1 DEF Work, Crash, LoadTemplate, RepairPlan, DeleteBegin, DeleteEnd, Flush, FlushFails,
              Commit, Goes
<1>2. ASSUME NEW a \in Admins, NEW g \in Grants, GrantRole(a, g) \/ RevokeRole(a, g)
      PROVE  started' = started
  BY <1>2 DEF GrantRole, RevokeRole
<1> QED
  BY <1>1, <1>2 DEF Next, vars, UpdateTemplate, HandleEvent, RepairBegin

LEMMA StartedAlways ==
  /\ Init => StartedInv
  /\ StartedInv /\ [Next]_vars => StartedInv'
<1>1. Init => StartedInv
  <2> SUFFICES ASSUME Init PROVE StartedInv
    OBVIOUS
  <2>1. IsProc(Idle)
    BY DEF Idle, IsProc
  <2>2. proc = [p \in Procs |-> Idle] /\ started = {}
    BY DEF Init
  <2> QED
    BY <2>1, <2>2, FS_EmptySet DEF StartedInv, Procs
<1>2. StartedInv /\ UNCHANGED vars => StartedInv'
  BY DEF vars, StartedInv
<1> QED
  BY <1>1, <1>2, StartedNext

-----------------------------------------------------------------------------
\* What the jobs mean for the database, p in state s.
Fine(p, s) ==
  /\ s \in Proc
  /\ p \in Dispatchers => s.job \in {"none", "project", "remove"}
  /\ p \in Admins => s.job \in {"none", "grant", "revoke"}
  /\ p \in Operators => s.job = "none"
  /\ s.phase # "idle" => s.job # "none"
  /\ s.phase \in {"idle", "loaded", "planned", "deleting", "inserting", "ready"}
  /\ s.job # "none" => s.grant \in Grants /\ s.rules \subseteq {s.grant} \X Perms
  /\ s.job = "grant" => grants[s.grant] = "none"
  /\ s.job = "revoke" => grants[s.grant] # "none" /\ s.rules = {}
  /\ s.job = "project" => /\ events[s.grant] >= 1 /\ grants[s.grant] # "none"
                          /\ grants[s.grant] = "gone" => events[s.grant] >= 2
  /\ s.job = "remove" => /\ events[s.grant] >= 1 /\ grants[s.grant] = "gone"
                         /\ s.rules = {}
                         /\ s.phase \in {"deleting", "inserting", "ready"}
                              => RowsOf(s.grant) \subseteq s.snap
  /\ s.phase = "loaded" => s.job = "project"

Tables ==
  /\ template \in SUBSET Perms \ {{}}
  /\ grants \in [Grants -> {"none", "live", "gone"}]
  /\ policies \subseteq Rows
  /\ events \in [Grants -> Nat]

NoEventBeforeGrant == \A g \in Grants : grants[g] = "none" => events[g] = 0

GrantsDistinct ==
  \A p, q \in Procs : proc[p].job = "grant" /\ proc[q].job = "grant"
                        /\ proc[p].grant = proc[q].grant => p = q

IInv ==
  /\ Tables
  /\ DOMAIN proc = Procs /\ proc = [p \in Procs |-> proc[p]]
  /\ \A p \in Procs : Fine(p, proc[p])
  /\ NoEventBeforeGrant
  /\ GrantsDistinct
  /\ NoOrphans

-----------------------------------------------------------------------------
(* Idle is a state any process may be in. *)
LEMMA IdleFine == ASSUME NEW p \in Procs PROVE Fine(p, Idle)
BY DEF Fine, Idle, Proc, Phases, Rows

(* A step that changes only process p, and does not start a second request   *)
(* for one grant, has to show that p's new state is fine.                    *)
LEMMA OneMoves ==
  ASSUME IInv, NEW p \in Procs, NEW s,
         proc' = [proc EXCEPT ![p] = s],
         UNCHANGED Database,
         Fine(p, s),
         s.job = "grant" => \A q \in Procs \ {p} : proc[q].job = "grant" => proc[q].grant # s.grant
  PROVE  IInv'
<1> USE DEF Database
<1>1. Tables' /\ NoEventBeforeGrant' /\ NoOrphans'
  BY DEF IInv, Tables, NoEventBeforeGrant, NoOrphans, RowsOf
<1>2. DOMAIN proc' = Procs /\ proc' = [q \in Procs |-> proc'[q]]
  BY DEF IInv
<1>3. \A q \in Procs : proc'[q] = IF q = p THEN s ELSE proc[q]
  BY DEF IInv
<1>4. \A q \in Procs : Fine(q, proc[q])
  BY DEF IInv
<1>5. ASSUME NEW q \in Procs PROVE Fine(q, proc[q])'
  <2>1. CASE q = p
    BY <1>3, <2>1 DEF Fine, RowsOf
  <2>2. CASE q # p
    <3>1. proc'[q] = proc[q]
      BY <1>3, <2>2
    <3> QED
      BY <1>4, <3>1 DEF Fine, RowsOf
  <2> QED
    BY <2>1, <2>2
<1>7. GrantsDistinct'
  BY <1>3 DEF IInv, GrantsDistinct
<1> QED
  BY <1>1, <1>2, <1>5, <1>7 DEF IInv

(* Fields of a process's state are set one at a time. *)
LEMMA ProcUpdates ==
  ASSUME NEW s \in Proc
  PROVE  /\ \A ph \in Phases :
              /\ [s EXCEPT !.phase = ph] \in Proc
              /\ [s EXCEPT !.phase = ph].phase = ph
              /\ [s EXCEPT !.phase = ph].job = s.job
              /\ [s EXCEPT !.phase = ph].grant = s.grant
              /\ [s EXCEPT !.phase = ph].rules = s.rules
              /\ [s EXCEPT !.phase = ph].snap = s.snap
         /\ \A rows \in SUBSET Rows :
              /\ [s EXCEPT !.rules = rows] \in Proc /\ [s EXCEPT !.snap = rows] \in Proc
              /\ [s EXCEPT !.snap = rows].snap = rows /\ [s EXCEPT !.rules = rows].rules = rows
              /\ [s EXCEPT !.snap = rows].rules = s.rules /\ [s EXCEPT !.rules = rows].snap = s.snap
              /\ [s EXCEPT !.snap = rows].phase = s.phase /\ [s EXCEPT !.rules = rows].phase = s.phase
              /\ [s EXCEPT !.snap = rows].job = s.job /\ [s EXCEPT !.rules = rows].job = s.job
              /\ [s EXCEPT !.snap = rows].grant = s.grant /\ [s EXCEPT !.rules = rows].grant = s.grant
BY DEF Proc

(* What Begins makes of a process. *)
Started(phase, job, g, rules) ==
  [phase |-> phase, job |-> job, grant |-> g, known |-> {}, rules |-> rules, snap |-> {}]

LEMMA StartedFields ==
  ASSUME NEW phase \in Phases, NEW job \in {"grant", "revoke", "project", "remove"},
         NEW g \in Grants, NEW rules \in SUBSET Rows
  PROVE  LET s == Started(phase, job, g, rules) IN
           /\ s \in Proc
           /\ s.phase = phase /\ s.job = job /\ s.grant = g /\ s.rules = rules /\ s.snap = {}
BY DEF Started, Proc

(* A request that grants: its grant is new, and no other request makes it. *)
LEMMA GrantRoleStep ==
  ASSUME IInv, OneDispatcher, StartedInv, NEW a \in Admins, NEW g \in Grants, GrantRole(a, g)
  PROVE  IInv'
<1> DEFINE rules == IF g \in Invited THEN {} ELSE RulesFor(g)
<1>1. rules \in SUBSET Rows /\ rules \subseteq {g} \X Perms
  BY DEF IInv, Tables, RulesFor, Rows
<1> HIDE DEF rules
<1>2. Begins(a, "inserting", "grant", g, rules)
  BY DEF GrantRole, rules
<1> DEFINE s == Started("inserting", "grant", g, rules)
<1>3. proc' = [proc EXCEPT ![a] = s]
  BY <1>1, <1>2 DEF Begins, Started
<1>a. "inserting" \in Phases /\ rules \in SUBSET Rows
  BY <1>1 DEF Phases
<1>b. /\ s \in Proc
     /\ s.phase = "inserting" /\ s.job = "grant" /\ s.grant = g /\ s.rules = rules /\ s.snap = {}
  BY <1>a, StartedFields
<1> HIDE DEF s
<1>4. UNCHANGED Database
  BY <1>2 DEF Begins
<1>5. grants[g] = "none"
  BY DEF GrantRole
<1>6. Fine(a, s)
  BY <1>1, <1>b, <1>5, PermissionsAssumption DEF Fine
<1>7. \A q \in Procs \ {a} : proc[q].job = "grant" => proc[q].grant # g
  BY DEF GrantRole
<1> QED
  BY <1>3, <1>4, <1>6, <1>7, <1>b, OneMoves DEF Procs

LEMMA RevokeRoleStep ==
  ASSUME IInv, OneDispatcher, StartedInv, NEW a \in Admins, NEW g \in Grants, RevokeRole(a, g)
  PROVE  IInv'
<1>1. Begins(a, "planned", "revoke", g, {}) /\ grants[g] = "live"
  BY DEF RevokeRole
<1> DEFINE s == Started("planned", "revoke", g, {})
<1>2. proc' = [proc EXCEPT ![a] = s]
  BY <1>1 DEF Begins, Started
<1>a. "planned" \in Phases /\ {} \in SUBSET Rows
  BY DEF Phases
<1>b. /\ s \in Proc
     /\ s.phase = "planned" /\ s.job = "revoke" /\ s.grant = g /\ s.rules = {} /\ s.snap = {}
  BY <1>a, StartedFields
<1> HIDE DEF s
<1>3. UNCHANGED Database
  BY <1>1 DEF Begins
<1>4. Fine(a, s)
  BY <1>1, <1>b, PermissionsAssumption DEF Fine
<1> QED
  BY <1>2, <1>3, <1>4, <1>b, OneMoves DEF Procs

(* The dispatcher takes an event: it finds the grant alive, with this event  *)
(* to its name, or gone.                                                     *)
LEMMA HandleEventStep ==
  ASSUME IInv, OneDispatcher, StartedInv, NEW d \in Dispatchers, NEW g \in Grants, HandleEvent(d, g),
         OneDispatcher'
  PROVE  IInv'
<1>1. proc[d].phase = "idle"
  BY DEF HandleEvent, Begins
<1>2. events[g] >= 1
  <2>1. {e \in Dispatchers : proc[e].grant = g} \subseteq {d}
    <3>1. ASSUME NEW e \in Dispatchers, e # d PROVE e \notin started
      BY <3>1 DEF HandleEvent, OneDispatcher
    <3>2. ASSUME NEW e \in Dispatchers, e # d PROVE proc[e] = Idle
      BY <3>1, <3>2 DEF StartedInv
    <3>3. Idle.grant # g
      BY PermissionsAssumption DEF Idle
    <3> QED
      BY <3>2, <3>3
  <2>2. Cardinality({e \in Dispatchers : proc[e].grant = g}) \in Nat
    BY <2>1, FS_Singleton, FS_Subset, FS_CardinalityType
  <2>3. events[g] \in Nat /\ Cardinality({e \in Dispatchers : proc[e].grant = g}) < events[g]
    BY DEF HandleEvent, Unclaimed, IInv, Tables
  <2> QED
    BY <2>2, <2>3
<1>3. grants[g] # "none"
  BY <1>2 DEF IInv, NoEventBeforeGrant
<1>4. UNCHANGED Database
  BY DEF HandleEvent, Begins
<1>5. CASE grants[g] = "live"
  <2>1. Begins(d, "loaded", "project", g, {})
    BY <1>5 DEF HandleEvent
  <2> DEFINE s == Started("loaded", "project", g, {})
  <2>2. proc' = [proc EXCEPT ![d] = s]
    BY <2>1 DEF Begins, Started
  <2>a. "loaded" \in Phases /\ {} \in SUBSET Rows
    BY DEF Phases
  <2>b. /\ s \in Proc
       /\ s.phase = "loaded" /\ s.job = "project" /\ s.grant = g /\ s.rules = {} /\ s.snap = {}
    BY <2>a, StartedFields
  <2> HIDE DEF s
  <2>3. Fine(d, s)
    BY <1>2, <1>5, <2>b, PermissionsAssumption DEF Fine
  <2> QED
    BY <1>4, <2>2, <2>3, <2>b, OneMoves DEF Procs
<1>6. CASE grants[g] # "live"
  <2>1. Begins(d, "planned", "remove", g, {}) /\ grants[g] = "gone"
    BY <1>3, <1>6 DEF HandleEvent, IInv, Tables
  <2> DEFINE s == Started("planned", "remove", g, {})
  <2>2. proc' = [proc EXCEPT ![d] = s]
    BY <2>1 DEF Begins, Started
  <2>a. "planned" \in Phases /\ {} \in SUBSET Rows
    BY DEF Phases
  <2>b. /\ s \in Proc
       /\ s.phase = "planned" /\ s.job = "remove" /\ s.grant = g /\ s.rules = {} /\ s.snap = {}
    BY <2>a, StartedFields
  <2> HIDE DEF s
  <2>3. Fine(d, s)
    BY <1>2, <2>1, <2>b, PermissionsAssumption DEF Fine
  <2> QED
    BY <1>4, <2>2, <2>3, <2>b, OneMoves DEF Procs
<1> QED
  BY <1>5, <1>6

-----------------------------------------------------------------------------
(* A projection computes its rules; grants and events stay as they are.      *)
LEMMA LoadTemplateStep ==
  ASSUME IInv, OneDispatcher, StartedInv, NEW p \in Procs, LoadTemplate(p)
  PROVE  IInv'
<1>1. /\ Fine(p, proc[p]) /\ proc[p].phase = "loaded"
      /\ proc[p].job = "project" /\ proc[p].grant \in Grants /\ proc[p] \in Proc
  BY DEF LoadTemplate, IInv, Fine
<1> DEFINE rows == {proc[p].grant} \X template
           s1 == [proc[p] EXCEPT !.phase = "planned"]
           s == [s1 EXCEPT !.rules = rows]
<1>2. rows \in SUBSET Rows /\ rows \subseteq {proc[p].grant} \X Perms
  BY <1>1 DEF IInv, Tables, Rows
<1>3. proc' = [proc EXCEPT ![p] = s]
  BY <1>1 DEF LoadTemplate
<1>4. "planned" \in Phases
  BY DEF Phases
<1>5. /\ s1 \in Proc /\ s1.phase = "planned" /\ s1.job = "project"
      /\ s1.grant = proc[p].grant
  BY <1>1, <1>4, ProcUpdates
<1> HIDE DEF s1, rows
<1>6. /\ s \in Proc /\ s.phase = "planned" /\ s.job = "project"
      /\ s.grant = proc[p].grant /\ s.rules = rows
  BY <1>2, <1>5, ProcUpdates
<1> HIDE DEF s
<1>7. Fine(p, s)
  BY <1>1, <1>2, <1>6 DEF Fine
<1>8. UNCHANGED Database
  BY DEF LoadTemplate
<1> QED
  BY <1>3, <1>6, <1>7, <1>8, OneMoves

(* The DELETE finds every row its grant has; nothing but this transaction's  *)
(* commit, or another's for the same grant, changes them from then on.       *)
LEMMA DeleteBeginStep ==
  ASSUME IInv, OneDispatcher, StartedInv, NEW p \in Procs, DeleteBegin(p)
  PROVE  IInv'
<1>1. Fine(p, proc[p]) /\ proc[p].phase = "planned" /\ proc[p] \in Proc
  BY DEF DeleteBegin, IInv, Fine
<1> DEFINE rows == RowsOf(proc[p].grant)
           s1 == [proc[p] EXCEPT !.phase = "deleting"]
           s == [s1 EXCEPT !.snap = rows]
<1>2. rows \in SUBSET Rows
  BY DEF IInv, Tables, RowsOf
<1>3. proc' = [proc EXCEPT ![p] = s]
  BY <1>1 DEF DeleteBegin
<1>4. "deleting" \in Phases
  BY DEF Phases
<1>5. /\ s1 \in Proc /\ s1.phase = "deleting" /\ s1.job = proc[p].job
      /\ s1.grant = proc[p].grant /\ s1.rules = proc[p].rules
  BY <1>1, <1>4, ProcUpdates
<1> HIDE DEF s1, rows
<1>6. /\ s \in Proc /\ s.phase = "deleting" /\ s.job = proc[p].job
      /\ s.grant = proc[p].grant /\ s.rules = proc[p].rules /\ s.snap = rows
  BY <1>2, <1>5, ProcUpdates
<1> HIDE DEF s
<1>7. Fine(p, s)
  BY <1>1, <1>6 DEF Fine, rows
<1>8. UNCHANGED Database
  BY DEF DeleteBegin
<1>9. s.job = "grant" => \A q \in Procs \ {p} : proc[q].job = "grant" => proc[q].grant # s.grant
  BY <1>6 DEF IInv, GrantsDistinct
<1> QED
  BY <1>3, <1>7, <1>8, <1>9, OneMoves

(* DeleteEnd and Flush only move on. *)
LEMMA GoesStep ==
  ASSUME IInv, NEW p \in Procs, NEW phase \in {"inserting", "ready"},
         proc[p].phase \in {"deleting", "inserting"}, Goes(p, phase)
  PROVE  IInv'
<1>1. Fine(p, proc[p]) /\ proc[p] \in Proc
  BY DEF IInv, Fine
<1> DEFINE s == [proc[p] EXCEPT !.phase = phase]
<1>2. proc' = [proc EXCEPT ![p] = s]
  BY DEF Goes
<1>3. phase \in Phases
  BY DEF Phases
<1>4. /\ s \in Proc /\ s.phase = phase /\ s.job = proc[p].job
      /\ s.grant = proc[p].grant /\ s.rules = proc[p].rules /\ s.snap = proc[p].snap
  BY <1>1, <1>3, ProcUpdates
<1> HIDE DEF s
<1>5. Fine(p, s)
  BY <1>1, <1>4 DEF Fine
<1>6. UNCHANGED Database
  BY DEF Goes
<1>7. s.job = "grant" => \A q \in Procs \ {p} : proc[q].job = "grant" => proc[q].grant # s.grant
  BY <1>4 DEF IInv, GrantsDistinct
<1> QED
  BY <1>2, <1>5, <1>6, <1>7, OneMoves

(* A transaction that is rolled back leaves the tables as they were. *)
LEMMA RolledBackStep ==
  ASSUME IInv, NEW p \in Procs, UNCHANGED Database, proc[p].phase # "idle",
         proc' = [proc EXCEPT ![p] = RolledBack(p)]
  PROVE  IInv'
<1>1. RolledBack(p) = Idle
  BY DEF RolledBack, IInv, Fine
<1>2. Fine(p, Idle) /\ Idle.job = "none"
  BY IdleFine DEF Idle
<1> HIDE DEF Idle
<1> QED
  BY <1>1, <1>2, OneMoves

-----------------------------------------------------------------------------
(* What a commit does to processes and rows, whatever its job is.            *)
LEMMA CommitFields ==
  ASSUME IInv, OneDispatcher, StartedInv, NEW p \in Procs, Commit(p)
  PROVE  /\ proc' = [q \in Procs |-> proc'[q]] /\ DOMAIN proc' = Procs
         /\ proc'[p] = Idle
         /\ \A q \in Procs \ {p} :
              /\ proc'[q] \in Proc /\ proc'[q].phase = proc[q].phase
              /\ proc'[q].job = proc[q].job /\ proc'[q].grant = proc[q].grant
              /\ proc'[q].rules = proc[q].rules
              /\ proc'[q].snap = proc[q].snap \ proc[p].snap
         /\ template' = template /\ policies' \subseteq Rows
         /\ \A g \in Grants : g # proc[p].grant \/ proc[p].rules = {}
                             => RowsOf(g)' = RowsOf(g) \ proc[p].snap
<1>1. Fine(p, proc[p]) /\ proc[p].job # "none" /\ proc[p] \in Proc
  BY DEF IInv, Fine, Commit
<1>2. /\ proc' = [q \in Procs |-> IF q = p THEN RolledBack(p)
                                 ELSE [proc[q] EXCEPT !.snap = @ \ proc[p].snap]]
      /\ policies' = (policies \ proc[p].snap) \cup proc[p].rules
      /\ template' = template
  BY DEF Commit
<1>3. proc'[p] = Idle
  BY <1>1, <1>2 DEF RolledBack, Fine
<1>4. ASSUME NEW q \in Procs \ {p}
      PROVE  /\ proc'[q] \in Proc /\ proc'[q].phase = proc[q].phase
             /\ proc'[q].job = proc[q].job /\ proc'[q].grant = proc[q].grant
             /\ proc'[q].rules = proc[q].rules
             /\ proc'[q].snap = proc[q].snap \ proc[p].snap
  <2> DEFINE rows == proc[q].snap \ proc[p].snap
  <2>1. proc[q] \in Proc
    BY DEF IInv, Fine
  <2>2. proc'[q] = [proc[q] EXCEPT !.snap = rows]
    BY <1>2
  <2>3. proc[q].snap \in SUBSET Rows
    BY <2>1 DEF Proc
  <2>4. rows \in SUBSET Rows
    BY <2>3
  <2> HIDE DEF rows
  <2> DEFINE s == [proc[q] EXCEPT !.snap = rows]
  <2>5. /\ s \in Proc /\ s.phase = proc[q].phase /\ s.job = proc[q].job
        /\ s.grant = proc[q].grant /\ s.rules = proc[q].rules /\ s.snap = rows
    BY <2>1, <2>4, ProcUpdates
  <2> HIDE DEF s
  <2>6. proc'[q] = s
    BY <2>2 DEF s
  <2> QED
    BY <2>5, <2>6 DEF rows
<1>5. proc[p].rules \subseteq {proc[p].grant} \X Perms /\ proc[p].rules \subseteq Rows
  BY <1>1 DEF Fine, Rows
<1>6. policies' \subseteq Rows
  BY <1>2, <1>5 DEF IInv, Tables
<1>7. ASSUME NEW g \in Grants, g # proc[p].grant \/ proc[p].rules = {}
      PROVE  RowsOf(g)' = RowsOf(g) \ proc[p].snap
  BY <1>2, <1>5, <1>7 DEF RowsOf
<1> QED
  BY <1>2, <1>3, <1>4, <1>6, <1>7

(* What p's commit must leave to q, if q is about grant g. *)
Suits(p, q, g) ==
  proc[q].grant = g =>
    /\ proc[q].job = "grant" => grants'[g] = "none"
    /\ proc[q].job = "revoke" => grants'[g] # "none"
    /\ proc[q].job = "project" => /\ events'[g] >= 1 /\ grants'[g] # "none"
                                  /\ grants'[g] = "gone" => events'[g] >= 2
    /\ proc[q].job = "remove" => /\ events'[g] >= 1 /\ grants'[g] = "gone"
                                 /\ RowsOf(g)' = RowsOf(g) \ proc[p].snap

(* A commit keeps the invariant if it keeps the tables, the counts of events *)
(* and NoOrphans, and is fine with what the others are doing.                *)
LEMMA CommitPreserves ==
  ASSUME IInv, OneDispatcher, StartedInv, NEW p \in Procs, Commit(p),
         grants' \in [Grants -> {"none", "live", "gone"}], events' \in [Grants -> Nat],
         NoEventBeforeGrant', NoOrphans',
         \A q \in Procs \ {p}, g \in Grants : Suits(p, q, g)
  PROVE  IInv'
<1>1. Tables'
  BY CommitFields DEF IInv, Tables
<1>2. ASSUME NEW q \in Procs PROVE Fine(q, proc[q])'
  <2>1. CASE q = p
    <3>1. proc'[q] = Idle
      BY <2>1, CommitFields
    <3> QED
      BY <3>1 DEF Fine, Idle, Proc, Phases, Rows
  <2>2. CASE q # p
    <3>1. /\ proc'[q] \in Proc /\ proc'[q].phase = proc[q].phase
          /\ proc'[q].job = proc[q].job /\ proc'[q].grant = proc[q].grant
          /\ proc'[q].rules = proc[q].rules
          /\ proc'[q].snap = proc[q].snap \ proc[p].snap
      BY <2>2, CommitFields
    <3>2. Fine(q, proc[q])
      BY DEF IInv
    <3>3. CASE proc[q].job = "none"
      BY <3>1, <3>2, <3>3 DEF Fine
    <3>4. CASE proc[q].job # "none"
      <4> DEFINE g == proc[q].grant
      <4>1. g \in Grants
        BY <3>2, <3>4 DEF Fine
      <4> QED
        BY <2>2, <3>1, <3>2, <3>4, <4>1 DEF Fine, Suits
    <3> QED
      BY <3>3, <3>4
  <2> QED
    BY <2>1, <2>2
<1>3. GrantsDistinct'
  <2> SUFFICES ASSUME NEW q \in Procs, NEW r \in Procs,
                      proc'[q].job = "grant", proc'[r].job = "grant",
                      proc'[q].grant = proc'[r].grant
               PROVE  q = r
    BY DEF GrantsDistinct
  <2>1. Idle.job # "grant"
    BY DEF Idle
  <2>2. q # p /\ r # p
    BY <2>1, CommitFields
  <2> QED
    BY <2>2, CommitFields DEF IInv, GrantsDistinct
<1> QED
  BY <1>1, <1>2, <1>3, CommitFields DEF IInv

(* A grant lives from its commit on, and its event is its first.             *)
LEMMA CommitGrant ==
  ASSUME IInv, OneDispatcher, StartedInv, NEW p \in Procs, Commit(p), proc[p].job = "grant"
  PROVE  IInv'
<1> DEFINE g == proc[p].grant
<1>1. /\ g \in Grants /\ grants[g] = "none"
  BY DEF IInv, Fine
<1>2. grants' = [grants EXCEPT ![g] = "live"] /\ events' = [events EXCEPT ![g] = @ + 1]
  BY DEF Commit, CommitFact
<1>3. /\ grants \in [Grants -> {"none", "live", "gone"}] /\ events \in [Grants -> Nat]
      /\ NoEventBeforeGrant /\ NoOrphans
  BY DEF IInv, Tables
<1> HIDE DEF g
<1>4. /\ grants' \in [Grants -> {"none", "live", "gone"}] /\ events' \in [Grants -> Nat]
      /\ grants'[g] = "live" /\ events'[g] = events[g] + 1
      /\ \A h \in Grants \ {g} : grants'[h] = grants[h] /\ events'[h] = events[h]
  BY <1>1, <1>2, <1>3
<1>5. NoEventBeforeGrant'
  BY <1>3, <1>4 DEF NoEventBeforeGrant
<1>6. NoOrphans'
  <2>1. \A h \in Grants \ {g} : RowsOf(h)' = RowsOf(h) \ proc[p].snap
    BY CommitFields DEF g
  <2> QED
    BY <1>3, <1>4, <2>1 DEF NoOrphans
<1>7. ASSUME NEW q \in Procs \ {p}, NEW h \in Grants, proc[q].grant = h
      PROVE  Suits(p, q, h)
  <2>1. Fine(q, proc[q])
    BY DEF IInv
  <2>2. CASE h = g
    <3>1. proc[q].job \notin {"grant", "revoke", "project", "remove"}
      BY <1>1, <1>7, <2>1, <2>2 DEF Fine, IInv, GrantsDistinct, g
    <3> QED
      BY <3>1 DEF Suits
  <2>3. CASE h # g
    <3>1. RowsOf(h)' = RowsOf(h) \ proc[p].snap
      BY <2>3, CommitFields DEF g
    <3> QED
      BY <1>4, <1>7, <2>1, <2>3, <3>1 DEF Fine, Suits
  <2> QED
    BY <2>2, <2>3
<1>8. \A q \in Procs \ {p}, h \in Grants : Suits(p, q, h)
  <2>1. ASSUME NEW q \in Procs \ {p}, NEW h \in Grants, proc[q].grant # h
        PROVE  Suits(p, q, h)
    BY <2>1 DEF Suits
  <2> QED
    BY <1>7, <2>1
<1> QED
  BY <1>4, <1>5, <1>6, <1>8, CommitPreserves

(* A revocation adds an event: whoever is projecting its grant is now        *)
(* holding one of at least two.                                              *)
LEMMA CommitRevoke ==
  ASSUME IInv, OneDispatcher, StartedInv, NEW p \in Procs, Commit(p), proc[p].job = "revoke"
  PROVE  IInv'
<1> DEFINE g == proc[p].grant
<1>1. g \in Grants /\ grants[g] # "none" /\ proc[p].rules = {}
  BY DEF IInv, Fine
<1>2. grants' = [grants EXCEPT ![g] = "gone"] /\ events' = [events EXCEPT ![g] = @ + 1]
  BY DEF Commit, CommitFact
<1>3. /\ grants \in [Grants -> {"none", "live", "gone"}] /\ events \in [Grants -> Nat]
      /\ NoEventBeforeGrant /\ NoOrphans
  BY DEF IInv, Tables
<1> HIDE DEF g
<1>4. /\ grants' \in [Grants -> {"none", "live", "gone"}] /\ events' \in [Grants -> Nat]
      /\ grants'[g] = "gone" /\ events'[g] = events[g] + 1
      /\ \A h \in Grants \ {g} : grants'[h] = grants[h] /\ events'[h] = events[h]
  BY <1>1, <1>2, <1>3
<1>5. NoEventBeforeGrant'
  BY <1>3, <1>4 DEF NoEventBeforeGrant
<1>6. \A h \in Grants : RowsOf(h)' = RowsOf(h) \ proc[p].snap
  BY <1>1, CommitFields
<1>7. NoOrphans'
  <2>1. events'[g] # 0
    BY <1>1, <1>3, <1>4
  <2> QED
    BY <1>3, <1>4, <1>6, <2>1 DEF NoOrphans
<1>8. ASSUME NEW q \in Procs \ {p}, NEW h \in Grants, proc[q].grant = h
      PROVE  Suits(p, q, h)
  <2>1. Fine(q, proc[q])
    BY DEF IInv
  <2>2. CASE h = g
    <3>1. proc[q].job # "grant"
      BY <1>1, <1>8, <2>1, <2>2 DEF Fine
    <3>2. proc[q].job \in {"project", "remove"} => events'[g] >= 2
      BY <1>1, <1>3, <1>4, <1>8, <2>1, <2>2 DEF Fine
    <3> QED
      BY <1>4, <1>6, <2>2, <3>1, <3>2 DEF Suits
  <2>3. CASE h # g
    BY <1>4, <1>6, <1>8, <2>1, <2>3 DEF Fine, Suits
  <2> QED
    BY <2>2, <2>3
<1>9. \A q \in Procs \ {p}, h \in Grants : Suits(p, q, h)
  <2>1. ASSUME NEW q \in Procs \ {p}, NEW h \in Grants, proc[q].grant # h
        PROVE  Suits(p, q, h)
    BY <2>1 DEF Suits
  <2> QED
    BY <1>8, <2>1
<1> QED
  BY <1>4, <1>5, <1>7, <1>9, CommitPreserves

(* A handled event is the dispatcher's, which is the only process that       *)
(* projects; for a grant that is gone another event remains, or the rows     *)
(* its DELETE has found were all there were.                                 *)
LEMMA CommitHandled ==
  ASSUME IInv, OneDispatcher, StartedInv, NEW p \in Procs, Commit(p),
         proc[p].job \in {"project", "remove"}
  PROVE  IInv'
<1> DEFINE g == proc[p].grant
<1>1. /\ g \in Grants /\ grants[g] # "none" /\ events[g] >= 1
      /\ proc[p].job = "project" /\ grants[g] = "gone" => events[g] >= 2
      /\ proc[p].job = "remove" => proc[p].rules = {} /\ RowsOf(g) \subseteq proc[p].snap
  BY DEF IInv, Fine, Commit
<1>2. UNCHANGED grants /\ events' = [events EXCEPT ![g] = @ - 1]
  BY DEF Commit, CommitFact
<1>3. /\ grants \in [Grants -> {"none", "live", "gone"}] /\ events \in [Grants -> Nat]
      /\ NoEventBeforeGrant /\ NoOrphans
  BY DEF IInv, Tables
<1>4. \A h \in Grants : h # g \/ proc[p].rules = {} => RowsOf(h)' = RowsOf(h) \ proc[p].snap
  BY CommitFields
<1> HIDE DEF g
<1>5. events' \in [Grants -> Nat] /\ events'[g] = events[g] - 1
  <2>1. events[g] \in Nat /\ events[g] - 1 \in Nat
    BY <1>1, <1>3
  <2> QED
    BY <1>1, <1>2, <1>3, <2>1
<1>6. \A h \in Grants \ {g} : events'[h] = events[h]
  BY <1>1, <1>2, <1>3
<1>7. NoEventBeforeGrant'
  BY <1>1, <1>2, <1>3, <1>6 DEF NoEventBeforeGrant
<1>8. NoOrphans'
  <2>1. \A h \in Grants \ {g} : grants[h] = "gone" /\ events'[h] = 0 => RowsOf(h)' = {}
    BY <1>3, <1>4, <1>6 DEF NoOrphans
  <2>2. ASSUME NEW h \in Grants, h = g, grants[h] = "gone", events'[h] = 0
        PROVE  RowsOf(h)' = {}
    <3>1. CASE proc[p].job = "project"
      <4>1. events[g] \in Nat
        BY <1>1, <1>3
      <4> QED
        BY <1>1, <1>5, <2>2, <3>1, <4>1
    <3>2. CASE proc[p].job = "remove"
      BY <1>1, <1>4, <2>2, <3>2
    <3> QED
      BY <3>1, <3>2
  <2> QED
    BY <1>2, <2>1, <2>2 DEF NoOrphans
<1>9. ASSUME NEW q \in Procs \ {p}, NEW h \in Grants PROVE Suits(p, q, h)
  <2>1. Fine(q, proc[q]) /\ Fine(p, proc[p])
    BY DEF IInv
  <2>2. p \in Dispatchers /\ proc[p] # Idle
    BY <2>1 DEF Fine, Procs, Idle
  <2>3. CASE q \in Dispatchers
    <3>1. p \in started /\ q \notin started
      BY <2>2, <2>3 DEF StartedInv, OneDispatcher
    <3>2. proc[q] = Idle /\ Idle.job = "none"
      BY <2>3, <3>1 DEF StartedInv, Idle
    <3> QED
      BY <3>2 DEF Suits
  <2>4. CASE q \notin Dispatchers
    <3>1. proc[q].job \in {"none", "grant", "revoke"}
      BY <2>1, <2>4 DEF Fine, Procs
    <3> QED
      BY <1>2, <2>1, <3>1 DEF Fine, Suits
  <2> QED
    BY <2>3, <2>4
<1> QED
  BY <1>2, <1>3, <1>5, <1>7, <1>8, <1>9, CommitPreserves

LEMMA CommitStep ==
  ASSUME IInv, OneDispatcher, StartedInv, NEW p \in Procs, Commit(p)
  PROVE  IInv'
<1>1. Fine(p, proc[p]) /\ proc[p].phase # "idle"
  BY DEF IInv, Commit
<1>2. proc[p].job \in {"grant", "revoke", "project", "remove"}
  BY <1>1 DEF Fine, Procs
<1> QED
  BY <1>2, CommitGrant, CommitRevoke, CommitHandled

-----------------------------------------------------------------------------
LEMMA InitIInv == Init => IInv
<1> SUFFICES ASSUME Init PROVE IInv
  OBVIOUS
<1>1. Tables /\ NoEventBeforeGrant /\ NoOrphans
  BY DEF Init, Tables, NoEventBeforeGrant, NoOrphans
<1>2. \A p \in Procs : proc[p] = Idle
  BY DEF Init
<1>3. \A p \in Procs : Fine(p, proc[p])
  BY <1>2, IdleFine
<1>4. GrantsDistinct
  BY <1>2 DEF GrantsDistinct, Idle
<1> QED
  BY <1>1, <1>3, <1>4 DEF IInv, Init

LEMMA NextIInv ==
  ASSUME IInv, StartedInv, OneDispatcher, OneDispatcher', [Next]_vars
  PROVE  IInv'
<1>1. ASSUME NEW a \in Admins, NEW g \in Grants, GrantRole(a, g) PROVE IInv'
  BY <1>1, GrantRoleStep
<1>2. ASSUME NEW a \in Admins, NEW g \in Grants, RevokeRole(a, g) PROVE IInv'
  BY <1>2, RevokeRoleStep
<1>3. ASSUME NEW permissions \in SUBSET Perms \ {{}}, UpdateTemplate(permissions) PROVE IInv'
  <2>1. /\ template' = permissions
        /\ UNCHANGED <<grants, policies, events, proc>>
    BY <1>3 DEF UpdateTemplate
  <2> QED
    BY <2>1 DEF IInv, Tables, Fine, RowsOf, NoEventBeforeGrant, GrantsDistinct, NoOrphans
<1>4. ASSUME NEW d \in Dispatchers, NEW g \in Grants, HandleEvent(d, g) PROVE IInv'
  BY <1>4, HandleEventStep
<1>5. ASSUME NEW p \in Procs, Work(p) \/ Crash(p) PROVE IInv'
  <2>1. CASE LoadTemplate(p)
    BY <2>1, LoadTemplateStep
  <2>2. CASE RepairPlan(p)
    BY <2>2 DEF RepairPlan, IInv, Fine, Procs
  <2>3. CASE DeleteBegin(p)
    BY <2>3, DeleteBeginStep
  <2>4. CASE DeleteEnd(p)
    BY <2>4, GoesStep DEF DeleteEnd
  <2>5. CASE Flush(p)
    BY <2>5, GoesStep DEF Flush
  <2>6. CASE FlushFails(p)
    BY <2>6, RolledBackStep DEF FlushFails
  <2>7. CASE Commit(p)
    BY <2>7, CommitStep
  <2>8. CASE Crash(p)
    BY <2>8, RolledBackStep DEF Crash
  <2> QED
    BY <1>5, <2>1, <2>2, <2>3, <2>4, <2>5, <2>6, <2>7, <2>8 DEF Work
<1>6. CASE UNCHANGED vars
  BY <1>6 DEF vars, IInv, Tables, Fine, RowsOf, NoEventBeforeGrant, GrantsDistinct, NoOrphans
<1>7. ~ \E o \in Operators : RepairBegin(o)
  BY DEF RepairBegin, OneDispatcher, NoRepair
<1> QED
  BY <1>1, <1>2, <1>3, <1>4, <1>5, <1>6, <1>7 DEF Next

(* As long as one dispatcher has handled the events and nobody reconciled, a *)
(* deleted grant whose events are handled has no projected row, whatever     *)
(* requests, crashes and failed flushes come between (revoke_role,           *)
(* handle_role_grant_changed, remove_grant_projection).                      *)
THEOREM OneDispatcherLeavesNoOrphans == Spec => [](OneDispatcher => NoOrphans)
<1> DEFINE Inv == StartedInv /\ (OneDispatcher => IInv)
<1>1. Init => Inv
  BY InitIInv, StartedAlways
<1>2. Inv /\ [Next]_vars => Inv'
  <2>1. OneDispatcher' /\ [Next]_vars => OneDispatcher
    BY StartedGrows DEF OneDispatcher, NoRepair
  <2> QED
    BY <2>1, StartedAlways, NextIInv
<1>3. Inv => (OneDispatcher => NoOrphans)
  BY DEF IInv
<1> QED
  BY <1>1, <1>2, <1>3, PTL DEF Spec

-----------------------------------------------------------------------------
(* Repairs                                                                  *)

\* The policies of the facts.
Expected == Live \X template

\* A reconciler that nothing has disturbed has read the facts as they are, and plans
\* the difference.
RepairFine(s) ==
  /\ s.phase \in {"loaded", "planned", "deleting", "inserting", "ready", "done"}
  /\ s.phase # "done" => s.job = "repair"
  /\ s.phase \in {"loaded", "planned"} => s.known = Live
  /\ s.phase = "planned" => s.rules = Expected
  /\ s.phase \in {"deleting", "inserting", "ready"} =>
       s.rules = Expected \ policies /\ s.snap = policies \ Expected

RepairInv ==
  /\ DOMAIN proc = Procs /\ proc = [p \in Procs |-> proc[p]]
  /\ \A p \in Procs : IsProc(proc[p])
  /\ crashes \in Nat
  /\ undisturbed \subseteq Operators
  /\ \A o \in undisturbed : RepairFine(proc[o])

\* What the step of a reconciler that ends must have done.
RepairStep ==
  \A o \in undisturbed :
    proc[o].phase # "done" /\ proc'[o].phase = "done" /\ crashes' = crashes
      => policies' = Expected

(* A step of one process that commits nothing.                               *)
LEMMA RepairMoves ==
  ASSUME RepairInv, NEW p \in Procs, NEW s, proc' = [proc EXCEPT ![p] = s], IsProc(s),
         UNCHANGED Database, crashes' \in Nat,
         undisturbed' \subseteq undisturbed \cup {p}, undisturbed' \subseteq Operators,
         p \in undisturbed' => RepairFine(s),
         p \in undisturbed /\ proc[p].phase # "done" /\ s.phase = "done" /\ crashes' = crashes
           => policies = Expected
  PROVE  RepairInv' /\ RepairStep
<1>1. proc'[p] = s /\ \A q \in Procs \ {p} : proc'[q] = proc[q]
  BY DEF RepairInv
<1>2. DOMAIN proc' = Procs /\ proc' = [q \in Procs |-> proc'[q]] /\ \A q \in Procs : IsProc(proc'[q])
  BY <1>1 DEF RepairInv
<1>3. \A q : RepairFine(q) => RepairFine(q)'
  BY DEF RepairFine, Expected, Live, Database
<1>4. ASSUME NEW o \in undisturbed' PROVE RepairFine(proc[o])'
  <2>1. CASE o = p
    <3>1. RepairFine(s)'
      BY <1>3, <2>1, <1>4
    <3> QED
      BY <1>1, <2>1, <3>1 DEF RepairFine
  <2>2. CASE o # p
    <3>1. o \in undisturbed /\ o \in Procs
      BY <1>4, <2>2 DEF RepairInv, Procs
    <3>2. proc'[o] = proc[o] /\ RepairFine(proc[o])
      BY <1>1, <2>2, <3>1 DEF RepairInv
    <3> QED
      BY <3>2 DEF RepairFine, Expected, Live, Database
  <2> QED
    BY <2>1, <2>2
<1>5. RepairStep
  <2> SUFFICES ASSUME NEW o \in undisturbed, proc[o].phase # "done", proc'[o].phase = "done",
                      crashes' = crashes
               PROVE  policies' = Expected
    BY DEF RepairStep
  <2>1. o = p
    BY <1>1 DEF RepairInv, Procs
  <2> QED
    BY <1>1, <2>1 DEF Database
<1> QED
  BY <1>2, <1>4, <1>5 DEF RepairInv

(* A step that leaves the reconcilers alone and commits nothing.              *)
LEMMA RepairOthers ==
  ASSUME RepairInv, NEW p \in Procs, p \notin Operators, NEW s,
         proc' = [proc EXCEPT ![p] = s], IsProc(s),
         UNCHANGED <<Database, crashes>>, undisturbed' \subseteq undisturbed
  PROVE  RepairInv' /\ RepairStep
<1>1. p \notin undisturbed' /\ crashes' \in Nat /\ undisturbed' \subseteq Operators /\ p \notin undisturbed
  BY DEF RepairInv
<1> QED
  BY <1>1, RepairMoves

LEMMA RepairNext ==
  ASSUME RepairInv, Next PROVE RepairInv' /\ RepairStep
<1>0. \A p \in Procs : IsProc(proc[p]) /\ IsProc(RolledBack(p))
  BY DEF RepairInv, RolledBack, Idle, IsProc
<1>1. ASSUME NEW p \in Procs, p \notin Operators, NEW phase, NEW job, NEW g, NEW rules,
             Begins(p, phase, job, g, rules)
      PROVE  RepairInv' /\ RepairStep
  <2> DEFINE s == [phase |-> phase, job |-> job, grant |-> g, known |-> {}, rules |-> rules, snap |-> {}]
  <2>1. IsProc(s)
    BY DEF IsProc
  <2>2. proc' = [proc EXCEPT ![p] = s] /\ UNCHANGED <<Database, crashes, undisturbed>>
    BY <1>1 DEF Begins
  <2> HIDE DEF s
  <2> QED
    BY <1>1, <2>1, <2>2, RepairOthers
<1>2. ASSUME NEW a \in Admins, NEW g \in Grants, GrantRole(a, g) \/ RevokeRole(a, g)
      PROVE  RepairInv' /\ RepairStep
  BY <1>1, <1>2, PermissionsAssumption DEF GrantRole, RevokeRole, Procs
<1>3. ASSUME NEW d \in Dispatchers, NEW g \in Grants, HandleEvent(d, g)
      PROVE  RepairInv' /\ RepairStep
  BY <1>1, <1>3, PermissionsAssumption DEF HandleEvent, Procs
<1>4. ASSUME NEW permissions, UpdateTemplate(permissions) PROVE RepairInv' /\ RepairStep
  BY <1>4 DEF UpdateTemplate, RepairInv, RepairStep
<1>5. ASSUME NEW o \in Operators, RepairBegin(o) PROVE RepairInv' /\ RepairStep
  <2> DEFINE s == [proc[o] EXCEPT !.phase = "loaded", !.job = "repair", !.known = Live]
  <2>0. o \in Procs
    BY DEF Procs
  <2>1. IsProc(s) /\ s.phase = "loaded" /\ s.job = "repair" /\ s.known = Live
    BY <1>0, <2>0 DEF IsProc
  <2>2. /\ proc' = [proc EXCEPT ![o] = s] /\ UNCHANGED <<Database, crashes>>
        /\ undisturbed' = undisturbed \cup {o}
    BY <1>5 DEF RepairBegin
  <2> HIDE DEF s
  <2>3. RepairFine(s) /\ s.phase # "done"
    BY <2>1 DEF RepairFine
  <2>4. crashes' \in Nat /\ undisturbed' \subseteq Operators
    BY <2>2 DEF RepairInv
  <2> QED
    BY <2>0, <2>1, <2>2, <2>3, <2>4, RepairMoves
<1>6. ASSUME NEW p \in Procs, NEW phase \in {"inserting", "ready"}, Goes(p, phase),
             proc[p].phase \in {"deleting", "inserting"}
      PROVE  RepairInv' /\ RepairStep
  <2> DEFINE s == [proc[p] EXCEPT !.phase = phase]
  <2>1. IsProc(s) /\ s.phase = phase /\ s.job = proc[p].job /\ s.rules = proc[p].rules /\ s.snap = proc[p].snap
    BY <1>0 DEF IsProc
  <2>2. proc' = [proc EXCEPT ![p] = s] /\ UNCHANGED <<Database, crashes, undisturbed>>
    BY <1>6 DEF Goes
  <2> HIDE DEF s
  <2>3. p \in undisturbed => RepairFine(s)
    BY <1>6, <2>1 DEF RepairInv, RepairFine
  <2>4. crashes' \in Nat /\ undisturbed' \subseteq Operators /\ s.phase # "done"
    BY <2>1, <2>2 DEF RepairInv
  <2> QED
    BY <2>1, <2>2, <2>3, <2>4, RepairMoves
<1>7. ASSUME NEW p \in Procs, LoadTemplate(p) PROVE RepairInv' /\ RepairStep
  <2>1. PICK gs : /\ proc' = [proc EXCEPT ![p] = [proc[p] EXCEPT !.phase = "planned", !.rules = gs \X template]]
                  /\ proc[p].job = "repair" => gs = proc[p].known
    BY <1>7 DEF LoadTemplate
  <2> DEFINE s == [proc[p] EXCEPT !.phase = "planned", !.rules = gs \X template]
  <2>2. /\ IsProc(s) /\ s.phase = "planned" /\ s.job = proc[p].job /\ s.rules = gs \X template
        /\ s.known = proc[p].known
    BY <1>0 DEF IsProc
  <2>3. proc' = [proc EXCEPT ![p] = s] /\ UNCHANGED <<Database, crashes, undisturbed>> /\ proc[p].phase = "loaded"
    BY <1>7, <2>1 DEF LoadTemplate
  <2> HIDE DEF s
  <2>4. p \in undisturbed => RepairFine(s)
    BY <2>1, <2>2, <2>3 DEF RepairInv, RepairFine, Expected
  <2>5. crashes' \in Nat /\ undisturbed' \subseteq Operators /\ s.phase # "done"
    BY <2>2, <2>3 DEF RepairInv
  <2> QED
    BY <2>2, <2>3, <2>4, <2>5, RepairMoves
<1>8. ASSUME NEW p \in Procs, RepairPlan(p) PROVE RepairInv' /\ RepairStep
  <2>1. PICK phase \in {"done", "deleting"} :
          /\ proc' = [proc EXCEPT ![p] = [proc[p] EXCEPT !.snap = Stale(proc[p].rules),
                                            !.rules = Missing(proc[p].rules), !.phase = phase]]
          /\ phase = "done" => Stale(proc[p].rules) = {} /\ Missing(proc[p].rules) = {}
    BY <1>8 DEF RepairPlan
  <2> DEFINE s == [proc[p] EXCEPT !.snap = Stale(proc[p].rules),
                                  !.rules = Missing(proc[p].rules), !.phase = phase]
  <2>2. /\ IsProc(s) /\ s.phase = phase /\ s.job = proc[p].job
        /\ s.snap = policies \ proc[p].rules /\ s.rules = proc[p].rules \ policies
    BY <1>0 DEF IsProc, Stale, Missing
  <2>3. /\ proc' = [proc EXCEPT ![p] = s] /\ UNCHANGED <<Database, crashes, undisturbed>>
        /\ proc[p].phase = "planned" /\ proc[p].job = "repair"
    BY <1>8, <2>1 DEF RepairPlan
  <2> HIDE DEF s
  <2>4. p \in undisturbed => proc[p].rules = Expected
    BY <2>3 DEF RepairInv, RepairFine
  <2>5. p \in undisturbed => RepairFine(s)
    BY <2>2, <2>3, <2>4 DEF RepairFine
  <2>6. p \in undisturbed /\ s.phase = "done" => policies = Expected
    BY <2>1, <2>2, <2>4 DEF Stale, Missing
  <2>7. crashes' \in Nat /\ undisturbed' \subseteq Operators
    BY <2>3 DEF RepairInv
  <2> QED
    BY <2>2, <2>3, <2>5, <2>6, <2>7, RepairMoves
<1>9. ASSUME NEW p \in Procs, DeleteBegin(p) PROVE RepairInv' /\ RepairStep
  <2> DEFINE s == [proc[p] EXCEPT !.phase = "deleting", !.snap = RowsOf(proc[p].grant)]
  <2>1. IsProc(s) /\ s.phase = "deleting"
    BY <1>0 DEF IsProc
  <2>2. /\ proc' = [proc EXCEPT ![p] = s] /\ UNCHANGED <<Database, crashes, undisturbed>>
        /\ proc[p].phase = "planned" /\ proc[p].job # "repair"
    BY <1>9 DEF DeleteBegin
  <2> HIDE DEF s
  <2>3. p \notin undisturbed /\ crashes' \in Nat /\ undisturbed' \subseteq Operators
    BY <2>2 DEF RepairInv, RepairFine
  <2> QED
    BY <2>1, <2>2, <2>3, RepairMoves
<1>10. ASSUME NEW p \in Procs, FlushFails(p) PROVE RepairInv' /\ RepairStep
  <2>1. /\ proc' = [proc EXCEPT ![p] = RolledBack(p)] /\ UNCHANGED <<Database, crashes>>
        /\ undisturbed' = undisturbed \ {p} /\ proc[p].phase = "inserting" /\ Duplicate(p)
    BY <1>10 DEF FlushFails
  <2>2. p \notin undisturbed
    BY <2>1 DEF RepairInv, RepairFine, Duplicate
  <2>3. crashes' \in Nat /\ undisturbed' \subseteq Operators
    BY <2>1 DEF RepairInv
  <2> QED
    BY <1>0, <2>1, <2>2, <2>3, RepairMoves
<1>11. ASSUME NEW p \in Procs, Crash(p) PROVE RepairInv' /\ RepairStep
  <2>1. /\ proc' = [proc EXCEPT ![p] = RolledBack(p)] /\ UNCHANGED Database
        /\ undisturbed' = undisturbed \ {p} /\ crashes' = crashes + 1 /\ crashes \in Nat
    BY <1>11 DEF Crash, RepairInv
  <2>3. crashes' \in Nat /\ undisturbed' \subseteq Operators /\ crashes' # crashes
    BY <2>1 DEF RepairInv
  <2> QED
    BY <1>0, <2>1, <2>3, RepairMoves
<1>12. ASSUME NEW p \in Procs, Commit(p) PROVE RepairInv' /\ RepairStep
  <2>1. /\ proc[p].phase = "ready" /\ policies' = (policies \ proc[p].snap) \cup proc[p].rules
        /\ proc' = [q \in Procs |-> IF q = p THEN RolledBack(p)
                                    ELSE [proc[q] EXCEPT !.snap = @ \ proc[p].snap]]
        /\ undisturbed' = undisturbed \cap {p} /\ UNCHANGED <<template, crashes>>
    BY <1>12 DEF Commit
  <2>2. ASSUME NEW q \in Procs \ {p}
        PROVE  IsProc(proc'[q]) /\ proc'[q].phase = proc[q].phase
    <3>1. proc'[q] = [proc[q] EXCEPT !.snap = @ \ proc[p].snap] /\ IsProc(proc[q])
      BY <1>0, <2>1
    <3> QED
      BY <3>1 DEF IsProc
  <2>3. proc'[p] = RolledBack(p)
    BY <2>1
  <2>4. p \in undisturbed => RolledBack(p).phase = "done" /\ policies' = Expected
    BY <2>1 DEF RepairInv, RepairFine, RolledBack, Idle
  <2>5. p \in undisturbed => RepairFine(proc[p])'
    BY <2>3, <2>4 DEF RepairFine
  <2>6. RepairInv'
    BY <1>0, <2>1, <2>2, <2>3, <2>5 DEF RepairInv
  <2>7. RepairStep
    BY <2>2, <2>4 DEF RepairStep, RepairInv, Procs
  <2> QED
    BY <2>6, <2>7
<1>13. ASSUME NEW p \in Procs, Work(p) PROVE RepairInv' /\ RepairStep
  <2>1. CASE DeleteEnd(p) \/ Flush(p)
    BY <1>6, <2>1 DEF DeleteEnd, Flush
  <2> QED
    BY <1>7, <1>8, <1>9, <1>10, <1>12, <1>13, <2>1 DEF Work
<1> QED
  BY <1>2, <1>3, <1>4, <1>5, <1>11, <1>13 DEF Next

(* A repair that nothing disturbed leaves exactly the policies of the facts,  *)
(* for any grants, permissions and processes (PermissionReconciler).          *)
THEOREM RepairsAreExact == Spec => RepairExact
<1>1. Init => RepairInv
  <2> SUFFICES ASSUME Init PROVE RepairInv
    OBVIOUS
  <2>1. IsProc(Idle)
    BY DEF Idle, IsProc
  <2>2. proc = [p \in Procs |-> Idle] /\ undisturbed = {} /\ crashes = 0
    BY DEF Init
  <2> QED
    BY <2>1, <2>2 DEF RepairInv
<1>2. RepairInv /\ [Next]_vars => RepairInv' /\ [RepairStep]_vars
  <2>1. RepairInv /\ UNCHANGED vars => RepairInv'
    BY DEF vars, RepairInv, RepairFine, Expected, Live
  <2> QED
    BY <2>1, RepairNext
<1>3. [][RepairStep]_vars => RepairExact
  BY PTL DEF RepairExact, RepairStep, Expected
<1> QED
  BY <1>1, <1>2, <1>3, PTL DEF Spec

-----------------------------------------------------------------------------
(* Exact projections of what lives                                          *)

\* Nobody has reconciled and the template is as it was.
TemplateStays == NoRepair /\ updates = 0

\* What p, in state s, is about to do.
Tidy(p, s) ==
  /\ IsProc(s)
  /\ p \in Dispatchers => s.job \in {"none", "project", "remove"}
  /\ p \in Admins => s.job \in {"none", "grant", "revoke"}
  /\ p \in Operators => s.job = "none"
  /\ s.job = "none" => s = Idle
  /\ s.job # "none" => /\ s.grant \in Grants
                       /\ s.rules \subseteq {s.grant} \X template
                       /\ s.snap \subseteq {s.grant} \X template
  /\ s.job = "grant" => grants[s.grant] = "none"
  /\ s.job = "revoke" => grants[s.grant] # "none" /\ s.rules = {}
  /\ s.job = "remove" => grants[s.grant] = "gone" /\ s.rules = {}
  /\ s.job = "project" => /\ grants[s.grant] # "none"
                          /\ s.phase # "loaded" => s.rules = {s.grant} \X template
  /\ s.phase = "loaded" => s.job = "project"

\* A grant that lives has at most its first event, in the hands of one dispatcher.
OneEvent ==
  \A g \in Grants :
    /\ grants[g] = "none" => events[g] = 0
    /\ grants[g] = "live" => events[g] \in {0, 1}
    /\ \A d \in Dispatchers : grants[g] = "live" /\ proc[d].grant = g =>
         events[g] = 1 /\ \A e \in Dispatchers : proc[e].grant = g => e = d

TidyTables ==
  /\ grants \in [Grants -> {"none", "live", "gone"}]
  /\ events \in [Grants -> Int]
  /\ policies \subseteq Grants \X template

ProjectedInv ==
  /\ TidyTables /\ updates \in Nat
  /\ DOMAIN proc = Procs /\ proc = [p \in Procs |-> proc[p]]
  /\ \A p \in Procs : Tidy(p, proc[p])
  /\ OneEvent /\ GrantsDistinct /\ Projected

LEMMA UpdatesGrow ==
  ASSUME updates \in Nat, [Next]_vars PROVE updates' \in Nat /\ updates' >= updates
<1>1. ASSUME NEW p \in Procs, Work(p) \/ Crash(p) PROVE updates' = updates
  BY <1>1 DEF Work, Crash, LoadTemplate, RepairPlan, DeleteBegin, DeleteEnd, Flush, FlushFails,
              Commit, Goes
<1>2. ASSUME NEW p, NEW phase, NEW job, NEW g, NEW rules, Begins(p, phase, job, g, rules)
      PROVE  updates' = updates
  BY <1>2 DEF Begins
<1>3. ASSUME NEW a \in Admins, NEW g \in Grants, GrantRole(a, g) \/ RevokeRole(a, g)
      PROVE  updates' = updates
  BY <1>2, <1>3 DEF GrantRole, RevokeRole
<1>4. ASSUME NEW d \in Dispatchers, NEW g \in Grants, HandleEvent(d, g) PROVE updates' = updates
  BY <1>2, <1>4 DEF HandleEvent
<1>5. \/ updates' = updates
      \/ \E permissions : UpdateTemplate(permissions)
  BY <1>1, <1>3, <1>4 DEF Next, vars, RepairBegin
<1> QED
  BY <1>5 DEF UpdateTemplate

LEMMA IdleTidy == \A p : Tidy(p, Idle)
BY DEF Tidy, Idle, IsProc

(* A step of one process that commits nothing.                               *)
LEMMA TidyMoves ==
  ASSUME ProjectedInv, NEW p \in Procs, NEW s, proc' = [proc EXCEPT ![p] = s],
         UNCHANGED <<Database, updates>>, Tidy(p, s),
         s.job = "grant" => \A q \in Procs \ {p} : proc[q].job = "grant" => proc[q].grant # s.grant,
         p \in Dispatchers /\ s.grant # proc[p].grant /\ s.grant \in Grants /\ grants[s.grant] = "live" =>
           events[s.grant] = 1 /\ \A e \in Dispatchers : proc[e].grant # s.grant
  PROVE  ProjectedInv'
<1>1. proc'[p] = s /\ \A q \in Procs \ {p} : proc'[q] = proc[q]
  BY DEF ProjectedInv
<1>2. ASSUME NEW q \in Procs PROVE Tidy(q, proc[q])'
  <2>1. CASE q = p
    BY <1>1, <2>1 DEF Tidy, Database
  <2>2. CASE q # p
    <3>1. proc'[q] = proc[q] /\ Tidy(q, proc[q])
      BY <1>1, <2>2 DEF ProjectedInv
    <3> QED
      BY <3>1 DEF Tidy, Database
  <2> QED
    BY <2>1, <2>2
<1>3. OneEvent'
  <2> SUFFICES ASSUME NEW g \in Grants
               PROVE  /\ grants[g] = "none" => events[g] = 0
                      /\ grants[g] = "live" => events[g] \in {0, 1}
                      /\ \A d \in Dispatchers : grants[g] = "live" /\ proc'[d].grant = g =>
                           events[g] = 1 /\ \A e \in Dispatchers : proc'[e].grant = g => e = d
    BY DEF OneEvent, Database
  <2>1. /\ grants[g] = "none" => events[g] = 0
        /\ grants[g] = "live" => events[g] \in {0, 1}
        /\ \A d \in Dispatchers : grants[g] = "live" /\ proc[d].grant = g =>
             events[g] = 1 /\ \A e \in Dispatchers : proc[e].grant = g => e = d
    BY DEF ProjectedInv, OneEvent
  <2>2. ASSUME NEW d \in Dispatchers, grants[g] = "live", proc'[d].grant = g
        PROVE  events[g] = 1 /\ \A e \in Dispatchers : proc'[e].grant = g => e = d
    <3>1. Dispatchers \subseteq Procs
      BY DEF Procs
    <3>2. CASE p \in Dispatchers /\ s.grant = g /\ proc[p].grant # g
      BY <1>1, <2>2, <3>1, <3>2
    <3>3. CASE ~(p \in Dispatchers /\ s.grant = g /\ proc[p].grant # g)
      <4>1. \A e \in Dispatchers : proc'[e].grant = g => proc[e].grant = g
        BY <1>1, <3>1, <3>3
      <4> QED
        BY <2>1, <2>2, <4>1
    <3> QED
      BY <3>2, <3>3
  <2> QED
    BY <2>1, <2>2
<1>4. GrantsDistinct'
  BY <1>1 DEF ProjectedInv, GrantsDistinct
<1>5. TidyTables' /\ Projected' /\ updates' \in Nat
  BY DEF ProjectedInv, TidyTables, Projected, RowsOf, RulesFor, Database
<1>6. DOMAIN proc' = Procs /\ proc' = [q \in Procs |-> proc'[q]]
  BY DEF ProjectedInv
<1> QED
  BY <1>2, <1>3, <1>4, <1>5, <1>6 DEF ProjectedInv

(* What Begins makes of a process.                                           *)
LEMMA TidyBegins ==
  ASSUME ProjectedInv, NEW p \in Procs, NEW phase, NEW job \in {"grant", "revoke", "project", "remove"},
         NEW g \in Grants, NEW rules, Begins(p, phase, job, g, rules),
         p \in Dispatchers => job \in {"project", "remove"},
         p \in Admins => job \in {"grant", "revoke"}, p \notin Operators,
         rules \subseteq {g} \X template,
         job = "grant" => /\ grants[g] = "none"
                          /\ \A q \in Procs : proc[q].job = "grant" => proc[q].grant # g,
         job = "revoke" => grants[g] # "none" /\ rules = {},
         job = "remove" => grants[g] = "gone" /\ rules = {},
         job = "project" => grants[g] # "none" /\ phase = "loaded",
         phase = "loaded" => job = "project",
         p \in Dispatchers /\ grants[g] = "live" =>
           events[g] = 1 /\ \A e \in Dispatchers : proc[e].grant # g
  PROVE  ProjectedInv'
<1> DEFINE s == [phase |-> phase, job |-> job, grant |-> g, known |-> {}, rules |-> rules, snap |-> {}]
<1>1. IsProc(s) /\ s.phase = phase /\ s.job = job /\ s.grant = g /\ s.rules = rules /\ s.snap = {}
  BY DEF IsProc
<1>2. proc' = [proc EXCEPT ![p] = s] /\ UNCHANGED <<Database, updates>>
  BY DEF Begins
<1> HIDE DEF s
<1>3. Tidy(p, s)
  BY <1>1 DEF Tidy
<1> QED
  BY <1>1, <1>2, <1>3, TidyMoves

(* A step that keeps a process's job.                                        *)
LEMMA TidyKeeps ==
  ASSUME ProjectedInv, NEW p \in Procs, NEW s, proc' = [proc EXCEPT ![p] = s],
         UNCHANGED <<Database, updates>>, Tidy(p, s), s.job = proc[p].job, s.grant = proc[p].grant
  PROVE  ProjectedInv'
<1>1. s.job = "grant" => \A q \in Procs \ {p} : proc[q].job = "grant" => proc[q].grant # s.grant
  BY DEF ProjectedInv, GrantsDistinct
<1> QED
  BY <1>1, TidyMoves

(* What a commit leaves of the other processes and of the tables.            *)
LEMMA TidyCommit ==
  ASSUME ProjectedInv, NEW p \in Procs, Commit(p)
  PROVE  ProjectedInv'
<1>1. /\ Tidy(p, proc[p]) /\ proc[p].phase = "ready" /\ TidyTables
      /\ policies' = (policies \ proc[p].snap) \cup proc[p].rules
      /\ proc' = [q \in Procs |-> IF q = p THEN RolledBack(p)
                                  ELSE [proc[q] EXCEPT !.snap = @ \ proc[p].snap]]
      /\ UNCHANGED <<template, updates>>
  BY DEF Commit, ProjectedInv
<1>2. proc[p].job \in {"grant", "revoke", "project", "remove"}
  BY <1>1 DEF Tidy, Procs, Idle
<1>g. PICK g \in Grants : g = proc[p].grant
  BY <1>1, <1>2 DEF Tidy
<1>3. proc'[p] = Idle
  BY <1>1, <1>2 DEF RolledBack, Tidy
<1>4. ASSUME NEW q \in Procs \ {p}
      PROVE  /\ IsProc(proc'[q]) /\ proc'[q].phase = proc[q].phase /\ proc'[q].job = proc[q].job
             /\ proc'[q].grant = proc[q].grant /\ proc'[q].rules = proc[q].rules
             /\ proc'[q].snap = proc[q].snap \ proc[p].snap
             /\ proc[q].snap = {} => proc'[q] = proc[q]
  <2>1. proc'[q] = [proc[q] EXCEPT !.snap = @ \ proc[p].snap] /\ IsProc(proc[q])
    BY <1>1 DEF ProjectedInv, Tidy
  <2> QED
    BY <2>1 DEF IsProc
<1>5. /\ policies' \subseteq Grants \X template
      /\ \A h \in Grants \ {g} : RowsOf(h)' = RowsOf(h)
  <2>1. proc[p].snap \subseteq {g} \X template /\ proc[p].rules \subseteq {g} \X template
    BY <1>1, <1>2, <1>g DEF Tidy
  <2> QED
    BY <1>1, <1>g, <2>1 DEF RowsOf, TidyTables
<1>6. /\ grants' \in [Grants -> {"none", "live", "gone"}] /\ events' \in [Grants -> Int]
      /\ \A h \in Grants \ {g} : grants'[h] = grants[h] /\ events'[h] = events[h]
      /\ proc[p].job = "grant" => grants[g] = "none" /\ grants'[g] = "live" /\ events'[g] = events[g] + 1
      /\ proc[p].job = "revoke" => grants[g] # "none" /\ grants'[g] = "gone"
      /\ proc[p].job = "project" => grants[g] # "none" /\ grants'[g] = grants[g] /\ events'[g] = events[g] - 1
      /\ proc[p].job = "remove" => grants[g] = "gone" /\ grants'[g] = "gone"
  <2>1. CASE proc[p].job = "grant"
    BY <1>1, <1>g, <2>1 DEF Commit, CommitFact, TidyTables, Tidy
  <2>2. CASE proc[p].job = "revoke"
    BY <1>1, <1>g, <2>2 DEF Commit, CommitFact, TidyTables, Tidy
  <2>3. CASE proc[p].job \in {"project", "remove"}
    BY <1>1, <1>g, <2>3 DEF Commit, CommitFact, TidyTables, Tidy
  <2> QED
    BY <1>2, <2>1, <2>2, <2>3
<1>7. ASSUME NEW q \in Procs PROVE Tidy(q, proc[q])'
  <2>1. CASE q = p
    <3>1. Tidy(p, Idle)'
      BY DEF Tidy, Idle, IsProc
    <3> QED
      BY <1>3, <2>1, <3>1 DEF Tidy
  <2>2. CASE q # p
    <3>1. /\ IsProc(proc'[q]) /\ proc'[q].phase = proc[q].phase /\ proc'[q].job = proc[q].job
          /\ proc'[q].grant = proc[q].grant /\ proc'[q].rules = proc[q].rules
          /\ proc'[q].snap \subseteq proc[q].snap
          /\ proc[q].snap = {} => proc'[q] = proc[q]
      BY <1>4, <2>2
    <3>2. Tidy(q, proc[q]) /\ Idle.snap = {} /\ Idle.job = "none"
      BY DEF ProjectedInv, Idle
    <3>3. CASE proc[q].job = "none"
      <4>1. proc'[q] = Idle
        BY <3>1, <3>2, <3>3 DEF Tidy
      <4>2. Tidy(q, Idle)'
        BY DEF Tidy, Idle, IsProc
      <4> QED
        BY <4>1, <4>2 DEF Tidy
    <3>4. CASE proc[q].job # "none"
      <4>h. PICK h \in Grants : h = proc[q].grant
        BY <3>2, <3>4 DEF Tidy
      <4>1. /\ proc[q].job = "grant" => grants'[h] = "none"
            /\ proc[q].job = "revoke" => grants'[h] # "none"
            /\ proc[q].job = "remove" => grants'[h] = "gone"
            /\ proc[q].job = "project" => grants'[h] # "none"
        <5>1. proc[q].job = "grant" /\ proc[p].job = "grant" => h # g
          BY <1>g, <2>2, <4>h DEF ProjectedInv, GrantsDistinct
        <5> QED
          BY <1>2, <1>6, <3>2, <4>h, <5>1 DEF Tidy
      <4> QED
        BY <1>1, <3>1, <3>2, <3>4, <4>h, <4>1 DEF Tidy
    <3> QED
      BY <3>3, <3>4
  <2> QED
    BY <2>1, <2>2
<1>8. OneEvent'
  <2> SUFFICES ASSUME NEW h \in Grants
               PROVE  /\ grants'[h] = "none" => events'[h] = 0
                      /\ grants'[h] = "live" => events'[h] \in {0, 1}
                      /\ \A d \in Dispatchers : grants'[h] = "live" /\ proc'[d].grant = h =>
                           events'[h] = 1 /\ \A e \in Dispatchers : proc'[e].grant = h => e = d
    BY DEF OneEvent
  <2>0. /\ grants[h] = "none" => events[h] = 0
        /\ grants[h] = "live" => events[h] \in {0, 1}
        /\ \A d \in Dispatchers : grants[h] = "live" /\ proc[d].grant = h =>
             events[h] = 1 /\ \A e \in Dispatchers : proc[e].grant = h => e = d
    BY DEF ProjectedInv, OneEvent
  <2>1. \A d \in Dispatchers : proc'[d].grant = h => proc[d].grant = h /\ d # p
    <3>1. Dispatchers \subseteq Procs /\ Idle.grant \notin Grants
      BY PermissionsAssumption DEF Procs, Idle
    <3> QED
      BY <1>3, <1>4, <3>1
  <2>2. CASE h # g
    BY <1>6, <2>0, <2>1, <2>2
  <2>3. CASE h = g
    <3>1. CASE proc[p].job = "grant"
      <4>1. \A d \in Dispatchers : proc[d].grant # g
        <5> SUFFICES ASSUME NEW d \in Dispatchers, proc[d].grant = g PROVE FALSE
          OBVIOUS
        <5>1. Tidy(d, proc[d]) /\ Idle.grant \notin Grants
          BY PermissionsAssumption DEF ProjectedInv, Procs, Idle
        <5>2. proc[d].job \in {"project", "remove"}
          BY <5>1 DEF Tidy
        <5> QED
          BY <1>6, <3>1, <5>1, <5>2 DEF Tidy
      <4> QED
        BY <1>6, <2>0, <2>1, <2>3, <3>1, <4>1
    <3>2. CASE proc[p].job = "project"
      <4>1. p \in Dispatchers
        BY <1>1, <3>2 DEF Tidy, Procs
      <4> QED
        BY <1>g, <1>6, <2>0, <2>1, <2>3, <3>2, <4>1
    <3>3. CASE proc[p].job \in {"revoke", "remove"}
      BY <1>6, <2>3, <3>3
    <3> QED
      BY <1>2, <3>1, <3>2, <3>3
  <2> QED
    BY <2>2, <2>3
<1>9. GrantsDistinct'
  <2>1. Idle.job # "grant"
    BY DEF Idle
  <2> QED
    BY <1>3, <1>4, <2>1 DEF ProjectedInv, GrantsDistinct
<1>10. Projected'
  <2> SUFFICES ASSUME NEW h \in Grants, grants'[h] = "live", events'[h] = 0
               PROVE  RowsOf(h)' = {h} \X template
    BY <1>1 DEF Projected, RulesFor
  <2>1. CASE h # g
    BY <1>5, <1>6, <2>1 DEF ProjectedInv, Projected, RulesFor
  <2>2. CASE h = g
    <3>1. proc[p].job = "project"
      <4>1. proc[p].job = "grant" => events'[g] = 1
        BY <1>6 DEF ProjectedInv, OneEvent
      <4> QED
        BY <1>2, <1>6, <2>2, <4>1
    <3>2. proc[p].rules = {g} \X template
      BY <1>1, <1>g, <3>1 DEF Tidy
    <3> QED
      BY <1>1, <1>5, <2>2, <3>2 DEF RowsOf
  <2> QED
    BY <2>1, <2>2
<1>11. DOMAIN proc' = Procs /\ proc' = [q \in Procs |-> proc'[q]]
  BY <1>1
<1> QED
  BY <1>1, <1>5, <1>6, <1>7, <1>8, <1>9, <1>10, <1>11 DEF ProjectedInv, TidyTables

LEMMA TidyNext ==
  ASSUME ProjectedInv, StartedInv, TemplateStays', Next PROVE ProjectedInv'
<1>0. \A p \in Procs : Tidy(p, proc[p]) /\ IsProc(proc[p])
  BY DEF ProjectedInv, Tidy
<1>1. ASSUME NEW a \in Admins, NEW g \in Grants, GrantRole(a, g) PROVE ProjectedInv'
  <2> DEFINE rules == IF g \in Invited THEN {} ELSE RulesFor(g)
  <2>1. Begins(a, "inserting", "grant", g, rules) /\ rules \subseteq {g} \X template
    BY <1>1 DEF GrantRole, RulesFor
  <2>2. grants[g] = "none" /\ \A q \in Procs : proc[q].job = "grant" => proc[q].grant # g
    BY <1>1 DEF GrantRole
  <2>3. a \in Procs /\ a \notin Dispatchers \cup Operators
    BY PermissionsAssumption DEF Procs
  <2> HIDE DEF rules
  <2> QED
    BY <2>1, <2>2, <2>3, TidyBegins
<1>2. ASSUME NEW a \in Admins, NEW g \in Grants, RevokeRole(a, g) PROVE ProjectedInv'
  <2>1. PICK phase, job, rules : phase = "planned" /\ job = "revoke" /\ rules = {}
    OBVIOUS
  <2>2. Begins(a, phase, job, g, rules) /\ grants[g] # "none"
    BY <1>2, <2>1 DEF RevokeRole
  <2>3. a \in Procs /\ a \notin Dispatchers \cup Operators
    BY PermissionsAssumption DEF Procs
  <2>4. job \in {"grant", "revoke", "project", "remove"} /\ rules \subseteq {g} \X template
    BY <2>1
  <2> QED
    BY <2>1, <2>2, <2>3, <2>4, TidyBegins
<1>3. ASSUME NEW d \in Dispatchers, NEW g \in Grants, HandleEvent(d, g) PROVE ProjectedInv'
  <2>1. d \in Procs /\ d \notin Admins \cup Operators
    BY PermissionsAssumption DEF Procs
  <2> DEFINE holders == {e \in Dispatchers : proc[e].grant = g}
  <2>2. IsFiniteSet(holders) /\ Cardinality(holders) \in Nat
    <3>1. \A e \in Dispatchers : proc[e].grant = g => e \in started
      BY PermissionsAssumption DEF StartedInv, Idle
    <3> QED
      BY <3>1, FS_Subset, FS_CardinalityType DEF StartedInv
  <2>3. Cardinality(holders) < events[g] /\ events[g] \in Int
    BY <1>3 DEF HandleEvent, Unclaimed, ProjectedInv, TidyTables
  <2>4. grants[g] \in {"none", "live", "gone"}
        /\ (grants[g] = "none" => events[g] = 0) /\ (grants[g] = "live" => events[g] \in {0, 1})
    BY DEF ProjectedInv, OneEvent, TidyTables
  <2>5. CASE grants[g] = "live"
    <3>1. Cardinality(holders) = 0 /\ events[g] = 1
      BY <2>2, <2>3, <2>4, <2>5
    <3>2. holders = {}
      BY <2>2, <3>1, FS_EmptySet
    <3>3. Begins(d, "loaded", "project", g, {})
      BY <1>3, <2>5 DEF HandleEvent
    <3> QED
      BY <2>1, <2>5, <3>1, <3>2, <3>3, TidyBegins
  <2>6. CASE grants[g] # "live"
    <3>1. PICK phase, job, rules : phase = "planned" /\ job = "remove" /\ rules = {}
      OBVIOUS
    <3>2. Begins(d, phase, job, g, rules)
      BY <1>3, <2>6, <3>1 DEF HandleEvent
    <3>3. grants[g] = "gone"
      BY <2>2, <2>3, <2>4, <2>6
    <3>4. job \in {"grant", "revoke", "project", "remove"} /\ rules \subseteq {g} \X template
      BY <3>1
    <3> QED
      BY <2>1, <2>6, <3>1, <3>2, <3>3, <3>4, TidyBegins
  <2> QED
    BY <2>5, <2>6
<1>4. ASSUME NEW permissions, UpdateTemplate(permissions) PROVE FALSE
  BY <1>4 DEF UpdateTemplate, ProjectedInv, TemplateStays
<1>5. ASSUME NEW p \in Procs, proc' = [proc EXCEPT ![p] = RolledBack(p)], UNCHANGED <<Database, updates>>,
             proc[p].phase # "idle"
      PROVE  ProjectedInv'
  <2>1. RolledBack(p) = Idle /\ Idle.job = "none" /\ Idle.grant \notin Grants
    <3>1. p \notin Operators
      BY <1>0, <1>5 DEF Tidy, Idle
    <3> QED
      BY <3>1, PermissionsAssumption DEF RolledBack, Idle
  <2> HIDE DEF Idle
  <2> QED
    BY <1>5, <2>1, IdleTidy, TidyMoves
<1>6. ASSUME NEW p \in Procs, LoadTemplate(p) PROVE ProjectedInv'
  <2>1. proc[p].phase = "loaded" /\ proc[p].job = "project" /\ IsProc(proc[p])
    BY <1>0, <1>6 DEF LoadTemplate, Tidy
  <2> DEFINE s == [proc[p] EXCEPT !.phase = "planned", !.rules = {proc[p].grant} \X template]
  <2>2. proc' = [proc EXCEPT ![p] = s] /\ UNCHANGED <<Database, updates>>
    BY <1>6, <2>1 DEF LoadTemplate
  <2>3. /\ IsProc(s) /\ s.phase = "planned" /\ s.job = "project" /\ s.grant = proc[p].grant
        /\ s.rules = {proc[p].grant} \X template /\ s.snap = proc[p].snap
    BY <2>1 DEF IsProc
  <2> HIDE DEF s
  <2>4. Tidy(p, s)
    BY <1>0, <2>1, <2>3 DEF Tidy
  <2> QED
    BY <2>1, <2>2, <2>3, <2>4, TidyKeeps
<1>7. ASSUME NEW p \in Procs, RepairPlan(p) PROVE FALSE
  BY <1>0, <1>7 DEF RepairPlan, Tidy, Procs
<1>8. ASSUME NEW p \in Procs, NEW phase \in {"deleting", "inserting", "ready"}, NEW snap,
             snap = proc[p].snap \/ snap = RowsOf(proc[p].grant),
             proc[p].phase \notin {"idle", "loaded"},
             proc' = [proc EXCEPT ![p] = [proc[p] EXCEPT !.phase = phase, !.snap = snap]],
             UNCHANGED <<Database, updates>>
      PROVE  ProjectedInv'
  <2> DEFINE s == [proc[p] EXCEPT !.phase = phase, !.snap = snap]
  <2>1. /\ IsProc(s) /\ s.phase = phase /\ s.job = proc[p].job /\ s.grant = proc[p].grant
        /\ s.rules = proc[p].rules /\ s.snap = snap
    BY <1>0 DEF IsProc
  <2>2. proc' = [proc EXCEPT ![p] = s]
    BY <1>8
  <2> HIDE DEF s
  <2>3. proc[p].job # "none"
    <3>1. Tidy(p, proc[p]) /\ Idle.phase = "idle"
      BY <1>0 DEF Idle
    <3> QED
      BY <1>8, <3>1 DEF Tidy
  <2>4. RowsOf(proc[p].grant) \subseteq {proc[p].grant} \X template
    BY DEF ProjectedInv, TidyTables, RowsOf
  <2>5. Tidy(p, s)
    BY <1>0, <1>8, <2>1, <2>3, <2>4 DEF Tidy
  <2> QED
    BY <1>8, <2>1, <2>2, <2>5, TidyKeeps
<1>9. ASSUME NEW p \in Procs, NEW phase \in {"inserting", "ready"}, Goes(p, phase),
             proc[p].phase \in {"deleting", "inserting"}
      PROVE  ProjectedInv'
  <2>1. [proc[p] EXCEPT !.phase = phase] = [proc[p] EXCEPT !.phase = phase, !.snap = proc[p].snap]
    BY <1>0 DEF IsProc
  <2>2. proc' = [proc EXCEPT ![p] = [proc[p] EXCEPT !.phase = phase, !.snap = proc[p].snap]]
    BY <1>9, <2>1 DEF Goes
  <2>3. UNCHANGED <<Database, updates>>
    BY <1>9 DEF Goes
  <2> QED
    BY <1>8, <1>9, <2>2, <2>3
<1>10. ASSUME NEW p \in Procs, Work(p) \/ Crash(p) PROVE ProjectedInv'
  <2>1. CASE DeleteEnd(p) \/ Flush(p)
    BY <1>9, <2>1 DEF DeleteEnd, Flush
  <2>2. CASE DeleteBegin(p)
    BY <1>8, <2>2 DEF DeleteBegin
  <2>3. CASE FlushFails(p) \/ Crash(p)
    BY <1>5, <2>3 DEF FlushFails, Crash
  <2> QED
    BY <1>6, <1>7, <1>10, <2>1, <2>2, <2>3, TidyCommit DEF Work
<1> QED
  BY <1>1, <1>2, <1>3, <1>4, <1>10 DEF Next, RepairBegin, TemplateStays, NoRepair

(* While the template stays and nobody reconciles, a live grant whose event   *)
(* is handled is projected exactly, for any number of dispatchers, requests   *)
(* and crashes (project_grant replaces the grant's rows).                     *)
THEOREM LiveGrantsAreProjected == Spec => [](NoRepair /\ updates = 0 => Projected)
<1> DEFINE Inv == StartedInv /\ updates \in Nat /\ (TemplateStays => ProjectedInv)
<1>1. Init => ProjectedInv
  <2> SUFFICES ASSUME Init PROVE ProjectedInv
    OBVIOUS
  <2>1. \A p \in Procs : proc[p] = Idle
    BY DEF Init
  <2>2. Idle.job = "none" /\ Idle.grant \notin Grants /\ Dispatchers \subseteq Procs
    BY PermissionsAssumption DEF Idle, Procs
  <2>3. TidyTables /\ updates \in Nat /\ Projected
    BY DEF Init, TidyTables, Projected
  <2>4. OneEvent /\ GrantsDistinct
    BY <2>1, <2>2 DEF Init, OneEvent, GrantsDistinct
  <2> QED
    BY <2>1, <2>3, <2>4, IdleTidy DEF ProjectedInv, Init
<1>2. ProjectedInv /\ StartedInv /\ TemplateStays' /\ [Next]_vars => ProjectedInv'
  <2>1. ASSUME ProjectedInv, UNCHANGED vars PROVE ProjectedInv'
    <3>1. \A p \in Procs : Tidy(p, proc[p])'
      BY <2>1 DEF vars, ProjectedInv, Tidy
    <3>2. OneEvent' /\ GrantsDistinct'
      BY <2>1 DEF vars, ProjectedInv, OneEvent, GrantsDistinct
    <3>3. TidyTables' /\ Projected'
      BY <2>1 DEF vars, ProjectedInv, TidyTables, Projected, RowsOf, RulesFor
    <3> QED
      BY <2>1, <3>1, <3>2, <3>3 DEF vars, ProjectedInv
  <2> QED
    BY <2>1, TidyNext
<1>3. Init => Inv
  BY <1>1, StartedAlways DEF Init
<1>4. Inv /\ [Next]_vars => Inv'
  <2>1. [Next]_vars /\ updates \in Nat => updates' \in Nat /\ updates' >= updates
    BY UpdatesGrow
  <2>2. TemplateStays' /\ [Next]_vars /\ updates \in Nat => TemplateStays
    BY <2>1, StartedGrows DEF TemplateStays, NoRepair
  <2> QED
    BY <1>2, <2>1, <2>2, StartedAlways
<1>5. Inv => (NoRepair /\ updates = 0 => Projected)
  BY DEF ProjectedInv, TemplateStays
<1> QED
  BY <1>3, <1>4, <1>5, PTL DEF Spec

(* Handled events leave the right rows, under both conditions, for any       *)
(* grants, permissions, requests and crashes (handle_role_grant_changed).    *)
THEOREM HandledGrantsAreProjected == Spec => []HandledIsProjected
<1>1. (OneDispatcher => NoOrphans) /\ (NoRepair /\ updates = 0 => Projected) => HandledIsProjected
  BY DEF HandledIsProjected
<1> QED
  BY <1>1, OneDispatcherLeavesNoOrphans, LiveGrantsAreProjected, PTL
=============================================================================
