----------------------------- MODULE Scheduler ------------------------------
(***************************************************************************)
(* run_scheduler_loop (core/scheduler/runtime.py) for one cron schedule of *)
(* one tenant: scheduler instances that plan due slots from ScheduleState, *)
(* trigger them under a lock and advance last_planned_at, all in one unit  *)
(* of work per iteration, and the operator's `scheduler --run-once'.       *)
(*                                                                         *)
(* Time is counted in minutes.  A trigger inserts the TaskRun and the      *)
(* ScheduleTriggerLog of its slot; both are unique per slot, so the insert *)
(* waits for any transaction that has inserted them.  The lock of a slot   *)
(* is released when its trigger returns, before the commit.                *)
(***************************************************************************)
EXTENDS Naturals, FiniteSets

CONSTANTS
  Instances,     \* processes of `scheduler --run'
  Operators,     \* runs of `scheduler --run-once'
  LastMinute,    \* bound: the clock stops here
  Cron,          \* the minutes the trigger_config matches
  Policy,        \* misfire_policy
  MisfireLimit,  \* trigger_config.misfire_limit
  SharedLock,    \* a distributed LockProvider is injected (otherwise MemoryLockProvider)
  MaxCrashes,    \* bound: crashes
  MaxFaults,     \* bound: triggers that raise (lock provider or task provider unavailable)
  Nobody         \* no process

Minutes == 1..LastMinute
Procs == Instances \cup Operators

ASSUME SchedulerAssumption ==
  /\ Nobody \notin Procs /\ Instances \cap Operators = {}
  /\ LastMinute \in Nat \ {0}
  /\ Cron \subseteq Minutes
  /\ Policy \in {"skip", "run_once", "catch_up_limited"}
  /\ MisfireLimit \in Nat \ {0}
  /\ SharedLock \in BOOLEAN
  /\ MaxCrashes \in Nat /\ MaxFaults \in Nat

VARIABLES
  clock,     \* the current minute
  last,      \* committed last_planned_at; 0: no ScheduleState row
  first,     \* history: the first committed last_planned_at
  fired,     \* how often a TaskRun was committed for each slot
  holder,    \* holder of the lock of each slot
  proc,      \* where each process is in its iteration
  crashes, faults,
  deployed   \* the instances that run in this behaviour

vars == <<clock, last, first, fired, holder, proc, crashes, faults, deployed>>

Phases == {"idle", "slots", "trigger", "mark", "flush"}

\* plan: slots to do; slot: the current one; known: the session holds the
\* ScheduleState row; mark: the uncommitted last_planned_at; new: the slots whose
\* TaskRun it has inserted.
Proc == [phase : Phases, plan : SUBSET Minutes, slot : 0..LastMinute, known : {"no", "yes"},
         mark : 0..LastMinute, new : SUBSET Minutes]

Idle == [phase |-> "idle", plan |-> {}, slot |-> 0, known |-> "no", mark |-> 0, new |-> {}]

TypeOK ==
  /\ clock \in Minutes
  /\ last \in 0..LastMinute /\ first \in 0..LastMinute
  /\ fired \in [Minutes -> Nat]
  /\ holder \in [Minutes -> Procs \cup {Nobody}]
  /\ proc \in [Procs -> Proc]
  /\ crashes \in 0..MaxCrashes /\ faults \in 0..MaxFaults
  /\ deployed \subseteq Instances

Init ==
  /\ clock = 1
  /\ last = 0 /\ first = 0
  /\ fired = [s \in Minutes |-> 0]
  /\ holder = [s \in Minutes |-> Nobody]
  /\ proc = [p \in Procs |-> Idle]
  /\ crashes = 0 /\ faults = 0
  /\ deployed \in SUBSET Instances

Tick ==
  /\ clock < LastMinute
  /\ clock' = clock + 1
  /\ UNCHANGED <<last, first, fired, holder, proc, crashes, faults, deployed>>

-----------------------------------------------------------------------------
(* Planning                                                                 *)

\* Mutant: the current minute is not due.
DueSlots_Exclusive ==
  IF last = 0 THEN Cron \cap {clock} ELSE {s \in Cron : last < s /\ s < clock}

\* _cron_due_slots.  Without a state only the current minute can be due.
DueSlots ==
  IF last = 0 THEN Cron \cap {clock} ELSE {s \in Cron : last < s /\ s <= clock}

\* Mutant: the newest slots are caught up first.
PlannedSlots_Newest ==
  CASE Policy = "skip"     -> DueSlots \cap {clock}
    [] Policy = "run_once" -> {s \in DueSlots : \A t \in DueSlots : t <= s}
    [] OTHER -> {s \in DueSlots : Cardinality({t \in DueSlots : t > s}) < MisfireLimit}

\* planned_slots of plan_cron_due_slots.
PlannedSlots ==
  CASE Policy = "skip"     -> DueSlots \cap {clock}
    [] Policy = "run_once" -> {s \in DueSlots : \A t \in DueSlots : t <= s}
    [] OTHER -> {s \in DueSlots : Cardinality({t \in DueSlots : t < s}) < MisfireLimit}

\* An iteration begins and plans from the committed state.
Begins(p, phase, slot) ==
  /\ p \in deployed
  /\ proc[p].phase = "idle"
  /\ proc' = [proc EXCEPT ![p] = [phase |-> phase, plan |-> PlannedSlots, slot |-> slot,
                                  known |-> IF last = 0 THEN "no" ELSE "yes",
                                  mark |-> 0, new |-> {}]]
  /\ UNCHANGED <<clock, last, first, fired, holder, crashes, faults, deployed>>

Plan(p) == PlannedSlots # {} /\ Begins(p, "slots", 0)

\* Mutant: the slots skip passes over are not marked.
PlanSkipped_Never(p, s) == FALSE /\ Begins(p, "mark", s)

\* skipped_until: with "skip", the newest of the slots that were missed is marked.
PlanSkipped(p, s) ==
  /\ Policy = "skip" /\ clock \notin DueSlots
  /\ s \in DueSlots /\ \A t \in DueSlots : t <= s
  /\ Begins(p, "mark", s)

\* `scheduler --run-once --planned-at'.
RunOnce(p, s) ==
  /\ p \in Operators
  /\ proc[p].phase = "idle"
  /\ s <= clock
  /\ proc' = [proc EXCEPT ![p] = [phase |-> "slots", plan |-> {s}, slot |-> 0, known |-> "no",
                                  mark |-> 0, new |-> {}]]
  /\ UNCHANGED <<clock, last, first, fired, holder, crashes, faults, deployed>>

-----------------------------------------------------------------------------
(* Triggering a slot                                                        *)

\* The slot is left (the exception is caught and the loop continues).
Drops(p, s) == proc' = [proc EXCEPT ![p].plan = @ \ {s}, ![p].phase = "slots"]

\* LockedScheduleProvider.trigger: require_acquire.  The loop and the operator's
\* command have a MemoryLockProvider of their own unless one is injected.
Acquire(p, s) ==
  /\ proc[p].phase = "slots"
  /\ s \in proc[p].plan /\ \A t \in proc[p].plan : s <= t
  /\ IF SharedLock /\ p \in Instances /\ holder[s] # Nobody
     THEN Drops(p, s) /\ UNCHANGED holder
     ELSE /\ holder' = [holder EXCEPT ![s] = IF SharedLock /\ p \in Instances THEN p ELSE @]
          /\ proc' = [proc EXCEPT ![p].phase = "trigger", ![p].slot = s]
  /\ UNCHANGED <<clock, last, first, fired, crashes, faults, deployed>>

\* The finally clause releases the lock if it is still this process's.
Releases(p) == holder' = [holder EXCEPT ![proc[p].slot] = IF @ = p THEN Nobody ELSE @]

\* The lock provider, the tenant gate or the task provider raises.
TriggerRaises(p) ==
  /\ proc[p].phase = "trigger"
  /\ faults < MaxFaults
  /\ faults' = faults + 1
  /\ Drops(p, proc[p].slot)
  /\ Releases(p)
  /\ UNCHANGED <<clock, last, first, fired, crashes, deployed>>

\* Another transaction has inserted the rows of this process's slot.
SlotTaken(p) == \E q \in Procs \ {p} : proc[p].slot \in proc[q].new

\* Mutant: nothing makes the slot's task unique.
Trigger_NotUnique(p) ==
  /\ proc[p].phase = "trigger"
  /\ proc' = [proc EXCEPT ![p].new = @ \cup {proc[p].slot},
                          ![p].plan = @ \ {proc[p].slot},
                          ![p].phase = IF p \in Instances THEN "mark" ELSE "slots"]
  /\ Releases(p)
  /\ UNCHANGED <<clock, last, first, fired, crashes, faults, deployed>>

\* Mutant: the operator's command marks the state, too.
Trigger_AlwaysMarks(p) ==
  /\ proc[p].phase = "trigger"
  /\ ~SlotTaken(p)
  /\ proc' = [proc EXCEPT ![p].new = IF fired[proc[p].slot] = 0 THEN @ \cup {proc[p].slot} ELSE @,
                          ![p].plan = @ \ {proc[p].slot}, ![p].phase = "mark"]
  /\ Releases(p)
  /\ UNCHANGED <<clock, last, first, fired, crashes, faults, deployed>>

\* ManualScheduleProvider.trigger: submit and record_result insert the rows of the
\* slot, or find the ones another transaction committed ("replayed").
Trigger(p) ==
  /\ proc[p].phase = "trigger"
  /\ ~SlotTaken(p)
  /\ proc' = [proc EXCEPT ![p].new = IF fired[proc[p].slot] = 0 THEN @ \cup {proc[p].slot} ELSE @,
                          ![p].plan = @ \ {proc[p].slot},
                          ![p].phase = IF p \in Instances THEN "mark" ELSE "slots"]
  /\ Releases(p)
  /\ UNCHANGED <<clock, last, first, fired, crashes, faults, deployed>>

-----------------------------------------------------------------------------
(* mark_triggered, mark_skipped_until                                       *)

\* _upsert_state reads the row; one that is loaded already is not refreshed.
MarkGet(p) ==
  /\ proc[p].phase = "mark"
  /\ proc' = [proc EXCEPT ![p].known = IF last = 0 THEN @ ELSE "yes", ![p].phase = "flush"]
  /\ UNCHANGED <<clock, last, first, fired, holder, crashes, faults, deployed>>

\* Another transaction has written the ScheduleState row.
StateTaken(p) == \E q \in Procs \ {p} : proc[q].mark # 0

\* A session that saw no row inserts one, which a row committed meanwhile refuses;
\* otherwise the UPDATE is by id.
InsertRefused(p) == proc[p].known = "no" /\ last # 0

MarkFlush(p) ==
  /\ proc[p].phase = "flush"
  /\ ~StateTaken(p)
  /\ ~InsertRefused(p)
  /\ proc' = [proc EXCEPT ![p].mark = proc[p].slot, ![p].known = "yes", ![p].phase = "slots"]
  /\ UNCHANGED <<clock, last, first, fired, holder, crashes, faults, deployed>>

\* The IntegrityError is not caught: the loop ends, and is started again.
MarkRefused(p) ==
  /\ proc[p].phase = "flush"
  /\ ~StateTaken(p)
  /\ InsertRefused(p)
  /\ proc' = [proc EXCEPT ![p] = Idle]
  /\ UNCHANGED <<clock, last, first, fired, holder, crashes, faults, deployed>>

-----------------------------------------------------------------------------
(* The unit of work                                                         *)

Commit(p) ==
  /\ proc[p].phase = "slots"
  /\ proc[p].plan = {}
  /\ last' = IF proc[p].mark = 0 THEN last ELSE proc[p].mark
  /\ first' = IF first = 0 THEN last' ELSE first
  /\ fired' = [s \in Minutes |-> IF s \in proc[p].new THEN fired[s] + 1 ELSE fired[s]]
  /\ proc' = [proc EXCEPT ![p] = Idle]
  /\ UNCHANGED <<clock, holder, crashes, faults, deployed>>

\* PostgreSQL ends a cycle of two waiting transactions.  In a trigger the error is
\* caught and the slot dropped; in a flush it ends the loop.
BreakDeadlock(p) ==
  /\ \E q \in Procs \ {p} :
       /\ proc[p].phase = "trigger" /\ proc[p].slot \in proc[q].new
       /\ proc[q].phase = "flush" /\ proc[p].mark # 0
  /\ \/ Drops(p, proc[p].slot) /\ Releases(p)
     \/ /\ \E q \in Procs \ {p} :
             /\ proc[q].phase = "flush" /\ proc[p].slot \in proc[q].new
             /\ proc' = [proc EXCEPT ![q] = Idle]
        /\ UNCHANGED holder
  /\ UNCHANGED <<clock, last, first, fired, crashes, faults, deployed>>

\* The process dies; its transaction is rolled back, its locks stay until their TTL.
Crash(p) ==
  /\ proc[p].phase # "idle"
  /\ crashes < MaxCrashes
  /\ crashes' = crashes + 1
  /\ proc' = [proc EXCEPT ![p] = Idle]
  /\ UNCHANGED <<clock, last, first, fired, holder, faults, deployed>>

\* A lock's TTL passes.
LockExpires(s) ==
  /\ holder[s] # Nobody
  /\ holder' = [holder EXCEPT ![s] = Nobody]
  /\ UNCHANGED <<clock, last, first, fired, proc, crashes, faults, deployed>>

Step(p) ==
  \/ Plan(p) \/ Trigger(p) \/ MarkGet(p) \/ MarkFlush(p) \/ MarkRefused(p)
  \/ Commit(p) \/ BreakDeadlock(p)
  \/ \E s \in Minutes : PlanSkipped(p, s) \/ Acquire(p, s)

Next ==
  \/ Tick
  \/ \E p \in Procs : Step(p) \/ TriggerRaises(p) \/ Crash(p)
  \/ \E p \in Procs, s \in Minutes : RunOnce(p, s)
  \/ \E s \in Minutes : LockExpires(s)

Spec == Init /\ [][Next]_vars

(* The clock goes on, the loop has no exit of its own, and a TTL passes.    *)
FairSpec ==
  /\ Spec
  /\ WF_vars(Tick)
  /\ \A p \in Procs : WF_vars(Step(p))
  /\ \A s \in Minutes : WF_vars(LockExpires(s))

-----------------------------------------------------------------------------
(* One TaskRun per schedule, tenant and planned_at, whatever instances and  *)
(* operators trigger it at once.                                            *)
FiredOnce == \A s \in Minutes : fired[s] <= 1

(* last_planned_at names a slot that was triggered: it is never advanced    *)
(* without the rows of the trigger (skip also marks slots it passes over).  *)
LastWasFired == Policy # "skip" /\ last # 0 => fired[last] > 0

(* catch_up_limited passes over no slot after the first one.                *)
NothingPassedOver ==
  Policy = "catch_up_limited" /\ last # 0 =>
    \A s \in Cron : first <= s /\ s <= last => fired[s] > 0

(* last_planned_at never goes back to a slot before one that is done        *)
(* ("避免 scheduler 重启后重复处理同一 cron slot").                            *)
NeverBack == [][last' >= last]_vars

\* One instance runs, no trigger has raised, and no lock outlived its process.
Undisturbed ==
  /\ \A p, q \in deployed : p = q
  /\ faults = 0
  /\ SharedLock => crashes = 0

(* One undisturbed instance takes the slots of a catch_up_limited schedule  *)
(* in order: it passes over none (plan_cron_due_slots takes the oldest      *)
(* first) and never moves last_planned_at back (mark_triggered), whatever   *)
(* operators trigger at the same time and however often it crashes.         *)
OneInOrder == [][Undisturbed' => last' >= last /\ NothingPassedOver']_vars

\* last_planned_at is the last slot there is.
UpToDate == last \in Cron /\ \A s \in Cron : s <= last

(* Once there is a state and the clock stands still, the schedule catches up*)
(* with it, whatever the policy, the crashes and the deadlocks.             *)
CatchesUp == last # 0 ~> UpToDate
=============================================================================
