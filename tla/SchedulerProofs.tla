-------------------------- MODULE SchedulerProofs ---------------------------
(* What the scheduler promises for any number of instances, operators,     *)
(* crashes and slots, with and without a distributed lock.                 *)
EXTENDS Scheduler, FiniteSetTheorems, TLAPS

-----------------------------------------------------------------------------
(* Types                                                                    *)

(* Setting fields of a process keeps it a process.                          *)
LEMMA ProcUpdates ==
  ASSUME NEW x \in Proc
  PROVE  /\ \A ph \in Phases : [x EXCEPT !.phase = ph] \in Proc
         /\ \A S \in SUBSET Minutes : [x EXCEPT !.plan = S] \in Proc
         /\ \A s \in 0..LastMinute : [x EXCEPT !.slot = s] \in Proc
         /\ \A s \in 0..LastMinute : [x EXCEPT !.mark = s] \in Proc
         /\ \A k \in {"no", "yes"} : [x EXCEPT !.known = k] \in Proc
         /\ \A S \in SUBSET Minutes : [x EXCEPT !.new = S] \in Proc
BY DEF Proc

(* An idle process is a process.                                            *)
LEMMA IdleTyped == Idle \in Proc
BY SchedulerAssumption DEF Idle, Proc, Phases, Minutes

(* The plan of an iteration is a set of minutes.                            *)
LEMMA PlannedTyped == PlannedSlots \subseteq Minutes /\ DueSlots \subseteq Minutes
BY SchedulerAssumption DEF PlannedSlots, DueSlots, Minutes

(* A process is in a slot from the lock to the flush.                       *)
InSlot == \A p \in Procs : proc[p].phase \in {"trigger", "mark", "flush"} => proc[p].slot \in Minutes

Typed == TypeOK /\ InSlot

(* Clock, rows, locks and processes stay in their types.                    *)
THEOREM AlwaysTyped == Spec => []Typed
<1>1. Init => Typed
  <2> SUFFICES ASSUME Init PROVE Typed
    OBVIOUS
  <2>1. Idle \in Proc /\ Idle.phase = "idle"
    BY IdleTyped DEF Idle
  <2>2. proc \in [Procs -> Proc] /\ \A p \in Procs : proc[p].phase = "idle"
    BY <2>1 DEF Init
  <2>3. /\ clock \in Minutes /\ last \in 0..LastMinute /\ first \in 0..LastMinute
        /\ crashes \in 0..MaxCrashes /\ faults \in 0..MaxFaults
        /\ deployed \subseteq Instances
    BY SchedulerAssumption DEF Init, Minutes
  <2>4. fired \in [Minutes -> Nat] /\ holder \in [Minutes -> Procs \cup {Nobody}]
    BY DEF Init
  <2> QED
    BY <2>2, <2>3, <2>4 DEF Typed, TypeOK, InSlot
<1>2. Typed /\ [Next]_vars => Typed'
  <2> SUFFICES ASSUME Typed, [Next]_vars PROVE Typed'
    OBVIOUS
  <2>0. /\ clock \in Minutes /\ last \in 0..LastMinute /\ first \in 0..LastMinute
        /\ fired \in [Minutes -> Nat] /\ holder \in [Minutes -> Procs \cup {Nobody}]
        /\ proc \in [Procs -> Proc]
        /\ crashes \in 0..MaxCrashes /\ faults \in 0..MaxFaults
        /\ deployed \subseteq Instances
    BY DEF Typed, TypeOK
  <2> USE SchedulerAssumption DEF Minutes
  <2>1. CASE UNCHANGED vars
    BY <2>1 DEF vars, Typed, TypeOK, InSlot
  <2>2. CASE Tick
    BY <2>2 DEF Tick, Typed, TypeOK, InSlot
  <2>3. ASSUME NEW p \in Procs, NEW ph \in Phases, NEW s \in 0..LastMinute, Begins(p, ph, s),
               ph \in {"trigger", "mark", "flush"} => s \in Minutes
        PROVE  Typed'
    <3> DEFINE x == [phase |-> ph, plan |-> PlannedSlots, slot |-> s,
                     known |-> IF last = 0 THEN "no" ELSE "yes", mark |-> 0, new |-> {}]
    <3>1. x \in Proc /\ x.phase = ph /\ x.slot = s
      BY PlannedTyped DEF Proc
    <3>2. proc' = [proc EXCEPT ![p] = x]
      BY <2>3 DEF Begins
    <3> HIDE DEF x
    <3> QED
      BY <2>0, <2>3, <3>1, <3>2 DEF Begins, Typed, TypeOK, InSlot
  <2>4. ASSUME NEW p \in Procs, NEW s \in Minutes, RunOnce(p, s) PROVE Typed'
    <3> DEFINE x == [phase |-> "slots", plan |-> {s}, slot |-> 0, known |-> "no",
                     mark |-> 0, new |-> {}]
    <3>1. x \in Proc /\ x.phase = "slots"
      BY DEF Proc, Phases
    <3>2. proc' = [proc EXCEPT ![p] = x]
      BY <2>4 DEF RunOnce
    <3> HIDE DEF x
    <3> QED
      BY <2>0, <2>4, <3>1, <3>2 DEF RunOnce, Typed, TypeOK, InSlot
  <2>5. ASSUME NEW p \in Procs, NEW s \in Minutes, Drops(p, s)
        PROVE  proc' \in [Procs -> Proc] /\ InSlot'
    <3> DEFINE x1 == [proc[p] EXCEPT !.plan = @ \ {s}]
               x2 == [x1 EXCEPT !.phase = "slots"]
    <3>1. x1 \in Proc
      <4>1. proc[p] \in Proc /\ proc[p].plan \ {s} \in SUBSET Minutes
        BY <2>0 DEF Proc
      <4> QED
        BY <4>1, ProcUpdates
    <3>2. x2 \in Proc /\ x2.phase = "slots"
      BY <3>1 DEF Proc, Phases
    <3>3. proc' = [proc EXCEPT ![p] = x2]
      BY <2>5 DEF Drops
    <3> HIDE DEF x2
    <3> QED
      BY <2>0, <3>2, <3>3 DEF Typed, InSlot
  <2>6. ASSUME NEW p \in Procs, Releases(p)
        PROVE  holder' \in [Minutes -> Procs \cup {Nobody}]
    BY <2>0, <2>6 DEF Releases
  <2>7. ASSUME NEW p \in Procs, NEW s \in Minutes, Acquire(p, s) PROVE Typed'
    <3>1. CASE SharedLock /\ p \in Instances /\ holder[s] # Nobody
      BY <2>0, <2>5, <2>7, <3>1 DEF Acquire, Typed, TypeOK
    <3>2. CASE ~(SharedLock /\ p \in Instances /\ holder[s] # Nobody)
      <4>1. proc' \in [Procs -> Proc] /\ InSlot'
        <5> DEFINE x1 == [proc[p] EXCEPT !.phase = "trigger"]
                   x2 == [x1 EXCEPT !.slot = s]
        <5>1. x1 \in Proc
          <6>1. proc[p] \in Proc /\ "trigger" \in Phases
            BY <2>0 DEF Phases
          <6> QED
            BY <6>1, ProcUpdates
        <5>2. x2 \in Proc /\ x2.slot = s
          <6>1. s \in 0..LastMinute /\ DOMAIN x1 = {"phase", "plan", "slot", "known", "mark", "new"}
            BY <5>1 DEF Proc
          <6>2. x2.slot = s
            BY <6>1
          <6> HIDE DEF x1
          <6> QED
            BY <5>1, <6>1, <6>2, ProcUpdates
        <5>3. proc' = [proc EXCEPT ![p] = x2]
          BY <2>7, <3>2 DEF Acquire
        <5> HIDE DEF x2
        <5> QED
          BY <2>0, <5>2, <5>3 DEF Typed, InSlot
      <4>2. holder' \in [Minutes -> Procs \cup {Nobody}]
        BY <2>0, <2>7, <3>2 DEF Acquire
      <4> QED
        BY <2>0, <2>7, <4>1, <4>2 DEF Acquire, Typed, TypeOK
    <3> QED
      BY <3>1, <3>2
  <2>8. ASSUME NEW p \in Procs, TriggerRaises(p) PROVE Typed'
    <3>1. proc[p].slot \in Minutes
      BY <2>8 DEF TriggerRaises, Typed, InSlot
    <3> QED
      BY <2>0, <2>5, <2>6, <2>8, <3>1 DEF TriggerRaises, Typed, TypeOK
  <2>9. ASSUME NEW p \in Procs, Trigger(p) PROVE Typed'
    <3>1. proc[p].slot \in Minutes
      BY <2>9 DEF Trigger, Typed, InSlot
    <3>2. proc' \in [Procs -> Proc]
      <4> DEFINE N == IF fired[proc[p].slot] = 0 THEN proc[p].new \cup {proc[p].slot} ELSE proc[p].new
                 x1 == [proc[p] EXCEPT !.new = N]
                 x2 == [x1 EXCEPT !.plan = proc[p].plan \ {proc[p].slot}]
                 x3 == [x2 EXCEPT !.phase = IF p \in Instances THEN "mark" ELSE "slots"]
      <4>1. N \subseteq Minutes /\ proc[p].plan \ {proc[p].slot} \subseteq Minutes
        BY <2>0, <3>1 DEF Proc
      <4>2. x1 \in Proc
        <5>1. proc[p] \in Proc /\ N \in SUBSET Minutes
          BY <2>0, <4>1
        <5> HIDE DEF N
        <5> QED
          BY <5>1, ProcUpdates
      <4>3. x2 \in Proc
        BY <4>1, <4>2 DEF Proc
      <4>4. x3 \in Proc
        BY <4>3 DEF Proc, Phases
      <4>5. proc' = [proc EXCEPT ![p] = x3]
        BY <2>9 DEF Trigger
      <4> HIDE DEF x3
      <4> QED
        BY <2>0, <4>4, <4>5
    <3>3. InSlot'
      BY <2>0, <2>9, <3>1 DEF Trigger, Proc, Typed, InSlot
    <3> QED
      BY <2>0, <2>6, <2>9, <3>2, <3>3 DEF Trigger, Typed, TypeOK
  <2>10. ASSUME NEW p \in Procs, MarkGet(p) PROVE Typed'
    <3>1. proc' \in [Procs -> Proc] /\ InSlot'
      <4> DEFINE x1 == [proc[p] EXCEPT !.known = IF last = 0 THEN proc[p].known ELSE "yes"]
                 x2 == [x1 EXCEPT !.phase = "flush"]
      <4>1. x1 \in Proc
        <5>1. proc[p] \in Proc /\ (IF last = 0 THEN proc[p].known ELSE "yes") \in {"no", "yes"}
          BY <2>0 DEF Proc
        <5> QED
          BY <5>1, ProcUpdates
      <4>2. x2 \in Proc /\ x2.phase = "flush" /\ x2.slot = proc[p].slot
        BY <4>1, <2>0 DEF Proc, Phases
      <4>3. proc' = [proc EXCEPT ![p] = x2] /\ proc[p].slot \in Minutes
        BY <2>10 DEF MarkGet, Typed, InSlot
      <4> HIDE DEF x2
      <4> QED
        BY <2>0, <4>2, <4>3 DEF Typed, InSlot
    <3> QED
      BY <2>0, <2>10, <3>1 DEF MarkGet, Typed, TypeOK
  <2>11. ASSUME NEW p \in Procs, MarkFlush(p) PROVE Typed'
    <3>1. proc' \in [Procs -> Proc] /\ InSlot'
      <4> DEFINE x1 == [proc[p] EXCEPT !.mark = proc[p].slot]
                 x2 == [x1 EXCEPT !.known = "yes"]
                 x3 == [x2 EXCEPT !.phase = "slots"]
      <4>1. x1 \in Proc
        <5>1. proc[p] \in Proc /\ proc[p].slot \in 0..LastMinute
          BY <2>0 DEF Proc
        <5> QED
          BY <5>1, ProcUpdates
      <4>2. x2 \in Proc
        BY <4>1 DEF Proc
      <4>3. x3 \in Proc /\ x3.phase = "slots"
        BY <4>2 DEF Proc, Phases
      <4>4. proc' = [proc EXCEPT ![p] = x3]
        BY <2>11 DEF MarkFlush
      <4> HIDE DEF x3
      <4> QED
        BY <2>0, <4>3, <4>4 DEF Typed, InSlot
    <3> QED
      BY <2>0, <2>11, <3>1 DEF MarkFlush, Typed, TypeOK
  <2>12. ASSUME NEW q \in Procs, proc' = [proc EXCEPT ![q] = Idle]
         PROVE  proc' \in [Procs -> Proc] /\ InSlot'
    <3>1. Idle \in Proc /\ Idle.phase = "idle"
      BY IdleTyped DEF Idle
    <3> QED
      BY <2>0, <2>12, <3>1 DEF Typed, InSlot
  <2>13. ASSUME NEW p \in Procs, MarkRefused(p) \/ Crash(p) PROVE Typed'
    BY <2>0, <2>12, <2>13 DEF MarkRefused, Crash, Typed, TypeOK
  <2>14. ASSUME NEW p \in Procs, Commit(p) PROVE Typed'
    <3>1. last' \in 0..LastMinute /\ first' \in 0..LastMinute
      BY <2>0, <2>14 DEF Commit, Proc
    <3>2. fired' \in [Minutes -> Nat]
      BY <2>0, <2>14 DEF Commit
    <3> QED
      BY <2>0, <2>12, <2>14, <3>1, <3>2 DEF Commit, Typed, TypeOK
  <2>15. ASSUME NEW p \in Procs, BreakDeadlock(p) PROVE Typed'
    <3>1. proc[p].slot \in Minutes
      BY <2>15 DEF BreakDeadlock, Typed, InSlot
    <3>2. CASE Drops(p, proc[p].slot) /\ Releases(p)
      BY <2>0, <2>5, <2>6, <2>15, <3>1, <3>2 DEF BreakDeadlock, Typed, TypeOK
    <3>3. CASE holder' = holder /\ \E q \in Procs : proc' = [proc EXCEPT ![q] = Idle]
      BY <2>0, <2>12, <2>15, <3>3 DEF BreakDeadlock, Typed, TypeOK
    <3> QED
      BY <2>15, <3>2, <3>3 DEF BreakDeadlock
  <2>16. ASSUME NEW s \in Minutes, LockExpires(s) PROVE Typed'
    BY <2>0, <2>16 DEF LockExpires, Typed, TypeOK, InSlot
  <2>17. ASSUME NEW p \in Procs, Plan(p) \/ \E s \in Minutes : PlanSkipped(p, s) PROVE Typed'
    <3>1. "slots" \in Phases /\ "mark" \in Phases /\ 0 \in 0..LastMinute
          /\ \A s \in Minutes : s \in 0..LastMinute
      BY DEF Phases
    <3> QED
      BY <2>3, <2>17, <3>1 DEF Plan, PlanSkipped
  <2> QED
    BY <2>1, <2>2, <2>4, <2>7, <2>8, <2>9, <2>10, <2>11, <2>13, <2>14, <2>15, <2>16, <2>17
    DEF Next, Step
<1> QED
  BY <1>1, <1>2, PTL DEF Spec

-----------------------------------------------------------------------------
(* One TaskRun per slot                                                     *)

\* Uncommitted rows of a slot are in one transaction, and none are committed.
NewIsFresh ==
  \A p \in Procs : \A s \in proc[p].new :
    fired[s] = 0 /\ \A q \in Procs \ {p} : s \notin proc[q].new

\* The rows of a slot are committed or in the process's transaction.
Done(p, s) == s \in Minutes /\ (fired[s] > 0 \/ s \in proc[p].new)

\* What is marked, or about to be, was triggered.
MarkedIsDone ==
  Policy # "skip" =>
    \A p \in Procs :
      /\ proc[p].mark # 0 => Done(p, proc[p].mark)
      /\ proc[p].phase \in {"mark", "flush"} => Done(p, proc[p].slot)

\* What every step keeps.
Exact == FiredOnce /\ LastWasFired /\ NewIsFresh /\ MarkedIsDone

(* What is committed, inserted and marked agrees.                           *)
LEMMA AlwaysExact == Spec => []Exact
<1> DEFINE J == FiredOnce /\ LastWasFired /\ NewIsFresh /\ MarkedIsDone
<1>1. Init => J
  <2> SUFFICES ASSUME Init PROVE J
    OBVIOUS
  <2>1. \A p \in Procs : proc[p].new = {} /\ proc[p].mark = 0 /\ proc[p].phase = "idle"
    BY DEF Init, Idle
  <2>2. FiredOnce /\ LastWasFired
    BY DEF Init, FiredOnce, LastWasFired
  <2> QED
    BY <2>1, <2>2 DEF NewIsFresh, MarkedIsDone
<1>2. Typed /\ J /\ [Next]_vars => J'
  <2> SUFFICES ASSUME Typed, J, [Next]_vars PROVE J'
    OBVIOUS
  <2>0. /\ fired \in [Minutes -> Nat] /\ proc \in [Procs -> Proc]
        /\ last \in 0..LastMinute /\ LastMinute \in Nat
    BY SchedulerAssumption DEF Typed, TypeOK
  \* A step that commits nothing and keeps, or drops, what each process has inserted.
  <2>1. ASSUME UNCHANGED <<last, fired>>,
               \A q \in Procs : \/ /\ proc'[q].new = proc[q].new
                                   /\ proc'[q].mark = proc[q].mark
                                   /\ proc'[q].phase \in {"mark", "flush"} =>
                                        /\ proc[q].phase \in {"mark", "flush"}
                                        /\ proc'[q].slot = proc[q].slot
                                \/ /\ proc'[q].new = {} /\ proc'[q].mark = 0
                                   /\ proc'[q].phase \notin {"mark", "flush"}
        PROVE  J'
    <3>1. FiredOnce' /\ LastWasFired'
      BY <2>1 DEF FiredOnce, LastWasFired
    <3>2. NewIsFresh'
      BY <2>1 DEF NewIsFresh
    <3>3. MarkedIsDone'
      BY <2>1 DEF MarkedIsDone, Done
    <3> QED
      BY <3>1, <3>2, <3>3
  <2>2. CASE UNCHANGED vars
    BY <2>2 DEF vars, FiredOnce, LastWasFired, NewIsFresh, MarkedIsDone, Done
  <2>3. CASE Tick
    BY <2>1, <2>3 DEF Tick
  <2>4. ASSUME NEW p \in Procs, NEW s \in Minutes, RunOnce(p, s) PROVE J'
    BY <2>0, <2>1, <2>4 DEF RunOnce
  <2>5. ASSUME NEW p \in Procs, Plan(p) PROVE J'
    BY <2>0, <2>1, <2>5 DEF Plan, Begins
  <2>6. ASSUME NEW p \in Procs, NEW s \in Minutes, PlanSkipped(p, s) PROVE J'
    <3>1. /\ Policy = "skip" /\ UNCHANGED <<last, fired>>
          /\ proc'[p].new = {} /\ \A q \in Procs \ {p} : proc'[q] = proc[q]
      BY <2>0, <2>6 DEF PlanSkipped, Begins
    <3>2. NewIsFresh'
      BY <3>1 DEF NewIsFresh
    <3> QED
      BY <3>1, <3>2 DEF FiredOnce, LastWasFired, MarkedIsDone
  <2>7. ASSUME NEW p \in Procs, NEW s \in Minutes, Acquire(p, s) PROVE J'
    BY <2>0, <2>1, <2>7 DEF Acquire, Drops, Proc
  <2>8. ASSUME NEW p \in Procs, TriggerRaises(p) PROVE J'
    BY <2>0, <2>1, <2>8 DEF TriggerRaises, Drops, Proc
  <2>9. ASSUME NEW p \in Procs, Trigger(p) PROVE J'
    <3> DEFINE s == proc[p].slot
    <3>1. s \in Minutes
      BY <2>9 DEF Trigger, Typed, InSlot
    <3>2. /\ UNCHANGED <<last, fired>> /\ proc'[p].slot = s /\ proc'[p].mark = proc[p].mark
          /\ proc'[p].new = IF fired[s] = 0 THEN proc[p].new \cup {s} ELSE proc[p].new
          /\ \A q \in Procs \ {p} : proc'[q] = proc[q] /\ s \notin proc[q].new
      BY <2>0, <2>9 DEF Trigger, SlotTaken, Proc
    <3>3. fired[s] \in Nat
      BY <2>0, <3>1
    <3> HIDE DEF s
    <3>4. NewIsFresh'
      BY <3>2 DEF NewIsFresh
    <3>5. fired'[s] > 0 \/ s \in proc'[p].new
      BY <3>1, <3>2, <3>3
    <3>6. MarkedIsDone'
      <4> SUFFICES ASSUME Policy # "skip", NEW q \in Procs
                   PROVE  /\ proc'[q].mark # 0 => Done(q, proc[q].mark)'
                          /\ proc'[q].phase \in {"mark", "flush"} => Done(q, proc[q].slot)'
        BY DEF MarkedIsDone
      <4>1. CASE q # p
        BY <3>2, <4>1 DEF MarkedIsDone, Done
      <4>2. CASE q = p
        BY <3>1, <3>2, <3>5, <4>2 DEF MarkedIsDone, Done
      <4> QED
        BY <4>1, <4>2
    <3> QED
      BY <3>2, <3>4, <3>6 DEF FiredOnce, LastWasFired
  <2>10. ASSUME NEW p \in Procs, MarkGet(p) PROVE J'
    BY <2>0, <2>1, <2>10 DEF MarkGet, Proc
  <2>11. ASSUME NEW p \in Procs, MarkFlush(p) PROVE J'
    <3>1. /\ UNCHANGED <<last, fired>> /\ proc[p].phase = "flush" /\ proc'[p].phase = "slots"
          /\ proc'[p].new = proc[p].new /\ proc'[p].mark = proc[p].slot
          /\ \A q \in Procs \ {p} : proc'[q] = proc[q]
      BY <2>0, <2>11 DEF MarkFlush, Proc
    <3>2. NewIsFresh'
      BY <3>1 DEF NewIsFresh
    <3>3. MarkedIsDone'
      BY <3>1 DEF MarkedIsDone, Done
    <3> QED
      BY <3>1, <3>2, <3>3 DEF FiredOnce, LastWasFired
  <2>12. ASSUME NEW p \in Procs, MarkRefused(p) \/ Crash(p) PROVE J'
    BY <2>0, <2>1, <2>12 DEF MarkRefused, Crash, Idle
  <2>13. ASSUME NEW p \in Procs, Commit(p) PROVE J'
    <3>1. /\ proc'[p].new = {} /\ proc'[p].mark = 0 /\ proc'[p].phase = "idle"
          /\ \A q \in Procs \ {p} : proc'[q] = proc[q]
          /\ last' = IF proc[p].mark = 0 THEN last ELSE proc[p].mark
      BY <2>0, <2>13 DEF Commit, Idle
    <3>2. \A s \in Minutes : fired'[s] = IF s \in proc[p].new THEN fired[s] + 1 ELSE fired[s]
      BY <2>13 DEF Commit
    <3>3. \A s \in Minutes : fired[s] \in Nat
      BY <2>0
    <3>4. FiredOnce'
      BY <3>2, <3>3 DEF FiredOnce, NewIsFresh
    <3>5. LastWasFired'
      <4> SUFFICES ASSUME Policy # "skip", last' # 0 PROVE fired'[last'] > 0
        BY DEF LastWasFired
      <4>1. CASE proc[p].mark = 0
        <5>1. last \in Minutes /\ last' = last /\ fired[last] > 0
          BY <2>0, <3>1, <4>1 DEF LastWasFired, Minutes
        <5> QED
          BY <3>2, <3>3, <5>1
      <4>2. CASE proc[p].mark # 0
        <5>1. last' = proc[p].mark /\ Done(p, proc[p].mark)
          BY <3>1, <4>2 DEF MarkedIsDone
        <5> QED
          BY <3>2, <3>3, <5>1 DEF Done
      <4> QED
        BY <4>1, <4>2
    <3>6. NewIsFresh'
      <4> SUFFICES ASSUME NEW q \in Procs, NEW s \in proc'[q].new
                   PROVE  fired'[s] = 0 /\ \A r \in Procs \ {q} : s \notin proc'[r].new
        BY DEF NewIsFresh
      <4>1. q # p /\ s \in proc[q].new /\ s \in Minutes
        BY <2>0, <3>1 DEF Proc
      <4> QED
        BY <3>1, <3>2, <4>1 DEF NewIsFresh
    <3>7. MarkedIsDone'
      <4> SUFFICES ASSUME Policy # "skip", NEW q \in Procs
                   PROVE  /\ proc'[q].mark # 0 => Done(q, proc[q].mark)'
                          /\ proc'[q].phase \in {"mark", "flush"} => Done(q, proc[q].slot)'
        BY DEF MarkedIsDone
      <4>1. CASE q = p
        BY <3>1, <4>1
      <4>2. CASE q # p
        <5>1. proc'[q] = proc[q]
          BY <3>1, <4>2
        <5>2. ASSUME NEW s, Done(q, s) PROVE s \in Minutes /\ (fired'[s] > 0 \/ s \in proc'[q].new)
          BY <3>2, <3>3, <5>1, <5>2 DEF Done
        <5> QED
          BY <5>1, <5>2 DEF MarkedIsDone, Done
      <4> QED
        BY <4>1, <4>2
    <3> QED
      BY <3>4, <3>5, <3>6, <3>7
  <2>14. ASSUME NEW p \in Procs, BreakDeadlock(p) PROVE J'
    <3>1. CASE Drops(p, proc[p].slot)
      BY <2>0, <2>1, <2>14, <3>1 DEF BreakDeadlock, Drops, Proc
    <3>2. ASSUME NEW q \in Procs, proc' = [proc EXCEPT ![q] = Idle] PROVE J'
      BY <2>0, <2>1, <2>14, <3>2 DEF BreakDeadlock, Idle
    <3> QED
      BY <2>14, <3>1, <3>2 DEF BreakDeadlock
  <2>15. ASSUME NEW s \in Minutes, LockExpires(s) PROVE J'
    BY <2>1, <2>15 DEF LockExpires
  <2> QED
    BY <2>2, <2>3, <2>4, <2>5, <2>6, <2>7, <2>8, <2>9, <2>10, <2>11, <2>12, <2>13, <2>14, <2>15
    DEF Next, Step
<1> QED
  BY <1>1, <1>2, AlwaysTyped, PTL DEF Spec, Exact

(* However instances and operators interleave, crash and deadlock, a slot   *)
(* has one TaskRun at most and last_planned_at names a slot that has one.   *)
THEOREM TriggersAreExact == Spec => [](FiredOnce /\ LastWasFired)
<1>1. Exact => FiredOnce /\ LastWasFired
  BY DEF Exact
<1> QED
  BY <1>1, AlwaysExact, PTL

-----------------------------------------------------------------------------
(* One instance in order                                                    *)

\* An instance that is not deployed does nothing, and an operator marks nothing.
OnlyDeployedMark ==
  \A p \in Procs \ deployed :
    /\ proc[p].mark = 0 /\ proc[p].phase \notin {"mark", "flush"}
    /\ p \in Instances => proc[p].phase = "idle"

\* The lock of a slot is held by an instance that triggers it.
HeldWhileTriggering ==
  SharedLock =>
    \A s \in Minutes : holder[s] # Nobody =>
      /\ holder[s] \in deployed
      /\ proc[holder[s]].phase = "trigger" /\ proc[holder[s]].slot = s

\* An iteration works through its plan upwards from last_planned_at.
Upwards(p) ==
  /\ proc[p].phase = "idle" => proc[p].mark = 0
  /\ \A t \in proc[p].plan : last < t /\ proc[p].mark < t
  /\ proc[p].mark # 0 => last < proc[p].mark
  /\ proc[p].phase \in {"trigger", "mark", "flush"} =>
       last < proc[p].slot /\ \A t \in proc[p].plan : proc[p].slot <= t
  /\ proc[p].phase \in {"mark", "flush"} => proc[p].slot \notin proc[p].plan

\* Where the iteration is, or will be.
Reached(p, t) ==
  \/ t \in proc[p].plan \/ t = proc[p].mark
  \/ proc[p].phase \in {"trigger", "mark", "flush"} /\ t = proc[p].slot

\* No slot between last_planned_at and there is left out.
Gapless(p) ==
  Policy = "catch_up_limited" /\ last # 0 =>
    \A s \in Cron, t \in Minutes :
      last < s /\ s <= t /\ Reached(p, t) => s \in proc[p].plan \/ Done(p, s)

\* There is a first mark as soon as there is one.
FirstKept == last = 0 <=> first = 0

\* What an undisturbed instance keeps.
InOrder ==
  /\ OnlyDeployedMark /\ HeldWhileTriggering /\ FirstKept /\ NothingPassedOver
  /\ \A p \in deployed : Upwards(p) /\ Gapless(p)

(* The plan of an iteration has the oldest due slots: with one of them it   *)
(* has every due slot before it.                                            *)
LEMMA PlannedOldestFirst ==
  ASSUME Policy = "catch_up_limited", clock \in Minutes,
         NEW t \in PlannedSlots, NEW s \in DueSlots, s <= t
  PROVE  s \in PlannedSlots
<1> DEFINE Before(u) == {v \in DueSlots : v < u}
<1>1. IsFiniteSet(DueSlots)
  <2>1. IsFiniteSet(1..LastMinute)
    BY SchedulerAssumption, FS_Interval
  <2> QED
    BY <2>1, PlannedTyped, FS_Subset DEF Minutes
<1>2. IsFiniteSet(Before(t))
  BY <1>1, FS_Subset
<1>3. t \in DueSlots /\ Cardinality(Before(t)) < MisfireLimit
  BY DEF PlannedSlots
<1>4. Before(s) \subseteq Before(t)
  <2>1. DueSlots \subseteq Nat /\ s \in Nat /\ t \in Nat
    BY <1>3, PlannedTyped, SchedulerAssumption DEF Minutes
  <2>2. \A v \in DueSlots : v < s => v < t
    BY <2>1
  <2> QED
    BY <2>2
<1>5. /\ IsFiniteSet(Before(s)) /\ Cardinality(Before(s)) \in Nat
      /\ Cardinality(Before(t)) \in Nat /\ Cardinality(Before(s)) <= Cardinality(Before(t))
  BY <1>2, <1>4, FS_Subset, FS_CardinalityType
<1>6. Cardinality(Before(s)) < MisfireLimit
  <2> HIDE DEF Before
  <2> QED
    BY <1>3, <1>5, SchedulerAssumption
<1> QED
  BY <1>6 DEF PlannedSlots

(* A step of another process, or one that only frees locks, keeps what the  *)
(* instance has reached.                                                    *)
LEMMA SameIteration ==
  ASSUME NEW p \in deployed, Upwards(p) /\ Gapless(p), last' = last, proc'[p] = proc[p],
         \A s \in Minutes : fired[s] > 0 => fired'[s] > 0
  PROVE  (Upwards(p) /\ Gapless(p))'
<1>2. Upwards(p)'
  BY DEF Upwards
<1>3. \A s : Done(p, s) => s \in Minutes /\ (fired'[s] > 0 \/ s \in proc'[p].new)
  BY DEF Done
<1> QED
  BY <1>2, <1>3 DEF Gapless, Reached, Done

(* Going back to idle keeps it, too.                                        *)
LEMMA IdleIteration ==
  ASSUME NEW p \in deployed, proc'[p] = Idle
  PROVE  (Upwards(p) /\ Gapless(p))'
<1>1. /\ proc'[p].phase = "idle" /\ proc'[p].plan = {} /\ proc'[p].mark = 0
  BY DEF Idle
<1>2. 0 \notin Minutes
  BY SchedulerAssumption DEF Minutes
<1> QED
  BY <1>1, <1>2 DEF Upwards, Gapless, Reached

(* The slot is passed over by no undisturbed instance, and last_planned_at  *)
(* never goes back.                                                         *)
LEMMA InOrderStep ==
  ASSUME Typed, FiredOnce, LastWasFired, LastWasFired', MarkedIsDone, InOrder,
         [Next]_vars, Undisturbed'
  PROVE  InOrder' /\ last' >= last
<1>0. /\ fired \in [Minutes -> Nat] /\ proc \in [Procs -> Proc] /\ holder \in [Minutes -> Procs \cup {Nobody}]
      /\ last \in 0..LastMinute /\ LastMinute \in Nat /\ deployed \subseteq Instances
      /\ clock \in Minutes /\ crashes \in Nat /\ faults \in Nat
      /\ 0 \notin Minutes /\ Nobody \notin Procs /\ Instances \cap Operators = {}
      /\ Cron \subseteq Minutes /\ Instances \subseteq Procs /\ Minutes \subseteq Nat
  BY SchedulerAssumption DEF Typed, TypeOK, Minutes, Procs
<1>1. /\ \A p, q \in deployed : p = q
      /\ faults' = 0
      /\ SharedLock => crashes' = 0
      /\ deployed' = deployed
  <2>1. deployed' = deployed
    BY DEF Next, Step, vars, Tick, Plan, PlanSkipped, Begins, RunOnce, Acquire, TriggerRaises, Trigger,
       MarkGet, MarkFlush, MarkRefused, Commit, BreakDeadlock, Crash, LockExpires
  <2> QED
    BY <2>1 DEF Undisturbed
\* A step that commits nothing.
<1>2. ASSUME last' = last, first' = first, fired' = fired,
             OnlyDeployedMark', HeldWhileTriggering',
             \A p \in deployed : (Upwards(p) /\ Gapless(p))'
      PROVE  InOrder' /\ last' >= last
  BY <1>0, <1>1, <1>2 DEF InOrder, FirstKept, NothingPassedOver
\* A step that takes one process to idle.
<1>3. ASSUME NEW q \in Procs, proc' = [proc EXCEPT ![q] = Idle],
             UNCHANGED <<last, first, fired, holder>>,
             SharedLock => proc[q].phase # "trigger"
      PROVE  InOrder' /\ last' >= last
  <2>1. /\ proc'[q] = Idle /\ Idle.phase = "idle" /\ Idle.mark = 0
        /\ \A p \in Procs \ {q} : proc'[p] = proc[p]
    BY <1>0, <1>3 DEF Idle
  <2>2. OnlyDeployedMark'
    BY <1>1, <2>1 DEF OnlyDeployedMark, InOrder
  <2>3. HeldWhileTriggering'
    BY <1>0, <1>1, <1>3, <2>1 DEF HeldWhileTriggering, InOrder
  <2>4. ASSUME NEW p \in deployed PROVE (Upwards(p) /\ Gapless(p))'
    <3>1. CASE p = q
      BY <2>1, <3>1, IdleIteration
    <3>2. CASE p # q
      <4>1. proc'[p] = proc[p] /\ fired' = fired /\ last' = last /\ Upwards(p) /\ Gapless(p)
        BY <1>0, <1>3, <2>1, <3>2 DEF InOrder
      <4>2. \A s \in Minutes : fired[s] > 0 => fired'[s] > 0
        BY <1>0, <4>1
      <4> QED
        BY <1>0, <4>1, <4>2, SameIteration
    <3> QED
      BY <3>1, <3>2
  <2> QED
    BY <1>2, <1>3, <2>2, <2>3, <2>4
\* A step of one process q that changes its plan or phase.
<1>4. ASSUME NEW q \in Procs, UNCHANGED <<last, first, fired>>,
             \A p \in Procs \ {q} : proc'[p] = proc[p],
             q \notin deployed =>
               /\ proc'[q].mark = 0 /\ proc'[q].phase \notin {"mark", "flush"} /\ q \notin Instances,
             HeldWhileTriggering',
             q \in deployed => (Upwards(q) /\ Gapless(q))'
      PROVE  InOrder' /\ last' >= last
  <2>1. OnlyDeployedMark'
    BY <1>1, <1>4 DEF OnlyDeployedMark, InOrder
  <2>2. ASSUME NEW p \in deployed PROVE (Upwards(p) /\ Gapless(p))'
    <3>1. CASE p = q
      BY <1>4, <3>1
    <3>2. CASE p # q
      <4>1. proc'[p] = proc[p] /\ fired' = fired /\ last' = last /\ Upwards(p) /\ Gapless(p)
        BY <1>0, <1>4, <3>2 DEF InOrder
      <4>2. \A s \in Minutes : fired[s] > 0 => fired'[s] > 0
        BY <1>0, <4>1
      <4> QED
        BY <1>0, <4>1, <4>2, SameIteration
    <3> QED
      BY <3>1, <3>2
  <2> QED
    BY <1>2, <1>4, <2>1, <2>2
\* A process that is in no trigger holds no lock.
<1>5. ASSUME NEW q \in Procs, \A p \in Procs \ {q} : proc'[p] = proc[p],
             proc[q].phase # "trigger" \/ Releases(q), proc[q].phase # "trigger" => holder' = holder
      PROVE  HeldWhileTriggering'
  <2> SUFFICES ASSUME SharedLock, NEW s \in Minutes, holder'[s] # Nobody
               PROVE  /\ holder'[s] \in deployed
                      /\ proc'[holder'[s]].phase = "trigger" /\ proc'[holder'[s]].slot = s
    BY <1>1 DEF HeldWhileTriggering
  <2>1. holder[s] # Nobody => /\ holder[s] \in deployed
                              /\ proc[holder[s]].phase = "trigger" /\ proc[holder[s]].slot = s
    BY DEF InOrder, HeldWhileTriggering
  <2>2. holder'[s] = holder[s]
    BY <1>0, <1>5, <2>1 DEF Releases
  <2>3. holder[s] # q
    BY <1>0, <1>5, <2>1, <2>2 DEF Releases
  <2> QED
    BY <1>0, <1>5, <2>1, <2>2, <2>3
<1>6. CASE UNCHANGED vars
  BY <1>0, <1>1, <1>6 DEF vars, InOrder, OnlyDeployedMark, HeldWhileTriggering, FirstKept, NothingPassedOver,
     Upwards, Gapless, Reached, Done
<1>7. CASE Tick
  <2>1. UNCHANGED <<last, first, fired, holder, proc, deployed>>
    BY <1>7 DEF Tick
  <2>2. OnlyDeployedMark' /\ HeldWhileTriggering'
    BY <2>1 DEF InOrder, OnlyDeployedMark, HeldWhileTriggering
  <2>3. \A p \in deployed : (Upwards(p) /\ Gapless(p))'
    BY <2>1 DEF InOrder, Upwards, Gapless, Reached, Done
  <2> QED
    BY <1>2, <2>1, <2>2, <2>3
<1>8. ASSUME NEW s \in Minutes, LockExpires(s) PROVE InOrder' /\ last' >= last
  <2>1. HeldWhileTriggering'
    BY <1>0, <1>1, <1>8 DEF LockExpires, InOrder, HeldWhileTriggering
  <2>2. OnlyDeployedMark'
    BY <1>1, <1>8 DEF LockExpires, InOrder, OnlyDeployedMark
  <2>3. \A p \in deployed : (Upwards(p) /\ Gapless(p))'
    BY <1>8 DEF LockExpires, InOrder, Upwards, Gapless, Reached, Done
  <2> QED
    BY <1>2, <1>8, <2>1, <2>2, <2>3 DEF LockExpires
<1>9. ASSUME NEW p \in Procs, NEW ph \in {"slots", "mark"}, NEW s \in 0..LastMinute, Begins(p, ph, s),
             ph = "slots" \/ (Policy = "skip" /\ s \in DueSlots /\ clock \notin DueSlots)
      PROVE  InOrder' /\ last' >= last
  <2>1. /\ p \in deployed /\ UNCHANGED <<last, first, fired, holder>> /\ proc[p].phase = "idle"
        /\ proc'[p].phase = ph /\ proc'[p].plan = PlannedSlots /\ proc'[p].slot = s
        /\ proc'[p].mark = 0 /\ \A q \in Procs \ {p} : proc'[q] = proc[q]
    BY <1>0, <1>9 DEF Begins
  <2>2. HeldWhileTriggering'
    BY <1>5, <2>1
  <2>3. PlannedSlots \subseteq DueSlots /\ DueSlots \subseteq Minutes
    BY PlannedTyped DEF PlannedSlots
  <2>4. \A t \in DueSlots : last < t
    BY <1>0, <2>3 DEF DueSlots
  <2>5. ph = "mark" => PlannedSlots = {}
    BY <1>9 DEF PlannedSlots
  <2>6. Upwards(p)'
    <3>1. \A t \in PlannedSlots : last < t /\ 0 < t
      BY <1>0, <2>3, <2>4
    <3>2. ph = "mark" => last < s
      BY <1>9, <2>4
    <3> QED
      BY <2>1, <2>5, <3>1, <3>2, <1>9 DEF Upwards
  <2>7. Gapless(p)'
    <3> SUFFICES ASSUME Policy = "catch_up_limited", last # 0, NEW r \in Cron, NEW t \in Minutes,
                        last < r, r <= t, Reached(p, t)'
                 PROVE  r \in PlannedSlots
      BY <2>1 DEF Gapless
    <3>1. t \in PlannedSlots
      BY <1>0, <1>9, <2>1 DEF Reached
    <3>2. t <= clock /\ t \in DueSlots
      BY <2>3, <3>1 DEF DueSlots
    <3>3. r \in DueSlots
      BY <1>0, <3>2 DEF DueSlots
    <3> QED
      BY <1>0, <3>1, <3>3, PlannedOldestFirst
  <2> QED
    BY <1>4, <2>1, <2>2, <2>6, <2>7
<1>10. ASSUME NEW p \in Procs, NEW s \in Minutes, RunOnce(p, s) PROVE InOrder' /\ last' >= last
  <2>1. /\ p \in Operators /\ UNCHANGED <<last, first, fired, holder>> /\ proc[p].phase = "idle"
        /\ proc'[p].phase = "slots" /\ proc'[p].mark = 0 /\ \A q \in Procs \ {p} : proc'[q] = proc[q]
    BY <1>0, <1>10 DEF RunOnce
  <2>2. p \notin deployed /\ p \notin Instances
    BY <1>0, <2>1
  <2>3. HeldWhileTriggering'
    BY <1>5, <2>1
  <2> QED
    BY <1>4, <2>1, <2>2, <2>3
<1>11. ASSUME NEW p \in Procs, NEW s \in Minutes, Acquire(p, s) PROVE InOrder' /\ last' >= last
  <2>1. /\ proc[p].phase = "slots" /\ s \in proc[p].plan /\ \A t \in proc[p].plan : s <= t
        /\ UNCHANGED <<last, first, fired>>
    BY <1>11 DEF Acquire
  <2>2. p \in Instances => p \in deployed
    BY <2>1 DEF InOrder, OnlyDeployedMark
  <2>3. ~(SharedLock /\ p \in Instances /\ holder[s] # Nobody)
    <3> SUFFICES ASSUME SharedLock, p \in Instances, holder[s] # Nobody PROVE FALSE
      OBVIOUS
    <3>1. holder[s] \in deployed /\ proc[holder[s]].phase = "trigger"
      BY DEF InOrder, HeldWhileTriggering
    <3>2. holder[s] = p
      BY <1>1, <2>2, <3>1
    <3> QED
      BY <2>1, <3>1, <3>2
  <2>4. /\ holder' = [holder EXCEPT ![s] = IF SharedLock /\ p \in Instances THEN p ELSE @]
        /\ proc' = [proc EXCEPT ![p].phase = "trigger", ![p].slot = s]
    BY <1>11, <2>3 DEF Acquire
  <2>5. /\ proc'[p].phase = "trigger" /\ proc'[p].slot = s /\ proc'[p].plan = proc[p].plan
        /\ proc'[p].mark = proc[p].mark /\ proc'[p].new = proc[p].new
        /\ \A q \in Procs \ {p} : proc'[q] = proc[q]
    BY <1>0, <2>4 DEF Proc
  <2>6. HeldWhileTriggering'
    <3> SUFFICES ASSUME SharedLock, NEW r \in Minutes, holder'[r] # Nobody
                 PROVE  /\ holder'[r] \in deployed
                        /\ proc'[holder'[r]].phase = "trigger" /\ proc'[holder'[r]].slot = r
      BY <1>1 DEF HeldWhileTriggering
    <3>1. CASE r = s /\ p \in Instances
      BY <1>0, <2>2, <2>4, <2>5, <3>1
    <3>2. CASE ~(r = s /\ p \in Instances)
      <4>1. holder'[r] = holder[r]
        BY <1>0, <2>4, <3>2
      <4>2. /\ holder[r] \in deployed
            /\ proc[holder[r]].phase = "trigger" /\ proc[holder[r]].slot = r
        BY <4>1 DEF InOrder, HeldWhileTriggering
      <4> QED
        BY <1>0, <2>1, <2>5, <4>1, <4>2
    <3> QED
      BY <3>1, <3>2
  <2>7. ASSUME p \in deployed PROVE (Upwards(p) /\ Gapless(p))'
    <3>1. Upwards(p) /\ Gapless(p)
      BY <2>7 DEF InOrder
    <3>2. Upwards(p)'
      BY <2>1, <2>5, <3>1 DEF Upwards
    <3>3. Gapless(p)'
      BY <2>1, <2>5, <3>1 DEF Gapless, Reached, Done
    <3> QED
      BY <3>2, <3>3
  <2>8. p \notin deployed => p \notin Instances /\ proc[p].mark = 0
    BY <2>2 DEF InOrder, OnlyDeployedMark
  <2> QED
    BY <1>4, <2>1, <2>5, <2>6, <2>7, <2>8
<1>12. ASSUME NEW p \in Procs, TriggerRaises(p) PROVE FALSE
  BY <1>0, <1>1, <1>12 DEF TriggerRaises
<1>13. ASSUME NEW p \in Procs, Trigger(p) PROVE InOrder' /\ last' >= last
  <2> DEFINE s == proc[p].slot
  <2>0. s \in Minutes /\ fired[s] \in Nat
    BY <1>0, <1>13 DEF Trigger, Typed, InSlot
  <2>1. /\ proc[p].phase = "trigger" /\ UNCHANGED <<last, first, fired>> /\ Releases(p)
        /\ proc'[p].phase = (IF p \in Instances THEN "mark" ELSE "slots")
        /\ proc'[p].slot = s /\ proc'[p].mark = proc[p].mark
        /\ proc'[p].plan = proc[p].plan \ {s}
        /\ proc'[p].new = IF fired[s] = 0 THEN proc[p].new \cup {s} ELSE proc[p].new
        /\ \A q \in Procs \ {p} : proc'[q] = proc[q]
    BY <1>0, <1>13 DEF Trigger, Proc
  <2>2. HeldWhileTriggering'
    BY <1>5, <2>1
  <2> HIDE DEF s
  <2>3. ASSUME p \in deployed PROVE (Upwards(p) /\ Gapless(p))'
    <3>1. Upwards(p) /\ Gapless(p) /\ last < s /\ \A t \in proc[p].plan : s <= t
      BY <2>1, <2>3 DEF InOrder, Upwards, s
    <3>2. Upwards(p)'
      BY <2>1, <3>1 DEF Upwards
    <3>3. \A r : r \in proc[p].plan \/ Done(p, r) => r \in proc'[p].plan \/ Done(p, r)'
      BY <2>0, <2>1 DEF Done
    <3>4. \A t : Reached(p, t)' => Reached(p, t)
      BY <2>1 DEF Reached, s
    <3>5. Gapless(p)'
      BY <2>1, <3>1, <3>3, <3>4 DEF Gapless
    <3> QED
      BY <3>2, <3>5
  <2>4. p \notin deployed => p \notin Instances /\ proc[p].mark = 0
    BY <2>1 DEF InOrder, OnlyDeployedMark
  <2> QED
    BY <1>4, <2>1, <2>2, <2>3, <2>4
<1>14. ASSUME NEW p \in Procs, MarkGet(p) PROVE InOrder' /\ last' >= last
  <2>1. /\ proc[p].phase = "mark" /\ proc'[p].phase = "flush" /\ UNCHANGED <<last, first, fired, holder>>
        /\ proc'[p].slot = proc[p].slot /\ proc'[p].mark = proc[p].mark
        /\ proc'[p].plan = proc[p].plan /\ proc'[p].new = proc[p].new
        /\ \A q \in Procs \ {p} : proc'[q] = proc[q]
    BY <1>0, <1>14 DEF MarkGet, Proc
  <2>2. HeldWhileTriggering' /\ p \in deployed
    BY <1>5, <2>1 DEF InOrder, OnlyDeployedMark
  <2>3. Upwards(p) /\ Gapless(p)
    BY <2>2 DEF InOrder
  <2>4. Upwards(p)' /\ Gapless(p)'
    BY <2>1, <2>3 DEF Upwards, Gapless, Reached, Done
  <2> QED
    BY <1>4, <2>1, <2>2, <2>4
<1>15. ASSUME NEW p \in Procs, MarkFlush(p) PROVE InOrder' /\ last' >= last
  <2>1. /\ proc[p].phase = "flush" /\ proc'[p].phase = "slots" /\ UNCHANGED <<last, first, fired, holder>>
        /\ proc'[p].slot = proc[p].slot /\ proc'[p].mark = proc[p].slot
        /\ proc'[p].plan = proc[p].plan /\ proc'[p].new = proc[p].new
        /\ \A q \in Procs \ {p} : proc'[q] = proc[q]
    BY <1>0, <1>15 DEF MarkFlush, Proc
  <2>2. HeldWhileTriggering' /\ p \in deployed
    BY <1>5, <2>1 DEF InOrder, OnlyDeployedMark
  <2>3. Upwards(p) /\ Gapless(p)
    BY <2>2 DEF InOrder
  <2>31. proc[p] \in Proc /\ 0..LastMinute \subseteq Nat
    BY <1>0
  <2>32. proc[p].slot \in Nat /\ proc[p].plan \subseteq Nat
    BY <1>0, <2>31 DEF Proc
  <2>4. Upwards(p)'
    BY <2>1, <2>3, <2>32 DEF Upwards
  <2>5. Gapless(p)'
    BY <2>1, <2>3 DEF Gapless, Reached, Done
  <2> QED
    BY <1>4, <2>1, <2>2, <2>4, <2>5
<1>16. ASSUME NEW p \in Procs, MarkRefused(p) \/ Crash(p) PROVE InOrder' /\ last' >= last
  <2>1. MarkRefused(p) => proc[p].phase = "flush"
    BY DEF MarkRefused
  <2>2. Crash(p) => ~SharedLock
    BY <1>0, <1>1 DEF Crash
  <2> QED
    BY <1>3, <1>16, <2>1, <2>2 DEF MarkRefused, Crash
<1>17. ASSUME NEW p \in Procs, BreakDeadlock(p) PROVE FALSE
  <2>1. PICK q \in Procs \ {p} : proc[q].phase = "flush" /\ proc[p].mark # 0
    BY <1>17 DEF BreakDeadlock
  <2>2. p \in deployed /\ q \in deployed
    BY <2>1 DEF InOrder, OnlyDeployedMark
  <2> QED
    BY <1>1, <2>1, <2>2
<1>18. ASSUME NEW p \in Procs, Commit(p) PROVE InOrder' /\ last' >= last
  <2>1. /\ proc[p].phase = "slots" /\ proc[p].plan = {} /\ holder' = holder
        /\ last' = (IF proc[p].mark = 0 THEN last ELSE proc[p].mark)
        /\ first' = (IF first = 0 THEN last' ELSE first)
        /\ proc' = [proc EXCEPT ![p] = Idle]
    BY <1>18 DEF Commit
  <2>2. /\ \A s \in Minutes : fired'[s] = IF s \in proc[p].new THEN fired[s] + 1 ELSE fired[s]
        /\ \A s \in Minutes : fired[s] \in Nat
    BY <1>0, <1>18 DEF Commit
  <2>3. /\ proc'[p] = Idle /\ Idle.phase = "idle" /\ Idle.mark = 0
        /\ \A q \in Procs \ {p} : proc'[q] = proc[q]
    BY <1>0, <2>1 DEF Idle
  <2>4. OnlyDeployedMark'
    BY <1>1, <2>3 DEF OnlyDeployedMark, InOrder
  <2>5. HeldWhileTriggering'
    BY <1>5, <2>1, <2>3
  <2>6. proc[p].mark # 0 => p \in deployed /\ Upwards(p) /\ Gapless(p) /\ proc[p].mark \in Minutes
    BY <1>0 DEF InOrder, OnlyDeployedMark, MarkedIsDone, Proc, Minutes
  <2>7. last' >= last
    <3>1. CASE proc[p].mark = 0
      BY <1>0, <2>1, <3>1
    <3>2. CASE proc[p].mark # 0
      <4>1. last' = proc[p].mark /\ last < proc[p].mark /\ proc[p].mark \in Nat
        BY <1>0, <2>1, <2>6, <3>2 DEF Upwards
      <4> QED
        BY <1>0, <4>1
    <3> QED
      BY <3>1, <3>2
  <2>8. FirstKept'
    BY <1>0, <2>1, <2>6 DEF FirstKept, InOrder
  <2>9. NothingPassedOver'
    <3> SUFFICES ASSUME Policy = "catch_up_limited", last' # 0, NEW s \in Cron, first' <= s, s <= last'
                 PROVE  fired'[s] > 0
      BY DEF NothingPassedOver
    <3>0. s \in Minutes
      BY <1>0
    <3>1. CASE last # 0 /\ s <= last
      <4>1. first' = first /\ fired[s] > 0
        BY <2>1, <3>1 DEF InOrder, FirstKept, NothingPassedOver
      <4> QED
        BY <2>2, <3>0, <4>1
    <3>2. CASE last # 0 /\ ~(s <= last)
      <4>1. proc[p].mark # 0 /\ last' = proc[p].mark /\ last < s
        BY <1>0, <2>1, <3>0, <3>2
      <4>2. Reached(p, proc[p].mark)
        BY DEF Reached
      <4>3. Done(p, s)
        BY <2>1, <2>6, <3>2, <4>1, <4>2 DEF Gapless
      <4> QED
        BY <2>2, <4>3 DEF Done
    <3>3. CASE last = 0
      <4>1. last' = proc[p].mark /\ last' \in Minutes
        BY <2>1, <2>6, <3>3
      <4>2. CASE first = 0
        <5>1. s = last'
          BY <1>0, <2>1, <3>0, <4>1, <4>2
        <5> QED
          BY <5>1 DEF LastWasFired
      <4>3. CASE first # 0
        BY <3>3, <4>3 DEF InOrder, FirstKept
      <4> QED
        BY <4>2, <4>3
    <3> QED
      BY <3>1, <3>2, <3>3
  <2>10. ASSUME NEW q \in deployed PROVE (Upwards(q) /\ Gapless(q))'
    <3>1. CASE q = p
      BY <2>3, <3>1, IdleIteration
    <3>2. CASE q # p
      <4>1. proc[p].mark = 0 /\ last' = last /\ proc'[q] = proc[q]
        BY <1>0, <1>1, <2>1, <2>3, <2>6, <3>2
      <4>2. \A s \in Minutes : fired[s] > 0 => fired'[s] > 0
        BY <2>2
      <4>3. Upwards(q) /\ Gapless(q)
        BY DEF InOrder
      <4> QED
        BY <1>0, <4>1, <4>2, <4>3, SameIteration
    <3> QED
      BY <3>1, <3>2
  <2> QED
    BY <1>1, <2>4, <2>5, <2>7, <2>8, <2>9, <2>10 DEF InOrder
<1>19. ASSUME NEW p \in Procs, Plan(p) \/ \E s \in Minutes : PlanSkipped(p, s)
       PROVE  InOrder' /\ last' >= last
  <2>1. 0 \in 0..LastMinute /\ \A s \in Minutes : s \in 0..LastMinute
    BY <1>0 DEF Minutes
  <2> QED
    BY <1>9, <1>19, <2>1 DEF Plan, PlanSkipped
<1> QED
  BY <1>6, <1>7, <1>8, <1>10, <1>11, <1>12, <1>13, <1>14, <1>15, <1>16, <1>17, <1>18, <1>19
  DEF Next, Step

(* One instance alone takes the slots of a catch_up_limited schedule in     *)
(* order, through crashes and whatever operators trigger.                   *)
THEOREM OneTakesAllInOrder == Spec => OneInOrder
<1> DEFINE Inv == Undisturbed => InOrder
<1>1. Init => Inv
  <2> SUFFICES ASSUME Init PROVE InOrder
    OBVIOUS
  <2>1. \A p \in Procs : proc[p].phase = "idle" /\ proc[p].mark = 0 /\ proc[p].plan = {}
    BY DEF Init, Idle
  <2>2. last = 0 /\ first = 0 /\ deployed \subseteq Procs /\ \A s \in Minutes : holder[s] = Nobody
    BY DEF Init, Procs
  <2> QED
    BY <2>1, <2>2 DEF InOrder, OnlyDeployedMark, HeldWhileTriggering, FirstKept, NothingPassedOver,
       Upwards, Gapless, Init
<1>2. Undisturbed' /\ Typed /\ [Next]_vars => Undisturbed
  <2> SUFFICES ASSUME Undisturbed', Typed, [Next]_vars PROVE Undisturbed
    OBVIOUS
  <2>0. faults \in Nat /\ crashes \in Nat
    BY SchedulerAssumption DEF Typed, TypeOK
  <2>1. deployed' = deployed
    BY DEF Next, Step, vars, Tick, Plan, PlanSkipped, Begins, RunOnce, Acquire,
       TriggerRaises, Trigger, MarkGet, MarkFlush, MarkRefused, Commit, BreakDeadlock, Crash, LockExpires
  <2>2. (faults' = faults \/ faults' = faults + 1) /\ (crashes' = crashes \/ crashes' = crashes + 1)
    <3>1. ASSUME NEW p \in Procs, Step(p) PROVE faults' = faults /\ crashes' = crashes
      BY <3>1 DEF Step, Plan, PlanSkipped, Begins, Acquire, Trigger, MarkGet, MarkFlush, MarkRefused, Commit,
         BreakDeadlock
    <3>2. ASSUME NEW p \in Procs, NEW s \in Minutes, RunOnce(p, s) PROVE faults' = faults /\ crashes' = crashes
      BY <3>2 DEF RunOnce
    <3>3. ASSUME NEW p \in Procs, TriggerRaises(p) PROVE faults' = faults + 1 /\ crashes' = crashes
      BY <3>3 DEF TriggerRaises
    <3>4. ASSUME NEW p \in Procs, Crash(p) PROVE faults' = faults /\ crashes' = crashes + 1
      BY <3>4 DEF Crash
    <3> QED
      BY <3>1, <3>2, <3>3, <3>4 DEF Next, vars, Tick, LockExpires
  <2> QED
    BY <2>0, <2>1, <2>2 DEF Undisturbed
<1>3. Typed /\ Exact /\ Exact' /\ Inv /\ [Next]_vars => Inv' /\ (Undisturbed' => last' >= last /\ NothingPassedOver')
  BY <1>2, InOrderStep DEF InOrder, Exact
<1> QED
  BY <1>1, <1>3, AlwaysExact, AlwaysTyped, PTL DEF Spec, OneInOrder
=============================================================================
