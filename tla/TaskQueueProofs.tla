-------------------------- MODULE TaskQueueProofs ---------------------------
(***************************************************************************)
(* Proofs about TaskQueue for any number of tasks, workers, operators and  *)
(* attempts, and any provider.  attempt_count may be too small, because    *)
(* processes overwrite one another's rows, but it is never larger than the *)
(* number of executions: what a process holds was committed once, and      *)
(* executions are never taken back.                                        *)
(***************************************************************************)
EXTENDS TaskQueue, TLAPS

\* The part of TypeOK the argument rests on.
Typed ==
  /\ table \in [Tasks -> Row]
  /\ proc \in [Procs -> [phase : Phases, task : Tasks, row : Row]]
  /\ runs \in [Tasks -> Nat]

\* A committed row is not running, and its attempts were executed.
RowBacked(row, n) ==
  /\ row.status # "running"
  /\ row.attempts <= n
  /\ row.status = "dead_letter" => MaxAttempts <= row.attempts

TableBacked == \A t \in Tasks : RowBacked(table[t], runs[t])

\* What a process holds will be backed when it commits it.
Held(s) ==
  /\ s.phase = "loaded" => s.row.attempts <= runs[s.task]
  /\ s.phase = "handler" => s.row.attempts <= runs[s.task] + 1
  /\ s.phase = "inserted" => RowBacked(s.row, runs[s.task])
  /\ s.phase = "marked" => RowBacked(s.row, runs[s.task] + 1)

HeldBacked == \A p \in Procs : Held(proc[p])

IInv == Typed /\ TableBacked /\ HeldBacked

-----------------------------------------------------------------------------
(* The idle state is well typed: there is a task to name.                   *)
LEMMA IdleTyped ==
  /\ Idle \in [phase : Phases, task : Tasks, row : Row]
  /\ Idle.phase = "idle"
<1>1. PICK t \in Tasks : TRUE
  BY TaskAssumption
<1>2. (CHOOSE u \in Tasks : TRUE) \in Tasks
  BY <1>1
<1>3. NoRow \in Row
  BY DEF NoRow, Row, Statuses
<1> QED
  BY <1>2, <1>3 DEF Idle, Phases

(* Starting and marking keep rows well typed.                               *)
LEMMA RowsTyped ==
  ASSUME NEW row \in Row, NEW queued \in BOOLEAN
  PROVE  /\ StartedRow(row) \in Row /\ StartedRow(row).attempts = row.attempts + 1
         /\ SucceededRow(row) \in Row
         /\ FailedRow(row, queued) \in Row
<1>1. StartedRow(row) \in Row /\ StartedRow(row).attempts = row.attempts + 1
  BY DEF Row, Statuses, StartedRow
<1>2. \A st \in Statuses : [row EXCEPT !.status = st] \in Row
  BY DEF Row
<1>3. SucceededRow(row) \in Row
  BY <1>2 DEF SucceededRow, Statuses
<1>4. [row EXCEPT !.status = "pending", !.waiting = TRUE] \in Row
  BY DEF Row, Statuses
<1>5. FailedRow(row, queued) \in Row
  BY <1>2, <1>4 DEF FailedRow, Statuses
<1> QED
  BY <1>1, <1>3, <1>5

(* The initial table is empty.                                              *)
LEMMA InitIInv == Init => IInv
<1> SUFFICES ASSUME Init PROVE IInv
  OBVIOUS
<1>1. NoRow \in Row /\ RowBacked(NoRow, 0)
  BY DEF NoRow, Row, Statuses, RowBacked
<1>2. Typed
  BY <1>1, IdleTyped DEF Init, Typed
<1>3. TableBacked
  BY <1>1 DEF Init, TableBacked
<1>4. HeldBacked
  BY IdleTyped DEF Init, HeldBacked, Held
<1> QED
  BY <1>2, <1>3, <1>4 DEF IInv

(* A process that goes on, or begins, with an object that is backed, while  *)
(* the table and the executions stay as they are.                           *)
LEMMA ProcStep ==
  ASSUME IInv, NEW p \in Procs,
         NEW s \in [phase : Phases, task : Tasks, row : Row],
         Held(s), proc' = [proc EXCEPT ![p] = s], UNCHANGED <<table, runs>>
  PROVE  IInv'
<1>1. Typed'
  BY DEF IInv, Typed
<1>2. TableBacked'
  BY DEF IInv, TableBacked
<1>3. HeldBacked'
  <2> SUFFICES ASSUME NEW q \in Procs PROVE Held(proc[q])'
    BY DEF HeldBacked
  <2>1. CASE q = p
    BY <2>1 DEF IInv, Typed, Held
  <2>2. CASE q # p
    BY <2>2 DEF IInv, Typed, HeldBacked, Held
  <2> QED
    BY <2>1, <2>2
<1> QED
  BY <1>1, <1>2, <1>3 DEF IInv

(* The same for Goes, which keeps the task.                                 *)
LEMMA GoesStep ==
  ASSUME IInv, NEW p \in Procs, NEW phase \in Phases, NEW row \in Row,
         Held([phase |-> phase, task |-> proc[p].task, row |-> row]),
         Goes(p, phase, row), UNCHANGED <<table, runs>>
  PROVE  IInv'
<1> DEFINE s == [phase |-> phase, task |-> proc[p].task, row |-> row]
<1>1. s \in [phase : Phases, task : Tasks, row : Row]
  BY DEF IInv, Typed
<1>2. proc' = [proc EXCEPT ![p] = s]
  BY DEF Goes, IInv, Typed
<1> HIDE DEF s
<1>3. Held(s)
  BY DEF s
<1> QED
  BY <1>1, <1>2, <1>3, ProcStep

(* Process p ends its unit of work without having committed.                *)
LEMMA EndStep ==
  ASSUME IInv, NEW p \in Procs, AfterUnitOfWork(p), UNCHANGED <<table, runs>>
  PROVE  IInv'
<1>1. CASE Goes(p, "ack", NoRow)
  BY <1>1, GoesStep DEF Phases, NoRow, Row, Statuses, Held
<1>2. CASE proc' = [proc EXCEPT ![p] = Idle]
  BY <1>2, ProcStep, IdleTyped DEF Held
<1> QED
  BY <1>1, <1>2 DEF AfterUnitOfWork

(* A commit: the row becomes visible together with the execution it counts. *)
LEMMA CommitStep ==
  ASSUME IInv, NEW p \in Procs, Commit(p)
  PROVE  IInv'
<1> DEFINE t == proc[p].task
           r == proc[p].row
<1>0. t \in Tasks /\ r \in Row
  BY DEF IInv, Typed
<1>1. runs' \in [Tasks -> Nat] /\ \A u \in Tasks : runs[u] <= runs'[u]
  BY <1>0 DEF IInv, Typed, Commit
<1>2. table' = [table EXCEPT ![t] = r] /\ table' \in [Tasks -> Row]
  BY <1>0 DEF IInv, Typed, Commit
<1>3. RowBacked(r, runs'[t])
  <2>1. CASE proc[p].phase = "inserted"
    BY <1>0, <2>1 DEF IInv, Typed, HeldBacked, Held, Commit
  <2>2. CASE proc[p].phase = "marked"
    BY <1>0, <2>2 DEF IInv, Typed, HeldBacked, Held, Commit
  <2> QED
    BY <2>1, <2>2 DEF Commit
<1>4. TableBacked'
  <2> SUFFICES ASSUME NEW u \in Tasks PROVE RowBacked(table'[u], runs'[u])
    BY DEF TableBacked, RowBacked
  <2>1. CASE u = t
    BY <1>0, <1>2, <1>3, <2>1 DEF IInv, Typed
  <2>2. CASE u # t
    <3>1. table'[u] = table[u]
      BY <1>2, <2>2 DEF IInv, Typed
    <3>2. table[u].attempts \in Nat /\ runs[u] \in Nat /\ runs'[u] \in Nat /\ runs[u] <= runs'[u]
      BY <1>1 DEF IInv, Typed, Row
    <3>3. RowBacked(table[u], runs[u])
      BY DEF IInv, TableBacked
    <3> QED
      BY <3>1, <3>2, <3>3 DEF RowBacked
  <2> QED
    BY <2>1, <2>2
<1>5. PICK s \in [phase : {"ack", "idle"}, task : Tasks, row : Row] :
        proc' = [proc EXCEPT ![p] = s]
  <2> DEFINE a == [phase |-> "ack", task |-> t, row |-> NoRow]
  <2>1. CASE Goes(p, "ack", NoRow)
    <3>1. NoRow \in Row
      BY DEF NoRow, Row, Statuses
    <3>2. proc' = [proc EXCEPT ![p] = a]
      BY <2>1 DEF Goes
    <3>3. a \in [phase : {"ack", "idle"}, task : Tasks, row : Row]
      BY <1>0, <3>1
    <3> HIDE DEF a
    <3> QED
      BY <3>2, <3>3
  <2>2. CASE proc' = [proc EXCEPT ![p] = Idle]
    BY <2>2, IdleTyped
  <2> QED
    BY <2>1, <2>2 DEF Commit, AfterUnitOfWork
<1>6. Typed'
  BY <1>1, <1>2, <1>5 DEF IInv, Typed, Phases
<1>7. HeldBacked'
  <2> SUFFICES ASSUME NEW q \in Procs PROVE Held(proc[q])'
    BY DEF HeldBacked
  <2>1. CASE q = p
    BY <1>5, <2>1 DEF IInv, Typed, Held
  <2>2. CASE q # p
    <3>1. proc'[q] = proc[q] /\ Held(proc[q])
      BY <1>5, <2>2 DEF IInv, Typed, HeldBacked
    <3>2. proc[q].task \in Tasks /\ proc[q].row.attempts \in Nat
      BY DEF IInv, Typed, Row
    <3>3. runs[proc[q].task] \in Nat /\ runs'[proc[q].task] \in Nat
          /\ runs[proc[q].task] <= runs'[proc[q].task]
      BY <1>1, <3>2 DEF IInv, Typed
    <3> QED
      BY <3>1, <3>2, <3>3 DEF Held, RowBacked
  <2> QED
    BY <2>1, <2>2
<1> QED
  BY <1>4, <1>6, <1>7 DEF IInv

(* A step that changes rows but neither objects nor executions, and keeps   *)
(* every row backed.                                                        *)
LEMMA TableStep ==
  ASSUME IInv, table' \in [Tasks -> Row], UNCHANGED <<proc, runs>>,
         \A t \in Tasks : RowBacked(table'[t], runs[t])
  PROVE  IInv'
  BY DEF IInv, Typed, TableBacked, HeldBacked, Held, RowBacked

(* Every step preserves the invariant.                                      *)
LEMMA NextIInv == IInv /\ [Next]_vars => IInv'
<1> SUFFICES ASSUME IInv, [Next]_vars PROVE IInv'
  OBVIOUS
<1> USE DEF Procs
<1>T. \A p \in Procs : proc[p] \in [phase : Phases, task : Tasks, row : Row]
  BY DEF IInv, Typed
<1>B. \A t \in Tasks : table[t] \in Row /\ RowBacked(table[t], runs[t]) /\ runs[t] \in Nat
  BY DEF IInv, Typed, TableBacked
<1>1. ASSUME NEW c \in Clients, NEW t \in Tasks, Submit(c, t) PROVE IInv'
  <2>1. NoRow \in Row /\ [NoRow EXCEPT !.status = "pending"] \in Row
    BY DEF NoRow, Row, Statuses
  <2>2. CASE provider = "sync"
    <3> DEFINE s == [phase |-> "handler", task |-> t, row |-> StartedRow(NoRow)]
    <3>1. s \in [phase : Phases, task : Tasks, row : Row]
      BY <2>1, RowsTyped DEF Phases
    <3>2. Held(s)
      BY <1>B DEF Held, StartedRow, NoRow, RowBacked
    <3>3. proc' = [proc EXCEPT ![c] = s] /\ UNCHANGED <<table, runs>>
      BY <1>1, <2>2 DEF Submit, Begins
    <3> HIDE DEF s
    <3> QED
      BY <3>1, <3>2, <3>3, ProcStep
  <2>3. CASE provider # "sync"
    <3> DEFINE s == [phase |-> "inserted", task |-> t, row |-> [NoRow EXCEPT !.status = "pending"]]
    <3>1. s \in [phase : Phases, task : Tasks, row : Row]
      BY <2>1 DEF Phases
    <3>2. Held(s)
      BY <1>B DEF Held, NoRow, RowBacked
    <3>3. proc' = [proc EXCEPT ![c] = s] /\ UNCHANGED <<table, runs>>
      BY <1>1, <2>3 DEF Submit, Begins
    <3> HIDE DEF s
    <3> QED
      BY <3>1, <3>2, <3>3, ProcStep
  <2> QED
    BY <2>2, <2>3
<1>2. ASSUME NEW p \in Procs, NEW t \in Tasks, Begins(p, t, "loaded", table[t]),
             UNCHANGED <<table, runs>>
      PROVE  IInv'
  <2> DEFINE s == [phase |-> "loaded", task |-> t, row |-> table[t]]
  <2>1. s \in [phase : Phases, task : Tasks, row : Row]
    BY <1>B DEF Phases
  <2>2. Held(s)
    BY <1>B DEF Held, RowBacked
  <2>3. proc' = [proc EXCEPT ![p] = s]
    BY <1>2 DEF Begins
  <2> HIDE DEF s
  <2> QED
    BY <1>2, <2>1, <2>2, <2>3, ProcStep
<1>3. ASSUME NEW p \in Procs, Start(p) PROVE IInv'
  <2>1. StartedRow(proc[p].row) \in Row
        /\ StartedRow(proc[p].row).attempts = proc[p].row.attempts + 1
    BY <1>T, RowsTyped
  <2>2. proc[p].row.attempts <= runs[proc[p].task] /\ proc[p].row.attempts \in Nat
        /\ runs[proc[p].task] \in Nat
    BY <1>3, <1>T DEF Start, IInv, Typed, HeldBacked, Held, Row
  <2>3. Held([phase |-> "handler", task |-> proc[p].task, row |-> StartedRow(proc[p].row)])
    BY <2>1, <2>2 DEF Held
  <2> QED
    BY <1>3, <2>1, <2>3, GoesStep DEF Start, Phases
<1>4. ASSUME NEW p \in Procs, proc[p].phase = "handler"
      PROVE  proc[p].row.attempts <= runs[proc[p].task] + 1
             /\ proc[p].row.attempts \in Nat /\ proc[p].row \in Row
  BY <1>4, <1>T DEF IInv, HeldBacked, Held, Row
<1>5. ASSUME NEW p \in Procs, HandlerSucceeds(p) PROVE IInv'
  <2>1. SucceededRow(proc[p].row) \in Row
    BY <1>T, RowsTyped
  <2>2. RowBacked(SucceededRow(proc[p].row), runs[proc[p].task] + 1)
    BY <1>4, <1>5 DEF HandlerSucceeds, RowBacked, SucceededRow, Row
  <2>3. Held([phase |-> "marked", task |-> proc[p].task, row |-> SucceededRow(proc[p].row)])
    BY <2>2 DEF Held
  <2> QED
    BY <1>5, <2>1, <2>3, GoesStep DEF HandlerSucceeds, Phases
<1>6. ASSUME NEW p \in Procs, HandlerFails(p) PROVE IInv'
  <2> DEFINE q == p \in Workers /\ provider = "database"
             r == FailedRow(proc[p].row, q)
  <2>1. r \in Row
    BY <1>T, RowsTyped
  <2>2. RowBacked(r, runs[proc[p].task] + 1)
    BY <1>4, <1>6, TaskAssumption DEF HandlerFails, RowBacked, FailedRow, Exhausted, Row
  <2>3. Held([phase |-> "marked", task |-> proc[p].task, row |-> r])
    BY <2>2 DEF Held
  <2>4. Goes(p, "marked", r) /\ UNCHANGED <<table, runs>>
    BY <1>6 DEF HandlerFails
  <2> HIDE DEF r
  <2> QED
    BY <2>1, <2>3, <2>4, GoesStep DEF Phases
<1>7. ASSUME NEW p \in Procs, HandlerPoisons(p) PROVE IInv'
  <2> DEFINE q == p \in Workers /\ provider = "database"
             r == FailedRow(proc[p].row, q)
  <2>1. r \in Row
    BY <1>T, RowsTyped
  <2>2. Goes(p, "poisoned", r) /\ UNCHANGED <<table, runs>>
    BY <1>7 DEF HandlerPoisons
  <2> HIDE DEF r
  <2>3. Held([phase |-> "poisoned", task |-> proc[p].task, row |-> r])
    BY DEF Held
  <2> QED
    BY <2>1, <2>2, <2>3, GoesStep DEF Phases
<1>8. ASSUME NEW p \in Procs, RollBack(p) PROVE IInv'
  BY <1>8, EndStep DEF RollBack
<1>9. ASSUME NEW p \in Procs, proc' = [proc EXCEPT ![p] = Idle], UNCHANGED <<table, runs>>
      PROVE  IInv'
  <2>1. Held(Idle)
    BY IdleTyped DEF Held
  <2> QED
    BY <1>9, <2>1, IdleTyped, ProcStep
<1>10. ASSUME NEW p \in Procs, Work(p) PROVE IInv'
  BY <1>3, <1>5, <1>6, <1>7, <1>8, <1>9, <1>10, CommitStep DEF Work, Acknowledge
<1>11. ASSUME NEW w \in Workers, Step(w) PROVE IInv'
  <2>1. CASE Work(w)
    BY <1>10, <2>1
  <2>2. CASE ClaimNextPending(w)
    BY <1>2, <2>2 DEF ClaimNextPending
  <2>3. ASSUME NEW t \in Tasks, Receive(w, t) PROVE IInv'
    BY <1>2, <2>3 DEF Receive
  <2>4. ASSUME NEW t \in Tasks, ReceiveNothingToDo(w, t) PROVE IInv'
    BY <2>4 DEF ReceiveNothingToDo, IInv, Typed, TableBacked, HeldBacked, Held, RowBacked
  <2> QED
    BY <1>11, <2>1, <2>2, <2>3, <2>4 DEF Step
<1>12. ASSUME NEW o \in Operators, NEW t \in Tasks, RetryLoad(o, t) PROVE IInv'
  BY <1>2, <1>12 DEF RetryLoad
<1>13. ASSUME NEW p \in Procs, Crash(p) PROVE IInv'
  BY <1>9, <1>13 DEF Crash
<1>14. ASSUME NEW t \in Tasks, BackoffElapsed(t) PROVE IInv'
  <2>1. table' \in [Tasks -> Row]
    BY <1>14, <1>B DEF BackoffElapsed, IInv, Typed, Row
  <2>2. \A u \in Tasks : RowBacked(table'[u], runs[u])
    BY <1>14, <1>B DEF BackoffElapsed, IInv, Typed, RowBacked, Row
  <2> QED
    BY <1>14, <2>1, <2>2, TableStep DEF BackoffElapsed
<1>15. ASSUME RecoverStaleRunning PROVE IInv'
  <2>1. table' = table
    BY <1>15, <1>B DEF RecoverStaleRunning, RowBacked, IInv, Typed
  <2> QED
    BY <1>15, <1>B, <2>1, TableStep DEF RecoverStaleRunning, IInv, Typed
<1>16. ASSUME CancelCommit PROVE IInv'
  <2>1. \A u \in Tasks : table'[u] = table[u]
             \/ table'[u] = [table[u] EXCEPT !.status = "cancelled", !.waiting = FALSE]
    BY <1>16 DEF CancelCommit
  <2>2. \A u \in Tasks : table'[u] \in Row /\ RowBacked(table'[u], runs[u])
    <3> SUFFICES ASSUME NEW u \in Tasks PROVE table'[u] \in Row /\ RowBacked(table'[u], runs[u])
      OBVIOUS
    <3> DEFINE c == [table[u] EXCEPT !.status = "cancelled", !.waiting = FALSE]
    <3>1. c \in Row /\ c.status = "cancelled" /\ c.attempts = table[u].attempts
      BY <1>B DEF Row, Statuses
    <3>2. RowBacked(c, runs[u])
      BY <1>B, <3>1 DEF RowBacked
    <3> QED
      BY <1>B, <2>1, <3>1, <3>2
  <2>3. table' \in [Tasks -> Row]
    BY <1>16, <2>2 DEF CancelCommit
  <2> QED
    BY <1>16, <2>2, <2>3, TableStep DEF CancelCommit
<1>17. ASSUME UNCHANGED <<table, proc, runs>> PROVE IInv'
  BY <1>17 DEF IInv, Typed, TableBacked, HeldBacked, Held, RowBacked
<1>18. CASE Next
  <2>1. ASSUME NEW t \in Tasks, CancelUpdate(t) PROVE IInv'
    BY <1>17, <2>1 DEF CancelUpdate
  <2>2. CASE CancelLoad
    BY <1>17, <2>2 DEF CancelLoad
  <2> QED
    BY <1>1, <1>10, <1>11, <1>12, <1>13, <1>14, <1>15, <1>16, <1>18, <2>1, <2>2 DEF Next
<1>19. CASE UNCHANGED vars
  BY <1>17, <1>19 DEF vars
<1> QED
  BY <1>18, <1>19

(* The invariant always holds.                                              *)
THEOREM AlwaysBacked == Spec => []IInv
<1> QED
  BY InitIInv, NextIInv, PTL DEF Spec

(* No committed row is running, for any number of workers and crashes.      *)
THEOREM NeverLeftRunningHolds == Spec => []NeverLeftRunning
<1>1. IInv => NeverLeftRunning
  BY DEF IInv, TableBacked, RowBacked, NeverLeftRunning
<1> QED
  BY <1>1, AlwaysBacked, PTL

(* Every dead letter has been executed max_attempts times.                  *)
THEOREM DeadLetterIsEarned == Spec => []DeadLetterEarned
<1>1. IInv => DeadLetterEarned
  BY TaskAssumption DEF IInv, Typed, Row, TableBacked, RowBacked, DeadLetterEarned
<1> QED
  BY <1>1, AlwaysBacked, PTL

-----------------------------------------------------------------------------
(* Executions when no row is worked on twice at once                        *)

\* The statuses a worker or an operator starts a task from.
From(p) ==
  IF p \in Operators THEN {"failed", "dead_letter"}
  ELSE IF provider = "celery" THEN {"pending", "failed", "dead_letter"} ELSE {"pending"}

\* A client inserts a row that nobody else sees.
ClientSound(c, s) ==
  s.phase # "idle" =>
    /\ s.phase \in {"inserted", "handler", "marked", "poisoned"}
    /\ lock[s.task] = c /\ table[s.task].status = "none"

\* A worker or an operator works on the row as it is in the table.
LoaderSound(p, s) ==
  /\ s.phase # "inserted"
  /\ s.phase \in {"loaded", "handler", "marked", "poisoned"} => table[s.task].status \in From(p)
  /\ p \in Workers \ loops => s.phase = "idle"
  /\ s.phase = "ack" => provider = "celery"
  /\ p \in Operators /\ s.phase # "idle" =>
       provider # "celery" /\ runs[s.task] + 1 <= MaxAttempts + retries
  /\ p \in Workers /\ s.phase # "idle" /\ provider = "celery" =>
       s.task \notin messages /\ table[s.task].status # "none"

\* The object counts from the row of the table.
CountsOn(s) ==
  /\ s.phase = "inserted" => s.row.status = "pending" /\ s.row.attempts = 0
  /\ s.phase = "loaded" => s.row.attempts = table[s.task].attempts
  /\ s.phase \in {"handler", "marked"} => s.row.attempts = table[s.task].attempts + 1
  /\ s.phase = "marked" =>
       /\ s.row.status \in {"pending", "failed", "dead_letter", "succeeded"}
       /\ s.row.status = "pending" => s.row.attempts < MaxAttempts

Sound(p, s) ==
  /\ CountsOn(s)
  /\ p \in Clients => ClientSound(p, s)
  /\ p \notin Clients => LoaderSound(p, s)

\* A message has one receiver, and only Celery sends any.
OneReceiver ==
  IF provider = "celery"
  THEN \A v, w \in Workers :
         v # w /\ proc[v].phase # "idle" /\ proc[w].phase # "idle" => proc[v].task # proc[w].task
  ELSE messages = {}

\* attempt_count is the number of executions, which max_attempts bounds.
Counted(t) ==
  /\ table[t].attempts = runs[t]
  /\ table[t].status = "none" => runs[t] = 0
  /\ table[t].status = "pending" => runs[t] < MaxAttempts
  /\ provider # "celery" => runs[t] <= MaxAttempts + retries

ExclusiveInv ==
  /\ \A p \in Procs : Sound(p, proc[p])
  /\ OneReceiver
  /\ \A t \in Tasks : Counted(t)

\* What else is typed.
Bounds ==
  /\ MaxAttempts \in Nat \ {0} /\ retries \in Nat
  /\ lock \in [Tasks -> Procs \cup {NoProc, "deletion"}]

(* No two processes work on the same task.                                  *)
LEMMA OneWorksOn ==
  ASSUME Typed, Exclusive, ExclusiveInv, NEW p \in Procs, NEW q \in Procs, p # q,
         proc[p].phase # "idle", proc[q].phase # "idle"
  PROVE  proc[p].task # proc[q].task
<1> SUFFICES ASSUME proc[p].task = proc[q].task PROVE FALSE
  OBVIOUS
<1>1. \A x \in Procs : x \notin Clients => x \in Workers \/ x \in Operators
  BY DEF Procs
<1>2. ASSUME NEW x \in Procs, x \notin Clients, proc[x].phase # "idle"
      PROVE  /\ table[proc[x].task].status # "none"
             /\ provider = "celery" => x \in Workers
             /\ provider # "celery" => table[proc[x].task].status \in From(x)
             /\ x \in Operators \/ x \in loops
  <2>1. LoaderSound(x, proc[x])
    BY <1>2 DEF ExclusiveInv, Sound
  <2>2. proc[x].phase \in Phases
    BY DEF Typed
  <2>3. \A st \in From(x) : st # "none"
    BY DEF From
  <2> QED
    BY <1>1, <1>2, <2>1, <2>2, <2>3 DEF LoaderSound, Phases
<1>3. ASSUME NEW x \in Clients, proc[x].phase # "idle"
      PROVE  lock[proc[x].task] = x /\ table[proc[x].task].status = "none"
  BY <1>3 DEF ExclusiveInv, Sound, ClientSound, Procs
<1>4. CASE p \in Clients /\ q \in Clients
  BY <1>3, <1>4
<1>5. CASE (p \in Clients) # (q \in Clients)
  BY <1>2, <1>3, <1>5
<1>6. CASE p \notin Clients /\ q \notin Clients
  <2>1. CASE provider = "celery"
    BY <1>2, <1>6, <2>1 DEF ExclusiveInv, OneReceiver
  <2>2. CASE provider # "celery"
    <3>1. /\ table[proc[p].task].status \in From(p) /\ table[proc[p].task].status \in From(q)
          /\ p \in Operators \/ p \in loops
          /\ q \in Operators \/ q \in loops
      BY <1>2, <1>6, <2>2
    <3>2. CASE p \in Operators /\ q \in Operators
      BY <2>2, <3>2 DEF Exclusive
    <3>3. CASE p \in loops /\ q \in loops
      BY <2>2, <3>3 DEF Exclusive
    <3>4. CASE (p \in Operators) # (q \in Operators)
      BY <2>2, <3>1, <3>4 DEF From
    <3> QED
      BY <3>1, <3>2, <3>3, <3>4
  <2> QED
    BY <2>1, <2>2
<1> QED
  BY <1>4, <1>5, <1>6

(* A process that does not move stays sound, if its row, its lock and its   *)
(* message are left alone.                                                  *)
LEMMA StaysSound ==
  ASSUME Typed, Bounds, NEW q \in Procs, Sound(q, proc[q]), proc'[q] = proc[q],
         provider' = provider, loops' = loops,
         retries' = retries \/ retries' = retries + 1,
         proc[q].phase # "idle" =>
           /\ table'[proc[q].task].status = table[proc[q].task].status
           /\ table'[proc[q].task].attempts = table[proc[q].task].attempts
           /\ runs'[proc[q].task] = runs[proc[q].task]
           /\ lock[proc[q].task] = q => lock'[proc[q].task] = q
           /\ q \in Workers /\ provider = "celery" /\ proc[q].task \notin messages => proc[q].task \notin messages'
  PROVE  Sound(q, proc[q])'
<1>0. /\ runs[proc[q].task] \in Nat /\ retries \in Nat /\ MaxAttempts \in Nat
      /\ retries' \in Nat /\ retries <= retries'
      /\ From(q)' = From(q)
  BY DEF Typed, Bounds, From
<1>1. CountsOn(proc[q])'
  BY DEF Sound, CountsOn
<1>2. q \in Clients => ClientSound(q, proc[q])'
  BY DEF Sound, ClientSound
<1>3. q \notin Clients => LoaderSound(q, proc[q])'
  <2> SUFFICES ASSUME q \notin Clients PROVE LoaderSound(q, proc[q])'
    OBVIOUS
  <2>1. LoaderSound(q, proc[q])
    BY DEF Sound
  <2>2. q \in Operators /\ proc[q].phase # "idle" => runs'[proc[q].task] + 1 <= MaxAttempts + retries'
    BY <1>0, <2>1 DEF LoaderSound
  <2> QED
    BY <1>0, <2>1, <2>2 DEF LoaderSound
<1> QED
  BY <1>1, <1>2, <1>3 DEF Sound

(* One process moves and commits nothing.                                   *)
LEMMA OneMoves ==
  ASSUME Typed, Bounds, Exclusive, ExclusiveInv, NEW p \in Procs,
         \A q \in Procs \ {p} : proc'[q] = proc[q],
         UNCHANGED <<table, runs, provider, loops>>,
         retries' = retries \/ retries' = retries + 1,
         \A q \in Procs \ {p} : proc[q].phase # "idle" =>
           /\ lock[proc[q].task] = q => lock'[proc[q].task] = q
           /\ q \in Workers /\ provider = "celery" /\ proc[q].task \notin messages => proc[q].task \notin messages',
         provider # "celery" => messages' = {},
         Sound(p, proc[p])',
         p \in Workers /\ provider = "celery" /\ proc'[p].phase # "idle" =>
           \A w \in Workers \ {p} : proc[w].phase # "idle" => proc[w].task # proc'[p].task
  PROVE  ExclusiveInv'
<1>1. ASSUME NEW q \in Procs PROVE Sound(q, proc[q])'
  <2>1. CASE q = p
    BY <2>1
  <2>2. CASE q # p
    <3>1. Sound(q, proc[q]) /\ proc'[q] = proc[q]
      BY <2>2 DEF ExclusiveInv
    <3> QED
      BY <2>2, <3>1, StaysSound
  <2> QED
    BY <2>1, <2>2
<1>2. OneReceiver'
  BY DEF ExclusiveInv, OneReceiver, Procs
<1>3. ASSUME NEW t \in Tasks PROVE Counted(t)'
  <2>1. Counted(t) /\ runs[t] \in Nat /\ retries \in Nat /\ retries' \in Nat /\ retries <= retries'
        /\ MaxAttempts \in Nat
    BY DEF ExclusiveInv, Typed, Bounds
  <2>2. runs[t] <= MaxAttempts + retries => runs[t] <= MaxAttempts + retries'
    BY <2>1
  <2> QED
    BY <2>1, <2>2 DEF Counted
<1> QED
  BY <1>1, <1>2, <1>3 DEF ExclusiveInv

(* Nobody moves, and the rows keep status and count.                        *)
LEMMA NoneMoves ==
  ASSUME Typed, Bounds, Exclusive, ExclusiveInv,
         UNCHANGED <<proc, runs, provider, loops, lock, retries>>,
         messages' \subseteq messages,
         \A t \in Tasks : table'[t].status = table[t].status /\ table'[t].attempts = table[t].attempts
  PROVE  ExclusiveInv' /\ KeepsSucceeded
<1>0. \A q \in Procs : proc[q].task \in Tasks
  BY DEF Typed
<1>1. ASSUME NEW q \in Procs PROVE Sound(q, proc[q])'
  <2>1. Sound(q, proc[q])
    BY DEF ExclusiveInv
  <2> QED
    BY <1>0, <2>1, StaysSound
<1>2. OneReceiver'
  BY DEF ExclusiveInv, OneReceiver
<1>3. \A t \in Tasks : Counted(t)'
  BY DEF ExclusiveInv, Counted
<1> QED
  BY <1>1, <1>2, <1>3 DEF ExclusiveInv, KeepsSucceeded

(* A commit replaces a row that has not succeeded, by one that counts the   *)
(* execution.                                                               *)
LEMMA ExclusiveCommit ==
  ASSUME IInv, Bounds, Exclusive, ExclusiveInv, NEW p \in Procs, Commit(p)
  PROVE  ExclusiveInv' /\ KeepsSucceeded
<1> DEFINE t == proc[p].task
           r == proc[p].row
<1>0. /\ t \in Tasks /\ r \in Row /\ Typed /\ Sound(p, proc[p])
      /\ proc[p].phase \in {"inserted", "marked"} /\ proc[p].phase # "idle"
      /\ UNCHANGED <<provider, messages, retries, loops>>
  BY DEF IInv, Typed, Commit, ExclusiveInv
<1>1. table' = [table EXCEPT ![t] = r] /\ table \in [Tasks -> Row]
  BY <1>0 DEF Typed, Commit
<1>2. /\ runs'[t] = IF proc[p].phase = "marked" THEN runs[t] + 1 ELSE runs[t]
      /\ \A u \in Tasks \ {t} : runs'[u] = runs[u]
      /\ runs[t] \in Nat
  BY <1>0 DEF Typed, Commit
<1>3. /\ \A q \in Procs \ {p} : proc'[q] = proc[q]
      /\ \/ proc'[p].phase = "idle"
         \/ /\ provider = "celery" /\ p \in Workers
            /\ proc'[p].phase = "ack" /\ proc'[p].task = t
  <2>1. CASE provider = "celery" /\ p \in Workers
    BY <1>0, <2>1 DEF Typed, Goes, Commit, AfterUnitOfWork
  <2>2. CASE ~(provider = "celery" /\ p \in Workers)
    BY <1>0, <2>2, IdleTyped DEF Typed, Commit, AfterUnitOfWork
  <2> QED
    BY <2>1, <2>2
<1>4. /\ p \in Clients => table[t].status = "none"
      /\ p \notin Clients => table[t].status \in From(p) /\ proc[p].phase = "marked"
  BY <1>0 DEF Sound, ClientSound, LoaderSound
<1>5. table[t].status # "succeeded"
  BY <1>4 DEF From
<1>6. /\ r.attempts = runs'[t]
      /\ r.status \in {"pending", "failed", "dead_letter", "succeeded"}
      /\ r.status = "pending" => runs'[t] < MaxAttempts
  <2>1. Counted(t) /\ CountsOn(proc[p]) /\ MaxAttempts \in Nat \ {0}
    BY <1>0 DEF ExclusiveInv, Sound, Bounds
  <2>2. CASE proc[p].phase = "inserted"
    <3>1. runs[t] = 0
      BY <1>0, <1>4, <2>1, <2>2 DEF Counted
    <3> QED
      BY <1>2, <2>1, <2>2, <3>1 DEF CountsOn
  <2>3. CASE proc[p].phase = "marked"
    BY <1>2, <2>1, <2>3 DEF CountsOn, Counted
  <2> QED
    BY <1>0, <2>2, <2>3
<1>7. provider # "celery" => runs'[t] <= MaxAttempts + retries
  <2> SUFFICES ASSUME provider # "celery" PROVE runs'[t] <= MaxAttempts + retries
    OBVIOUS
  <2>1. Counted(t) /\ MaxAttempts \in Nat \ {0} /\ retries \in Nat
    BY <1>0 DEF ExclusiveInv, Bounds
  <2>2. CASE p \in Clients
    BY <1>2, <1>4, <2>1, <2>2 DEF Counted
  <2>3. CASE p \in Operators /\ p \notin Clients
    <3>1. runs[t] + 1 <= MaxAttempts + retries
      BY <1>0, <2>3 DEF Sound, LoaderSound
    <3> QED
      BY <1>2, <2>1, <3>1
  <2>4. CASE p \notin Operators /\ p \notin Clients
    <3>1. runs[t] < MaxAttempts
      BY <1>4, <2>1, <2>4 DEF From, Counted
    <3> QED
      BY <1>2, <2>1, <3>1
  <2> QED
    BY <2>2, <2>3, <2>4
<1> HIDE DEF r
<1>8. \A u \in Tasks : table'[u] = IF u = t THEN r ELSE table[u]
  BY <1>0, <1>1
<1>9. ASSUME NEW u \in Tasks PROVE Counted(u)'
  <2>1. CASE u = t
    BY <1>0, <1>6, <1>7, <1>8, <2>1 DEF Counted
  <2>2. CASE u # t
    BY <1>0, <1>2, <1>8, <2>2 DEF Counted, ExclusiveInv
  <2> QED
    BY <2>1, <2>2
<1>10. ASSUME NEW q \in Procs PROVE Sound(q, proc[q])'
  <2>1. CASE q # p
    <3>1. proc[q].phase # "idle" => proc[q].task # t
      BY <1>0, <2>1, OneWorksOn
    <3>2. proc[q].task \in Tasks /\ proc'[q] = proc[q] /\ Sound(q, proc[q])
      BY <1>0, <1>3, <2>1 DEF Typed, ExclusiveInv
    <3>3. lock[proc[q].task] = q => lock'[proc[q].task] = q
      BY <2>1, <3>2 DEF Commit, Unlocks
    <3> QED
      BY <1>0, <1>2, <1>8, <3>1, <3>2, <3>3, StaysSound
  <2>2. CASE q = p
    <3>1. CountsOn(proc[p])'
      BY <1>3 DEF CountsOn
    <3>2. CASE p \in Clients
      <4>1. proc'[p].phase = "idle"
        BY <1>3, <3>2, TaskAssumption
      <4> QED
        BY <2>2, <3>1, <3>2, <4>1 DEF Sound, ClientSound
    <3>3. CASE p \notin Clients /\ proc'[p].phase = "idle"
      BY <2>2, <3>1, <3>3 DEF Sound, LoaderSound
    <3>4. CASE p \notin Clients /\ proc'[p].phase # "idle"
      <4>1. /\ provider = "celery" /\ p \in Workers /\ p \notin Operators
            /\ proc'[p].phase = "ack" /\ proc'[p].task = t
        BY <1>3, <3>4, TaskAssumption
      <4>2. p \in loops /\ t \notin messages
        BY <1>0, <3>4, <4>1 DEF Sound, LoaderSound
      <4>3. table'[t].status # "none"
        BY <1>0, <1>6, <1>8
      <4> QED
        BY <1>0, <2>2, <3>1, <3>4, <4>1, <4>2, <4>3 DEF Sound, LoaderSound
    <3> QED
      BY <3>2, <3>3, <3>4
  <2> QED
    BY <2>1, <2>2
<1>11. OneReceiver'
  <2>1. \A w \in Workers \ {p} : proc'[w] = proc[w]
    BY <1>3 DEF Procs
  <2>2. \A w \in Workers \ {p} : proc[w].phase # "idle" => proc[w].task # t
    BY <1>0, OneWorksOn DEF Procs
  <2> QED
    BY <1>0, <1>3, <2>1, <2>2 DEF ExclusiveInv, OneReceiver
<1>12. KeepsSucceeded
  BY <1>5, <1>8 DEF KeepsSucceeded
<1> QED
  BY <1>9, <1>10, <1>11, <1>12 DEF ExclusiveInv

(* The deletion does not begin while the row is exclusive, and Celery's     *)
(* operators do not retry.                                                  *)
LEMMA ExclusiveBefore ==
  ASSUME IInv, retries \in Nat, [Next]_vars, Exclusive'
  PROVE  /\ Exclusive /\ UNCHANGED <<provider, loops>>
         /\ retries' = retries \/ retries' = retries + 1
         /\ provider = "celery" => retries' = retries
<1> USE DEF Procs
<1>1. ASSUME NEW w \in Procs, Step(w)
      PROVE  UNCHANGED <<provider, loops, retries, cancel>>
  BY <1>1 DEF Step, Work, ClaimNextPending, Receive, ReceiveNothingToDo, Start, HandlerSucceeds,
     HandlerFails, HandlerPoisons, Commit, RollBack, Acknowledge
<1>2. /\ UNCHANGED <<provider, loops>>
      /\ retries' = retries \/ retries' = retries + 1
      /\ cancel'.phase = "none" => cancel.phase = "none"
  <2>1. ASSUME NEW p \in Procs, Work(p) PROVE Step(p)
    BY <2>1 DEF Step
  <2>2. ASSUME NEW c \in Clients, NEW t \in Tasks, Submit(c, t)
        PROVE  UNCHANGED <<provider, loops, retries, cancel>>
    BY <2>2 DEF Submit
  <2>3. ASSUME NEW o \in Operators, NEW t \in Tasks, RetryLoad(o, t)
        PROVE  UNCHANGED <<provider, loops, cancel>> /\ retries' = retries + 1
    BY <2>3 DEF RetryLoad
  <2>4. ASSUME NEW p \in Procs, Crash(p) PROVE UNCHANGED <<provider, loops, retries, cancel>>
    BY <2>4 DEF Crash
  <2>5. ASSUME NEW t \in Tasks, BackoffElapsed(t) PROVE UNCHANGED <<provider, loops, retries, cancel>>
    BY <2>5 DEF BackoffElapsed
  <2>6. ASSUME NEW t \in Tasks, CancelUpdate(t)
        PROVE  UNCHANGED <<provider, loops, retries>> /\ cancel'.phase = cancel.phase
    BY <2>6 DEF CancelUpdate
  <2>7. ASSUME CancelLoad \/ CancelCommit
        PROVE  UNCHANGED <<provider, loops, retries>> /\ cancel'.phase # "none"
    <3>1. CASE CancelLoad
      BY <3>1 DEF CancelLoad
    <3>2. CASE CancelCommit
      BY <3>2 DEF CancelCommit
    <3> QED
      BY <2>7, <3>1, <3>2
  <2>8. ASSUME RecoverStaleRunning PROVE UNCHANGED <<provider, loops, retries, cancel>>
    BY <2>8 DEF RecoverStaleRunning
  <2>9. ASSUME UNCHANGED vars PROVE UNCHANGED <<provider, loops, retries, cancel>>
    BY <2>9 DEF vars
  <2> QED
    BY <1>1, <2>1, <2>2, <2>3, <2>4, <2>5, <2>6, <2>7, <2>8, <2>9 DEF Next
<1> QED
  BY <1>2 DEF Exclusive

(* Every step of an exclusive history keeps what has succeeded and the      *)
(* count of attempts.                                                       *)
LEMMA ExclusiveStep ==
  ASSUME IInv, Bounds, ExclusiveInv, [Next]_vars, Exclusive'
  PROVE  ExclusiveInv' /\ KeepsSucceeded
<1> USE DEF Procs
<1>0. /\ Typed /\ Exclusive /\ UNCHANGED <<provider, loops>>
      /\ retries' = retries \/ retries' = retries + 1
      /\ provider = "celery" => retries' = retries
  BY ExclusiveBefore DEF Bounds, IInv
<1>T. \A p \in Procs : /\ proc[p] \in [phase : Phases, task : Tasks, row : Row]
                       /\ Sound(p, proc[p]) /\ proc[p].task \in Tasks
  BY <1>0 DEF Typed, ExclusiveInv
<1>K. table' = table => KeepsSucceeded
  BY DEF KeepsSucceeded
<1>R. ASSUME NEW p \in Procs
      PROVE  /\ p \in Clients => p \notin Workers /\ p \notin Operators
             /\ p \in Workers => p \notin Clients /\ p \notin Operators
             /\ p # NoProc
  BY TaskAssumption
<1>1. ASSUME NEW c \in Clients, NEW t \in Tasks, Submit(c, t) PROVE ExclusiveInv' /\ KeepsSucceeded
  <2>0. /\ proc[c].phase = "idle" /\ table[t].status = "none" /\ lock[t] = NoProc
        /\ lock' = [lock EXCEPT ![t] = c]
        /\ UNCHANGED <<table, runs, retries>>
        /\ messages' = (IF provider = "celery" THEN messages \cup {t} ELSE messages)
        /\ c \in Procs
    BY <1>1 DEF Submit, Locks
  <2>1. PICK s \in [phase : Phases, task : {t}, row : Row] :
          /\ proc' = [proc EXCEPT ![c] = s]
          /\ \/ s.phase = "inserted" /\ s.row.status = "pending" /\ s.row.attempts = 0
             \/ s.phase = "handler" /\ s.row.attempts = 1
    <3> DEFINE h == [phase |-> "handler", task |-> t, row |-> StartedRow(NoRow)]
               n == [phase |-> "inserted", task |-> t, row |-> [NoRow EXCEPT !.status = "pending"]]
    <3>1. h \in [phase : Phases, task : {t}, row : Row] /\ h.phase = "handler" /\ h.row.attempts = 1
      BY DEF StartedRow, NoRow, Row, Statuses, Phases
    <3>2. /\ n \in [phase : Phases, task : {t}, row : Row] /\ n.phase = "inserted"
          /\ n.row.status = "pending" /\ n.row.attempts = 0
      BY DEF NoRow, Row, Statuses, Phases
    <3>3. proc' = [proc EXCEPT ![c] = h] \/ proc' = [proc EXCEPT ![c] = n]
      BY <1>1 DEF Submit, Begins
    <3> HIDE DEF h, n
    <3> QED
      BY <3>1, <3>2, <3>3
  <2>2. /\ proc'[c] = s /\ s.task = t /\ lock'[t] = c
        /\ \A q \in Procs \ {c} : proc'[q] = proc[q]
    BY <1>0, <2>0, <2>1 DEF Typed, Bounds
  <2>3. table[t].attempts = 0
    BY <2>0 DEF ExclusiveInv, Counted
  <2>4. Sound(c, proc[c])'
    <3>1. CountsOn(proc[c])'
      BY <2>0, <2>1, <2>2, <2>3 DEF CountsOn
    <3>2. ClientSound(c, proc[c])'
      BY <2>0, <2>1, <2>2 DEF ClientSound
    <3> QED
      BY <3>1, <3>2 DEF Sound
  <2>5. ASSUME NEW q \in Procs \ {c}, proc[q].phase # "idle"
        PROVE  /\ lock[proc[q].task] = q => lock'[proc[q].task] = q
               /\ q \in Workers /\ provider = "celery" /\ proc[q].task \notin messages => proc[q].task \notin messages'
    <3>1. lock[proc[q].task] = q => proc[q].task # t
      BY <1>R, <2>0
    <3>2. q \in Workers /\ provider = "celery" => proc[q].task # t
      <4> SUFFICES ASSUME q \in Workers, provider = "celery" PROVE table[proc[q].task].status # "none"
        BY <2>0
      <4> QED
        BY <1>R, <1>T, <2>5 DEF Sound, LoaderSound
    <3> QED
      BY <1>T, <2>0, <3>1, <3>2 DEF Bounds
  <2>6. provider # "celery" => messages' = {}
    BY <2>0 DEF ExclusiveInv, OneReceiver
  <2> QED
    BY <1>0, <1>K, <1>R, <2>0, <2>2, <2>4, <2>5, <2>6, OneMoves
\* A worker or an operator loads a row that nobody works on.
<1>2. ASSUME NEW p \in Procs, p \notin Clients, NEW t \in Tasks, Begins(p, t, "loaded", table[t]),
             UNCHANGED <<table, runs, lock>>, messages' \subseteq messages,
             table[t].status \in From(p),
             p \in Workers => p \in loops /\ (provider = "celery" => t \in messages /\ t \notin messages'),
             p \in Operators => provider # "celery" /\ retries' = retries + 1
      PROVE  ExclusiveInv' /\ KeepsSucceeded
  <2>1. /\ proc'[p].phase = "loaded" /\ proc'[p].task = t /\ proc'[p].row = table[t]
        /\ \A q \in Procs \ {p} : proc'[q] = proc[q]
    BY <1>0, <1>2 DEF Begins, Typed
  <2>2. From(p)' = From(p)
    BY <1>0 DEF From
  <2>3. \A st \in From(p) : st # "none"
    BY DEF From
  <2>4. p \in Operators => runs[t] + 1 <= MaxAttempts + retries'
    <3>1. Counted(t) /\ runs[t] \in Nat /\ MaxAttempts \in Nat /\ retries \in Nat
      BY <1>0 DEF ExclusiveInv, Bounds, Typed
    <3> QED
      BY <1>2, <3>1 DEF Counted
  <2>5. Sound(p, proc[p])'
    <3>1. CountsOn(proc[p])'
      BY <1>2, <2>1 DEF CountsOn
    <3>2. LoaderSound(p, proc[p])'
      BY <1>0, <1>2, <2>1, <2>2, <2>3, <2>4 DEF LoaderSound
    <3> QED
      BY <1>2, <3>1, <3>2 DEF Sound
  <2>6. p \in Workers /\ provider = "celery" =>
           \A w \in Workers \ {p} : proc[w].phase # "idle" => proc[w].task # t
    <3> SUFFICES ASSUME p \in Workers, provider = "celery", NEW w \in Workers \ {p}, proc[w].phase # "idle"
                 PROVE  proc[w].task \notin messages
      BY <1>2
    <3> QED
      BY <1>R, <1>T DEF Sound, LoaderSound
  <2>7. provider # "celery" => messages' = {}
    BY <1>2 DEF ExclusiveInv, OneReceiver
  <2> QED
    BY <1>0, <1>2, <1>K, <2>1, <2>5, <2>6, <2>7, OneMoves
\* A process goes on with its task.
<1>3. ASSUME NEW p \in Procs, NEW ph \in {"handler", "marked", "poisoned"}, NEW r \in Row, Goes(p, ph, r),
             UNCHANGED <<table, runs, messages, retries>>,
             proc[p].phase \in {"loaded", "handler"},
             r.attempts = table[proc[p].task].attempts + 1,
             ph = "marked" => /\ r.status \in {"pending", "failed", "dead_letter", "succeeded"}
                              /\ r.status = "pending" => r.attempts < MaxAttempts,
             \A q \in Procs, t \in Tasks : lock[t] = q => lock'[t] = q
      PROVE  ExclusiveInv' /\ KeepsSucceeded
  <2>1. /\ proc'[p].phase = ph /\ proc'[p].task = proc[p].task /\ proc'[p].row = r
        /\ \A q \in Procs \ {p} : proc'[q] = proc[q]
    BY <1>0, <1>3 DEF Goes, Typed
  <2>2. From(p)' = From(p)
    BY <1>0 DEF From
  <2>3. CountsOn(proc[p])'
    BY <1>3, <2>1 DEF CountsOn
  <2>4. p \in Clients => ClientSound(p, proc[p])'
    BY <1>3, <1>T, <2>1 DEF Sound, ClientSound
  <2>5. p \notin Clients => LoaderSound(p, proc[p])'
    BY <1>0, <1>3, <1>T, <2>1, <2>2 DEF Sound, LoaderSound
  <2>6. Sound(p, proc[p])'
    BY <2>3, <2>4, <2>5 DEF Sound
  <2>7. \A w \in Workers \ {p} : proc[w].phase # "idle" => proc[w].task # proc[p].task
    BY <1>0, <1>3, OneWorksOn
  <2>8. provider # "celery" => messages' = {}
    BY <1>3 DEF ExclusiveInv, OneReceiver
  <2> QED
    BY <1>0, <1>3, <1>K, <1>T, <2>1, <2>6, <2>7, <2>8, OneMoves
\* A process is done, without a commit.
<1>4. ASSUME NEW p \in Procs, \A q \in Procs \ {p} : proc'[q] = proc[q],
             UNCHANGED <<table, runs, retries>>,
             \A q \in Procs \ {p}, t \in Tasks : lock[t] = q => lock'[t] = q,
             messages' = messages \/ (provider = "celery" /\ messages' = messages \cup {proc[p].task}),
             proc[p].phase # "idle",
             \/ proc'[p].phase = "idle"
             \/ /\ proc'[p].phase = "ack" /\ proc'[p].task = proc[p].task /\ messages' = messages
                /\ p \in Workers /\ provider = "celery"
      PROVE  ExclusiveInv' /\ KeepsSucceeded
  <2>1. \A q \in Procs \ {p} : proc[q].phase # "idle" => proc[q].task # proc[p].task
    BY <1>0, <1>4, OneWorksOn
  <2>2. CountsOn(proc[p])'
    BY <1>4 DEF CountsOn
  <2>3. p \in Clients => ClientSound(p, proc[p])'
    BY <1>4, <1>R DEF ClientSound
  <2>4. p \notin Clients => LoaderSound(p, proc[p])'
    BY <1>0, <1>4, <1>R, <1>T DEF Sound, LoaderSound
  <2>5. Sound(p, proc[p])'
    BY <2>2, <2>3, <2>4 DEF Sound
  <2>6. provider # "celery" => messages' = {}
    BY <1>4 DEF ExclusiveInv, OneReceiver
  <2>7. ASSUME NEW q \in Procs \ {p}, proc[q].phase # "idle"
        PROVE  /\ lock[proc[q].task] = q => lock'[proc[q].task] = q
               /\ q \in Workers /\ provider = "celery" /\ proc[q].task \notin messages => proc[q].task \notin messages'
    BY <1>4, <1>T, <2>1, <2>7
  <2> QED
    BY <1>0, <1>4, <1>K, <2>1, <2>5, <2>6, <2>7, OneMoves
\* Freeing a process's row locks leaves the others theirs.
<1>5. ASSUME NEW p \in Procs, Unlocks(p)
      PROVE  \A q \in Procs \ {p}, t \in Tasks : lock[t] = q => lock'[t] = q
  BY <1>5 DEF Unlocks
<1>6. ASSUME NEW p \in Procs, Work(p) PROVE ExclusiveInv' /\ KeepsSucceeded
  <2> DEFINE t == proc[p].task
             row == proc[p].row
  <2>0. CountsOn(proc[p]) /\ row \in Row /\ t \in Tasks /\ MaxAttempts \in Nat \ {0}
    BY <1>T DEF Sound, Bounds
  <2>1. CASE Start(p)
    <3>1. StartedRow(row) \in Row /\ StartedRow(row).attempts = row.attempts + 1
      BY <2>0, RowsTyped
    <3>2. row.attempts = table[t].attempts
      BY <2>0, <2>1 DEF Start, CountsOn
    <3>3. \A q \in Procs, u \in Tasks : lock[u] = q => lock'[u] = q
      BY <1>R, <2>1 DEF Start, Locks, Bounds
    <3>4. Goes(p, "handler", StartedRow(row)) /\ proc[p].phase = "loaded"
          /\ UNCHANGED <<table, runs, messages, retries>>
      BY <2>1 DEF Start
    <3> QED
      BY <1>3, <3>1, <3>2, <3>3, <3>4
  <2>2. CASE HandlerSucceeds(p)
    <3>1. /\ SucceededRow(row) \in Row /\ SucceededRow(row).attempts = row.attempts
          /\ SucceededRow(row).status = "succeeded"
      BY <2>0, RowsTyped DEF SucceededRow, Row
    <3>2. row.attempts = table[t].attempts + 1
      BY <2>0, <2>2 DEF HandlerSucceeds, CountsOn
    <3>3. Goes(p, "marked", SucceededRow(row)) /\ proc[p].phase = "handler"
          /\ UNCHANGED <<table, runs, messages, retries, lock>>
      BY <2>2 DEF HandlerSucceeds
    <3> QED
      BY <1>3, <3>1, <3>2, <3>3
  <2>3. ASSUME NEW queued \in BOOLEAN
        PROVE  /\ FailedRow(row, queued) \in Row /\ FailedRow(row, queued).attempts = row.attempts
               /\ FailedRow(row, queued).status \in {"pending", "failed", "dead_letter"}
               /\ FailedRow(row, queued).status = "pending" => row.attempts < MaxAttempts
    <3>1. FailedRow(row, queued) \in Row
      BY <2>0, RowsTyped
    <3>2. row.attempts \in Nat
      BY <2>0 DEF Row
    <3> QED
      BY <2>0, <3>1, <3>2 DEF FailedRow, Exhausted, Row
  <2>4. CASE HandlerFails(p) \/ HandlerPoisons(p)
    <3> DEFINE r == FailedRow(row, p \in Workers /\ provider = "database")
    <3>1. /\ r \in Row /\ r.attempts = row.attempts
          /\ r.status \in {"pending", "failed", "dead_letter"}
          /\ r.status = "pending" => row.attempts < MaxAttempts
      BY <2>3
    <3>2. row.attempts = table[t].attempts + 1
      BY <2>0, <2>4 DEF HandlerFails, HandlerPoisons, CountsOn
    <3>3. PICK ph \in {"marked", "poisoned"} : Goes(p, ph, r)
      BY <2>4 DEF HandlerFails, HandlerPoisons
    <3>4. proc[p].phase = "handler" /\ UNCHANGED <<table, runs, messages, retries, lock>>
      BY <2>4 DEF HandlerFails, HandlerPoisons
    <3> HIDE DEF r
    <3> QED
      BY <1>3, <3>1, <3>2, <3>3, <3>4
  <2>5. CASE Commit(p)
    BY <1>0, <2>5, ExclusiveCommit
  <2>6. CASE RollBack(p)
    <3>1. /\ \A q \in Procs \ {p} : proc'[q] = proc[q]
          /\ \/ proc'[p].phase = "idle"
             \/ /\ proc'[p].phase = "ack" /\ proc'[p].task = proc[p].task
                /\ p \in Workers /\ provider = "celery"
      <4>1. CASE provider = "celery" /\ p \in Workers
        BY <1>0, <2>6, <4>1 DEF Typed, Goes, RollBack, AfterUnitOfWork
      <4>2. CASE ~(provider = "celery" /\ p \in Workers)
        BY <1>0, <2>6, <4>2, IdleTyped DEF Typed, RollBack, AfterUnitOfWork
      <4> QED
        BY <4>1, <4>2
    <3>2. /\ proc[p].phase # "idle" /\ Unlocks(p)
          /\ UNCHANGED <<table, runs, retries, messages>>
      BY <2>6 DEF RollBack
    <3> QED
      BY <1>4, <1>5, <3>1, <3>2
  <2>7. CASE Acknowledge(p)
    <3>1. proc'[p].phase = "idle" /\ \A q \in Procs \ {p} : proc'[q] = proc[q]
      BY <1>0, <2>7, IdleTyped DEF Typed, Acknowledge
    <3>2. proc[p].phase # "idle" /\ UNCHANGED <<table, runs, retries, messages, lock>>
      BY <2>7 DEF Acknowledge
    <3> QED
      BY <1>4, <3>1, <3>2
  <2> QED
    BY <1>6, <2>1, <2>2, <2>4, <2>5, <2>6, <2>7 DEF Work
<1>7. ASSUME NEW w \in Workers, Step(w) PROVE ExclusiveInv' /\ KeepsSucceeded
  <2>1. CASE ClaimNextPending(w)
    <3>1. PICK t \in Tasks : Claimable(t) /\ Begins(w, t, "loaded", table[t])
      BY <2>1 DEF ClaimNextPending
    <3>2. /\ table[t].status \in From(w) /\ provider # "celery" /\ w \in loops
          /\ UNCHANGED <<table, runs, lock, messages>>
      BY <1>R, <2>1, <3>1 DEF ClaimNextPending, Claimable, From
    <3> QED
      BY <1>2, <1>R, <3>1, <3>2
  <2>2. ASSUME NEW t \in Tasks, Receive(w, t) PROVE ExclusiveInv' /\ KeepsSucceeded
    <3>1. provider = "celery"
      BY <2>2 DEF Receive, ExclusiveInv, OneReceiver
    <3>2. /\ table[t].status \in From(w) /\ w \in loops /\ Begins(w, t, "loaded", table[t])
          /\ UNCHANGED <<table, runs, lock>> /\ messages' \subseteq messages
          /\ t \in messages /\ t \notin messages'
      BY <1>R, <2>2, <3>1 DEF Receive, From
    <3> QED
      BY <1>2, <1>R, <3>2
  <2>3. ASSUME NEW t \in Tasks, ReceiveNothingToDo(w, t) PROVE ExclusiveInv' /\ KeepsSucceeded
    <3>1. /\ UNCHANGED <<proc, runs, provider, loops, lock, retries, table>>
          /\ messages' \subseteq messages
      BY <2>3 DEF ReceiveNothingToDo
    <3> QED
      BY <1>0, <3>1, NoneMoves
  <2> QED
    BY <1>6, <1>7, <2>1, <2>2, <2>3 DEF Step
<1>8. ASSUME NEW o \in Operators, NEW t \in Tasks, RetryLoad(o, t) PROVE ExclusiveInv' /\ KeepsSucceeded
  <2>1. retries' = retries + 1 /\ provider # "celery"
    BY <1>0, <1>8 DEF RetryLoad, Bounds
  <2>2. /\ table[t].status \in From(o) /\ Begins(o, t, "loaded", table[t])
        /\ UNCHANGED <<table, runs, lock, messages>>
    BY <1>8 DEF RetryLoad, From
  <2>3. o \in Procs /\ o \notin Clients /\ o \notin Workers
    BY TaskAssumption
  <2> QED
    BY <1>2, <2>1, <2>2, <2>3
<1>9. ASSUME NEW p \in Procs, Crash(p) PROVE ExclusiveInv' /\ KeepsSucceeded
  <2>1. proc'[p].phase = "idle" /\ \A q \in Procs \ {p} : proc'[q] = proc[q]
    BY <1>0, <1>9, IdleTyped DEF Typed, Crash
  <2>2. /\ proc[p].phase # "idle" /\ Unlocks(p) /\ UNCHANGED <<table, runs, retries>>
        /\ messages' = messages \/ (provider = "celery" /\ messages' = messages \cup {proc[p].task})
    BY <1>9 DEF Crash
  <2> QED
    BY <1>4, <1>5, <2>1, <2>2
<1>10. ASSUME NEW t \in Tasks, BackoffElapsed(t) PROVE ExclusiveInv' /\ KeepsSucceeded
  <2>1. \A u \in Tasks : table'[u].status = table[u].status /\ table'[u].attempts = table[u].attempts
    BY <1>0, <1>10 DEF BackoffElapsed, Typed, Row
  <2> QED
    BY <1>0, <1>10, <2>1, NoneMoves DEF BackoffElapsed
<1>11. ASSUME RecoverStaleRunning PROVE ExclusiveInv' /\ KeepsSucceeded
  <2>1. \A u \in Tasks : table'[u] = table[u]
    BY <1>11 DEF RecoverStaleRunning, IInv, TableBacked, RowBacked
  <2> QED
    BY <1>0, <1>11, <2>1, NoneMoves DEF RecoverStaleRunning
<1>12. ASSUME CancelLoad \/ CancelCommit \/ \E t \in Tasks : CancelUpdate(t) PROVE FALSE
  BY <1>0, <1>12 DEF CancelLoad, CancelCommit, CancelUpdate, Exclusive
<1>13. CASE UNCHANGED vars
  BY <1>0, <1>13, NoneMoves DEF vars
<1> QED
  BY <1>1, <1>6, <1>7, <1>8, <1>9, <1>10, <1>11, <1>12, <1>13 DEF Next

(* Retries are counted and row locks are of tasks.                          *)
LEMMA AlwaysBounded == Spec => []Bounds
<1>1. Init => Bounds
  BY TaskAssumption DEF Init, Bounds
<1>2. Bounds /\ [Next]_vars => Bounds'
  <2> SUFFICES ASSUME Bounds, [Next]_vars PROVE Bounds'
    OBVIOUS
  <2>1. ASSUME NEW p \in Procs \cup {"deletion"}, Unlocks(p) PROVE lock' \in [Tasks -> Procs \cup {NoProc, "deletion"}]
    BY <2>1 DEF Unlocks, Bounds
  <2>2. ASSUME NEW p \in Procs \cup {"deletion"}, NEW t \in Tasks, Locks(p, t)
        PROVE  lock' \in [Tasks -> Procs \cup {NoProc, "deletion"}]
    BY <2>2 DEF Locks, Bounds
  <2>3. ASSUME NEW p \in Procs, Work(p) PROVE Bounds'
    <3>1. CASE Start(p)
      <4>1. Locks(p, proc[p].task) /\ retries' = retries
        BY <3>1 DEF Start
      <4>2. lock' \in [Tasks -> Procs \cup {NoProc, "deletion"}]
        BY <4>1 DEF Locks, Bounds
      <4> QED
        BY <4>1, <4>2 DEF Bounds
    <3>2. CASE Commit(p) \/ RollBack(p)
      BY <2>1, <3>2 DEF Commit, RollBack, Bounds
    <3>3. CASE HandlerSucceeds(p) \/ HandlerFails(p) \/ HandlerPoisons(p) \/ Acknowledge(p)
      BY <3>3 DEF HandlerSucceeds, HandlerFails, HandlerPoisons, Acknowledge, Bounds
    <3> QED
      BY <2>3, <3>1, <3>2, <3>3 DEF Work
  <2>4. ASSUME NEW w \in Workers, Step(w) PROVE Bounds'
    BY <2>3, <2>4 DEF Step, ClaimNextPending, Receive, ReceiveNothingToDo, Bounds, Procs
  <2>5. ASSUME NEW c \in Clients, NEW t \in Tasks, Submit(c, t) PROVE Bounds'
    BY <2>2, <2>5 DEF Submit, Bounds, Procs
  <2>6. ASSUME NEW o \in Operators, NEW t \in Tasks, RetryLoad(o, t) PROVE Bounds'
    BY <2>6 DEF RetryLoad, Bounds
  <2>7. ASSUME NEW p \in Procs, Crash(p) PROVE Bounds'
    BY <2>1, <2>7 DEF Crash, Bounds
  <2>8. ASSUME NEW t \in Tasks, BackoffElapsed(t) \/ CancelUpdate(t) PROVE Bounds'
    BY <2>2, <2>8 DEF BackoffElapsed, CancelUpdate, Bounds
  <2>9. CASE RecoverStaleRunning \/ CancelLoad \/ CancelCommit
    BY <2>1, <2>9 DEF RecoverStaleRunning, CancelLoad, CancelCommit, Bounds
  <2>10. CASE UNCHANGED vars
    BY <2>10 DEF vars, Bounds
  <2> QED
    BY <2>3, <2>4, <2>5, <2>6, <2>7, <2>8, <2>9, <2>10 DEF Next, Procs
<1> QED
  BY <1>1, <1>2, PTL DEF Spec

(* Rows that nobody works on twice are executed only when due, and their    *)
(* attempt_count is exact, for any number of tasks, crashes and retries.    *)
THEOREM DueExecutionsOnly == Spec => ExecutedWhenDue
<1> DEFINE Inv == Exclusive => ExclusiveInv
<1>1. Init => Inv
  <2> SUFFICES ASSUME Init PROVE ExclusiveInv
    OBVIOUS
  <2>1. \A p \in Procs : proc[p].phase = "idle"
    BY IdleTyped DEF Init
  <2>2. \A t \in Tasks : table[t].attempts = 0 /\ table[t].status = "none" /\ runs[t] = 0
    BY DEF Init, NoRow
  <2>3. retries = 0 /\ messages = {} /\ MaxAttempts \in Nat \ {0}
    BY TaskAssumption DEF Init
  <2>4. \A p \in Procs : Sound(p, proc[p])
    BY <2>1 DEF Sound, CountsOn, ClientSound, LoaderSound
  <2>5. OneReceiver
    BY <2>1, <2>3 DEF OneReceiver, Procs
  <2>6. \A t \in Tasks : Counted(t)
    BY <2>2, <2>3 DEF Counted
  <2> QED
    BY <2>4, <2>5, <2>6 DEF ExclusiveInv
<1>2. IInv /\ Bounds /\ Inv /\ [Next]_vars
        => Inv' /\ (Exclusive' => KeepsSucceeded /\ (provider # "celery" => AttemptsExact'))
  <2> SUFFICES ASSUME IInv, Bounds, Inv, [Next]_vars, Exclusive'
               PROVE  ExclusiveInv' /\ KeepsSucceeded /\ (provider # "celery" => AttemptsExact')
    OBVIOUS
  <2>1. Exclusive /\ provider' = provider
    BY ExclusiveBefore DEF Bounds
  <2>2. ExclusiveInv' /\ KeepsSucceeded
    BY <2>1, ExclusiveStep
  <2>3. provider # "celery" => AttemptsExact'
    BY <2>1, <2>2 DEF ExclusiveInv, Counted, AttemptsExact
  <2> QED
    BY <2>2, <2>3
<1> QED
  BY <1>1, <1>2, AlwaysBacked, AlwaysBounded, PTL DEF Spec, ExecutedWhenDue
=============================================================================
