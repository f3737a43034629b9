----------------------------- MODULE TaskQueue ------------------------------
(***************************************************************************)
(* Background tasks (core/tasks): the table task_runs, the three providers *)
(* that submit and execute rows of it, the worker loop, the Celery entry   *)
(* point, the operator's commands and the cancellation that belongs to the *)
(* deletion of a tenant.                                                   *)
(*                                                                         *)
(* Every process works in one unit of work: it loads a row, changes the    *)
(* loaded object and flushes UPDATE ... WHERE id = ..., which takes the    *)
(* row lock (or waits for it) and compares nothing with what was loaded.   *)
(* Other processes see the change at commit.  A handler runs inside the    *)
(* unit of work of the process that started it.                            *)
(*                                                                         *)
(* A task stands for one (tenant_id, idempotency_key), which is unique.    *)
(* next_retry_at is kept as `waiting': whether it still lies ahead.        *)
(***************************************************************************)
EXTENDS Naturals, Sequences, FiniteSets

CONSTANTS
  Tasks,          \* idempotency keys of one tenant
  Clients,        \* requests or schedulers that submit tasks
  Workers,        \* worker loops, or Celery workers
  Operators,      \* runs of `core tasks failed retry'
  Providers,      \* values of TASK_QUEUE__PROVIDER to consider
  MaxAttempts,    \* column max_attempts
  Nested,         \* tasks whose handler fails inside a unit_of_work of its own
  Deletions,      \* whether the tenant may be deleted
  MaxRetries,     \* bound: retries by operators
  MaxCrashes,     \* bound: crashes
  NoProc          \* no process

Procs == Clients \cup Workers \cup Operators

ASSUME TaskAssumption ==
  /\ Providers \subseteq {"sync", "database", "celery"} /\ Providers # {}
  /\ MaxAttempts \in Nat \ {0}
  /\ Tasks # {} /\ Nested \subseteq Tasks
  /\ Deletions \in BOOLEAN
  /\ MaxRetries \in Nat /\ MaxCrashes \in Nat
  /\ NoProc \notin Procs \cup {"deletion"} /\ "deletion" \notin Procs
  /\ Clients \cap Workers = {} /\ Clients \cap Operators = {} /\ Workers \cap Operators = {}

VARIABLES
  provider,   \* the configured provider
  table,      \* committed rows of task_runs
  order,      \* the inserted rows in the order of created_at
  lock,       \* the process with an uncommitted change of the row
  proc,       \* what each process does, and the TaskRun object it holds
  cancel,     \* the tenant deletion: its loaded rows and those it has updated
  messages,   \* Celery messages in the broker, by task
  runs,       \* history: executions of the task's handler that were committed
  retries, crashes,
  loops       \* the workers that run in this behaviour

vars == <<provider, table, order, lock, proc, cancel, messages, runs, retries, crashes, loops>>

Statuses == {"none", "pending", "running", "succeeded", "failed", "dead_letter", "cancelled"}

Row == [status : Statuses, attempts : Nat, waiting : BOOLEAN]

NoRow == [status |-> "none", attempts |-> 0, waiting |-> FALSE]

\* Where a process is; "inserted" has added a pending row, "marked" an executed
\* one, "ack" has committed and owes the broker its acknowledgement.
Phases == {"idle", "loaded", "handler", "inserted", "marked", "poisoned", "ack"}

Idle == [phase |-> "idle", task |-> CHOOSE t \in Tasks : TRUE, row |-> NoRow]

TypeOK ==
  /\ provider \in Providers
  /\ table \in [Tasks -> Row]
  /\ order \in Seq(Tasks)
  /\ lock \in [Tasks -> Procs \cup {NoProc, "deletion"}]
  /\ proc \in [Procs -> [phase : Phases, task : Tasks, row : Row]]
  /\ cancel \in [phase : {"none", "updating", "done"}, todo : SUBSET Tasks,
                 updated : SUBSET Tasks]
  /\ messages \in SUBSET Tasks
  /\ runs \in [Tasks -> Nat]
  /\ retries \in 0..MaxRetries /\ crashes \in 0..MaxCrashes
  /\ loops \subseteq Workers

Init ==
  /\ provider \in Providers
  /\ table = [t \in Tasks |-> NoRow]
  /\ order = <<>>
  /\ lock = [t \in Tasks |-> NoProc]
  /\ proc = [p \in Procs |-> Idle]
  /\ cancel = [phase |-> "none", todo |-> {}, updated |-> {}]
  /\ messages = {}
  /\ runs = [t \in Tasks |-> 0]
  /\ retries = 0 /\ crashes = 0
  /\ loops \in SUBSET Workers

-----------------------------------------------------------------------------
(* The object a process holds, and what repository.py makes of it.          *)

\* start_pending and start_retry.
StartedRow(row) == [status |-> "running", attempts |-> row.attempts + 1, waiting |-> FALSE]

\* mark_succeeded.
SucceededRow(row) == [row EXCEPT !.status = "succeeded"]

\* Mutant: the dead letter comes one attempt late.
Exhausted_Late(row) == row.attempts > MaxAttempts

\* Mutant: the dead letter comes one attempt early.
Exhausted_Early(row) == row.attempts + 1 >= MaxAttempts

Exhausted(row) == row.attempts >= MaxAttempts

\* mark_retry_pending for the loop of the database provider, else mark_failed.
FailedRow(row, queued) ==
  IF Exhausted(row) THEN [row EXCEPT !.status = "dead_letter"]
  ELSE IF queued THEN [row EXCEPT !.status = "pending", !.waiting = TRUE]
  ELSE [row EXCEPT !.status = "failed"]

\* Process p goes on with its transaction on the same task.
Goes(p, phase, row) ==
  proc' = [proc EXCEPT ![p] = [phase |-> phase, task |-> proc[p].task, row |-> row]]

\* Process p begins to work on task t.
Begins(p, t, phase, row) == proc' = [proc EXCEPT ![p] = [phase |-> phase, task |-> t, row |-> row]]

Locks(p, t) == lock' = [lock EXCEPT ![t] = p]

\* Ending a transaction of process p releases its row lock.
Unlocks(p) == lock' = [t \in Tasks |-> IF lock[t] = p THEN NoProc ELSE lock[t]]

-----------------------------------------------------------------------------
(* Submission.  A duplicate finds the row by its idempotency key and only   *)
(* returns it, so it is not an action.                                      *)

\* submit of the configured provider: insert-first (start_once, enqueue_once).
\* Celery is sent the message before the caller commits the row.
Submit(c, t) ==
  /\ proc[c].phase = "idle"
  /\ table[t].status = "none" /\ lock[t] = NoProc
  /\ Locks(c, t)
  /\ order' = Append(order, t)
  /\ IF provider = "sync"
     THEN Begins(c, t, "handler", StartedRow(NoRow))
     ELSE Begins(c, t, "inserted", [NoRow EXCEPT !.status = "pending"])
  /\ messages' = IF provider = "celery" THEN messages \cup {t} ELSE messages
  /\ UNCHANGED <<provider, table, cancel, runs, retries, crashes, loops>>

-----------------------------------------------------------------------------
(* Claiming and loading.                                                    *)

\* Mutant: a task that failed once is not picked up again.
Claimable_New(t) == table[t].status = "pending" /\ table[t].attempts = 0

Claimable(t) == table[t].status = "pending" /\ ~table[t].waiting

\* created_at of task s lies before that of task t.
Older(s, t) == \E i, j \in DOMAIN order : i < j /\ order[i] = s /\ order[j] = t

\* The worker loop: claim_next_pending selects the oldest row that is due.
ClaimNextPending(w) ==
  /\ w \in loops
  /\ provider \in {"sync", "database"}
  /\ proc[w].phase = "idle"
  /\ \E t \in Tasks :
       /\ Claimable(t)
       /\ \A s \in Tasks : Claimable(s) => ~Older(s, t)
       /\ Begins(w, t, "loaded", table[t])
  /\ UNCHANGED <<provider, table, order, lock, cancel, messages, runs, retries, crashes, loops>>

\* Mutant: a redelivered message executes the task whatever its status.
Receive_AnyStatus(w, t) ==
  /\ w \in loops
  /\ t \in messages
  /\ proc[w].phase = "idle"
  /\ table[t].status # "none"
  /\ messages' = messages \ {t}
  /\ Begins(w, t, "loaded", table[t])
  /\ UNCHANGED <<provider, table, order, lock, cancel, runs, retries, crashes, loops>>

\* run_persisted_task: a Celery worker receives the message and loads the row.
\* The message stays unacknowledged while it works (task_acks_late).
Receive(w, t) ==
  /\ w \in loops
  /\ t \in messages
  /\ proc[w].phase = "idle"
  /\ table[t].status \in {"pending", "failed", "dead_letter"}
  /\ messages' = messages \ {t}
  /\ Begins(w, t, "loaded", table[t])
  /\ UNCHANGED <<provider, table, order, lock, cancel, runs, retries, crashes, loops>>

\* The row is not there yet (require raises NOT_FOUND), or is settled and only
\* returned ("replayed"): the message is acknowledged and nothing else happens.
ReceiveNothingToDo(w, t) ==
  /\ w \in loops
  /\ t \in messages
  /\ proc[w].phase = "idle"
  /\ table[t].status \in {"none", "succeeded", "cancelled"}
  /\ messages' = messages \ {t}
  /\ UNCHANGED <<provider, table, order, lock, proc, cancel, runs, retries, crashes, loops>>

\* Mutant: the status test of start_retry is missing.
RetryLoad_AnyStatus(o, t) ==
  /\ proc[o].phase = "idle"
  /\ retries < MaxRetries
  /\ table[t].status # "none"
  /\ retries' = retries + 1
  /\ Begins(o, t, "loaded", table[t])
  /\ UNCHANGED <<provider, table, order, lock, cancel, messages, runs, crashes, loops>>

\* `core tasks failed retry': require, then the test of start_retry.
RetryLoad(o, t) ==
  /\ proc[o].phase = "idle"
  /\ retries < MaxRetries
  /\ table[t].status \in {"failed", "dead_letter"}
  /\ retries' = retries + 1
  /\ Begins(o, t, "loaded", table[t])
  /\ UNCHANGED <<provider, table, order, lock, cancel, messages, runs, crashes, loops>>

\* Mutant: a worker starts a task in a transaction of its own and commits it.
Start_Committed(p) ==
  LET t == proc[p].task IN
  /\ proc[p].phase = "loaded"
  /\ lock[t] = NoProc
  /\ table' = [table EXCEPT ![t] = StartedRow(proc[p].row)]
  /\ Locks(p, t)
  /\ Goes(p, "handler", StartedRow(proc[p].row))
  /\ UNCHANGED <<provider, order, cancel, messages, runs, retries, crashes, loops>>

\* start_pending or start_retry flushes: the row lock, then the handler is called.
Start(p) ==
  LET t == proc[p].task IN
  /\ proc[p].phase = "loaded"
  /\ lock[t] = NoProc
  /\ Locks(p, t)
  /\ Goes(p, "handler", StartedRow(proc[p].row))
  /\ UNCHANGED <<provider, table, order, cancel, messages, runs, retries, crashes, loops>>

-----------------------------------------------------------------------------
(* Execution (_execute) and the end of the unit of work.                    *)

HandlerSucceeds(p) ==
  /\ proc[p].phase = "handler"
  /\ proc[p].task \notin Nested
  /\ Goes(p, "marked", SucceededRow(proc[p].row))
  /\ UNCHANGED <<provider, table, order, lock, cancel, messages, runs, retries, crashes, loops>>

HandlerFails(p) ==
  /\ proc[p].phase = "handler"
  /\ proc[p].task \notin Nested
  /\ Goes(p, "marked", FailedRow(proc[p].row, p \in Workers /\ provider = "database"))
  /\ UNCHANGED <<provider, table, order, lock, cancel, messages, runs, retries, crashes, loops>>

\* The handler's exception leaves its nested unit_of_work, which marks the
\* surrounding one rollback_only; the provider still marks the row and returns.
HandlerPoisons(p) ==
  /\ proc[p].phase = "handler"
  /\ proc[p].task \in Nested
  /\ Goes(p, "poisoned", FailedRow(proc[p].row, p \in Workers /\ provider = "database"))
  /\ UNCHANGED <<provider, table, order, lock, cancel, messages, runs, retries, crashes, loops>>

\* A Celery worker acknowledges after the unit of work, the others are done.
AfterUnitOfWork(p) ==
  IF provider = "celery" /\ p \in Workers THEN Goes(p, "ack", NoRow)
  ELSE proc' = [proc EXCEPT ![p] = Idle]

Commit(p) ==
  LET t == proc[p].task IN
  /\ proc[p].phase \in {"inserted", "marked"}
  /\ table' = [table EXCEPT ![t] = proc[p].row]
  /\ runs' = IF proc[p].phase = "marked" THEN [runs EXCEPT ![t] = @ + 1] ELSE runs
  /\ Unlocks(p)
  /\ AfterUnitOfWork(p)
  /\ UNCHANGED <<provider, order, cancel, messages, retries, crashes, loops>>

\* A rolled-back insertion is gone.
WithoutInsert(p) ==
  LET Kept(t) == ~(lock[t] = p /\ table[t].status = "none")
  IN SelectSeq(order, Kept)

\* UnitOfWork.__aexit__ rolls back without an exception: the caller sees the
\* result, the row keeps nothing of the attempt.
RollBack(p) ==
  /\ proc[p].phase = "poisoned"
  /\ Unlocks(p)
  /\ order' = WithoutInsert(p)
  /\ AfterUnitOfWork(p)
  /\ UNCHANGED <<provider, table, cancel, messages, runs, retries, crashes, loops>>

Acknowledge(w) ==
  /\ proc[w].phase = "ack"
  /\ proc' = [proc EXCEPT ![w] = Idle]
  /\ UNCHANGED <<provider, table, order, lock, cancel, messages, runs, retries, crashes, loops>>

\* The process dies: its transaction is rolled back and its message redelivered
\* (task_reject_on_worker_lost).
Crash(p) ==
  /\ proc[p].phase # "idle"
  /\ crashes < MaxCrashes
  /\ crashes' = crashes + 1
  /\ Unlocks(p)
  /\ order' = WithoutInsert(p)
  /\ messages' = IF provider = "celery" /\ p \in Workers
                 THEN messages \cup {proc[p].task} ELSE messages
  /\ proc' = [proc EXCEPT ![p] = Idle]
  /\ UNCHANGED <<provider, table, cancel, runs, retries, loops>>

\* next_retry_at has passed.
BackoffElapsed(t) ==
  /\ table[t].waiting
  /\ table' = [table EXCEPT ![t].waiting = FALSE]
  /\ UNCHANGED <<provider, order, lock, proc, cancel, messages, runs, retries, crashes, loops>>

-----------------------------------------------------------------------------
(* Operator commands and tenant deletion that act on many rows.             *)

\* `core tasks running recover': recover_stale_running.
RecoverStaleRunning ==
  /\ Operators # {}
  /\ table' = [t \in Tasks |->
       IF table[t].status = "running" /\ lock[t] = NoProc
       THEN FailedRow(table[t], FALSE) ELSE table[t]]
  /\ UNCHANGED <<provider, order, lock, proc, cancel, messages, runs, retries, crashes, loops>>

\* cancel_for_tenant selects the unfinished rows ...
CancelLoad ==
  /\ Deletions
  /\ cancel.phase = "none"
  /\ cancel' = [phase |-> "updating", updated |-> {},
                todo |-> {t \in Tasks : table[t].status \in {"pending", "running", "failed"}}]
  /\ UNCHANGED <<provider, table, order, lock, proc, messages, runs, retries, crashes, loops>>

\* ... flushes one UPDATE by id for each of them, waiting for row locks ...
CancelUpdate(t) ==
  /\ cancel.phase = "updating"
  /\ t \in cancel.todo
  /\ lock[t] = NoProc
  /\ Locks("deletion", t)
  /\ cancel' = [cancel EXCEPT !.todo = @ \ {t}, !.updated = @ \cup {t}]
  /\ UNCHANGED <<provider, table, order, proc, messages, runs, retries, crashes, loops>>

\* ... and commits; only status and next_retry_at are written.
CancelCommit ==
  /\ cancel.phase = "updating"
  /\ cancel.todo = {}
  /\ table' = [t \in Tasks |->
       IF t \in cancel.updated
       THEN [table[t] EXCEPT !.status = "cancelled", !.waiting = FALSE] ELSE table[t]]
  /\ Unlocks("deletion")
  /\ cancel' = [phase |-> "done", todo |-> {}, updated |-> {}]
  /\ UNCHANGED <<provider, order, proc, messages, runs, retries, crashes, loops>>

-----------------------------------------------------------------------------
\* What a process does once it has begun.
Work(p) ==
  \/ Start(p) \/ HandlerSucceeds(p) \/ HandlerFails(p) \/ HandlerPoisons(p)
  \/ Commit(p) \/ RollBack(p) \/ Acknowledge(p)

Step(w) ==
  \/ Work(w)
  \/ ClaimNextPending(w)
  \/ \E t \in Tasks : Receive(w, t) \/ ReceiveNothingToDo(w, t)

Next ==
  \/ \E c \in Clients, t \in Tasks : Submit(c, t)
  \/ \E w \in Workers : Step(w)
  \/ \E o \in Operators, t \in Tasks : RetryLoad(o, t)
  \/ \E p \in Clients \cup Operators : Work(p)
  \/ \E p \in Procs : Crash(p)
  \/ \E t \in Tasks : BackoffElapsed(t) \/ CancelUpdate(t)
  \/ RecoverStaleRunning \/ CancelLoad \/ CancelCommit

Spec == Init /\ [][Next]_vars

\* Workers run, begun transactions end, handlers return and clocks advance; nobody
\* has to submit, retry, delete or crash.
Fairness ==
  /\ \A w \in Workers : WF_vars(Step(w))
  /\ \A p \in Clients \cup Operators : WF_vars(Work(p))
  /\ \A t \in Tasks : WF_vars(BackoffElapsed(t)) /\ WF_vars(CancelUpdate(t))
  /\ WF_vars(CancelCommit)

FairSpec == Spec /\ Fairness

-----------------------------------------------------------------------------
(* No crash leaves a task in "running": a row is running only inside the    *)
(* transaction that executes it, so a crashed worker's task is pending      *)
(* again and its idempotency key is never blocked.                          *)
NeverLeftRunning == \A t \in Tasks : table[t].status # "running"

(* A task is dead-lettered only after max_attempts executions, however many *)
(* workers overwrite one another's attempt_count.                           *)
DeadLetterEarned ==
  \A t \in Tasks : table[t].status = "dead_letter" => runs[t] >= MaxAttempts

(* With one worker attempt_count is the number of executions, and max_      *)
(* attempts bounds what is not an operator's retry.                         *)
AttemptsExact ==
  \A t \in Tasks :
    /\ table[t].attempts = runs[t]
    /\ runs[t] <= MaxAttempts + retries

(* "Only pending task runs can be claimed by a worker": a task that has     *)
(* succeeded is never executed again, nor by a redelivered Celery message.  *)
KeepsSucceeded ==
  \A t \in Tasks : table[t].status = "succeeded" => table'[t].status = "succeeded"

SucceededIsFinal == [][KeepsSucceeded]_vars

\* No row is worked on twice at once: Celery's messages, or one worker loop and
\* one operator, and no deletion of the tenant.
Exclusive ==
  /\ cancel.phase = "none"
  /\ \/ provider = "celery" /\ retries = 0
     \/ /\ provider # "celery"
        /\ \A v, w \in loops : v = w
        /\ \A o, p \in Operators : o = p

(* A task that has succeeded is never executed again, with one loop or with *)
(* Celery workers whose messages are redelivered (start_pending, run_task_  *)
(* run); and with one worker and one operator attempt_count counts the      *)
(* executions and max_attempts bounds them (start_retry, mark_failed).      *)
ExecutedWhenDue ==
  [][Exclusive' => KeepsSucceeded /\ (provider # "celery" => AttemptsExact')]_vars

(* "标记为 cancelled，不再被 worker 领取或人工 retry": a cancelled task stays   *)
(* cancelled.                                                               *)
CancelledIsFinal ==
  [][\A t \in Tasks : table[t].status = "cancelled" => table'[t].status = "cancelled"]_vars

(* "未完成任务必须可被标记为 cancelled": the deletion of a tenant cancels only *)
(* tasks that have not finished.                                            *)
OnlyUnfinishedCancelled ==
  [][\A t \in Tasks : table'[t].status = "cancelled" /\ table[t].status # "cancelled"
       => table[t].status \in {"pending", "running", "failed"}]_vars

(* Every submitted task is settled in the end, whatever its handler does,   *)
(* with crashes, operator retries and a deletion going on.                  *)
EventuallySettled ==
  \A t \in Tasks : table[t].status = "pending"
    ~> table[t].status \in {"succeeded", "failed", "dead_letter", "cancelled"}
=============================================================================
