--------------------------- MODULE OutboxDispatch ---------------------------
(***************************************************************************)
(* The outbox-dispatcher run loop (core/outbox/runtime.py): each iteration *)
(* claims a batch, runs the registered handlers of each event under their  *)
(* idempotency records (core/events/registry.py, side_effects.py,          *)
(* core/idempotency/store.py) and marks the events, all in ONE unit of     *)
(* work.  Nothing is visible, and no row lock is released, before its      *)
(* commit; an exception that leaves the iteration rolls everything back    *)
(* and ends the process, which a supervisor starts again.                  *)
(*                                                                         *)
(* `db' is the committed state of an event: its row and the idempotency    *)
(* records keyed by it.  A dispatcher that holds the row lock works on its *)
(* own `draft' of it.  Only calls to external systems escape a rollback.   *)
(* Time is counted in units of one event's handlers: `elapsed' is the time *)
(* since the claim's resolved_now, and the lease is LeaseUnits long.       *)
(***************************************************************************)
EXTENDS Integers, FiniteSets, FiniteSetsExt

CONSTANTS
  NEvents,        \* events 1..NEvents, in the order of created_at
  NHandlers,      \* handlers 1..NHandlers of their type, in registration order
  Dispatchers,    \* dispatcher processes
  BatchSize,      \* --batch-size
  LeaseUnits,     \* lock_seconds, in units of one event's handlers
  MaxAttempts,    \* column max_attempts
  DbErrors,       \* <<event, handler>> pairs whose handler fails with a database error
  MaxCrashes,     \* bound: crashes of dispatcher processes
  MaxReplays      \* bound: replays of one event by the operator

Events   == 1..NEvents
Handlers == 1..NHandlers

ASSUME DispatchAssumption ==
  /\ NEvents \in Nat /\ NHandlers \in Nat \ {0}
  /\ BatchSize \in Nat \ {0} /\ LeaseUnits \in Nat \ {0} /\ MaxAttempts \in Nat \ {0}
  /\ DbErrors \subseteq Events \X Handlers
  /\ MaxCrashes \in Nat /\ MaxReplays \in Nat

VARIABLES
  db,       \* committed row and idempotency records of each event
  draft,    \* the same as an open transaction sees it
  phase,    \* where each dispatcher process is
  todo,     \* candidates its claim_batch has still to try
  seen,     \* attempt_count of each event when claim_batch read the clock
  batch,    \* events it has claimed in this iteration
  done,     \* those of them it has marked
  next,     \* the next handler for the event it works on
  elapsed,  \* time since claim_batch read the clock
  called,   \* history: successful external calls of each side effect (2: or more)
  crashes, replays,
  expired   \* history: events whose records have expired

vars == <<db, draft, phase, todo, seen, batch, done, next, elapsed, called,
          crashes, replays, expired>>

RecordStatus == {"none", "succeeded", "failed"}

\* handler, effect: idempotency records; runs: committed successful runs; calls:
\* the external calls the recorded effects stand for.
Work == [status : {"absent", "pending", "publishing", "published", "failed", "dead_letter"},
         attempts : Nat,
         handler : [Handlers -> RecordStatus],
         effect : [Handlers -> RecordStatus],
         runs : [Handlers -> Nat],
         calls : [Handlers -> Nat]]

NoWork == [status |-> "absent", attempts |-> 0,
           handler |-> [h \in Handlers |-> "none"],
           effect |-> [h \in Handlers |-> "none"],
           runs |-> [h \in Handlers |-> 0],
           calls |-> [h \in Handlers |-> 0]]

\* "publishing" is never committed: an iteration marks what it claims.
TypeOK ==
  /\ db \in [Events -> Work]
  /\ \A e \in Events : db[e].status # "publishing"
  /\ draft \in [Dispatchers -> [Events -> Work]]
  /\ phase \in [Dispatchers -> {"idle", "claim", "work", "exited"}]
  /\ todo \in [Dispatchers -> SUBSET Events]
  /\ seen \in [Dispatchers -> [Events -> Nat]]
  /\ batch \in [Dispatchers -> SUBSET Events]
  /\ done \in [Dispatchers -> SUBSET Events]
  /\ next \in [Dispatchers -> 1..NHandlers + 1]
  /\ elapsed \in [Dispatchers -> Nat]
  /\ called \in [Events -> [Handlers -> 0..2]]
  /\ crashes \in 0..MaxCrashes
  /\ replays \in [Events -> 0..MaxReplays]
  /\ expired \subseteq Events

-----------------------------------------------------------------------------
(* Row locks and claiming.                                                   *)

Locked(e) == \E d \in Dispatchers : e \in batch[d]

\* Mutant: a failed event is never picked up again.
Eligible_PendingOnly(w, n) == w.status = "pending"

\* _eligible_filter, for an iteration that began when event e had n failures: a
\* failure committed since then has a next_retry_at in its future.
Eligible(w, n) == w.status = "pending" \/ (w.status = "failed" /\ w.attempts = n)

Candidates == {e \in Events : Eligible(db[e], db[e].attempts)}

\* The oldest BatchSize candidates.
FirstBatch ==
  {e \in Candidates : Cardinality({f \in Candidates : f < e}) < BatchSize}

\* The event the iteration works on: events are handled in claim order.
Current(d) == Min(batch[d] \ done[d])

\* The dispatchers that wait for a row lock of dispatcher d.
Waiting(d) ==
  {q \in Dispatchers : phase[q] = "claim" /\ todo[q] # {} /\ Min(todo[q]) \in batch[d]}

\* An iteration is over: nothing of it remains in memory or locked.
EndIteration(d, p) ==
  /\ phase' = [phase EXCEPT ![d] = p]
  /\ todo' = [todo EXCEPT ![d] = {}]
  /\ seen' = [seen EXCEPT ![d] = [e \in Events |-> 0]]
  /\ batch' = [batch EXCEPT ![d] = {}]
  /\ done' = [done EXCEPT ![d] = {}]
  /\ next' = [next EXCEPT ![d] = 1]
  /\ draft' = [draft EXCEPT ![d] = [e \in Events |-> NoWork]]

\* The unit of work rolls back; the external calls it made stay made.
RollBack(d) ==
  /\ EndIteration(d, "exited")
  /\ UNCHANGED <<db, called>>

-----------------------------------------------------------------------------
(* One handler under its idempotency record.                                 *)

\* Mutant: the side effect does not look at its record.
EffectDone_NoReplay(w, h) == [w EXCEPT !.effect[h] = "succeeded", !.calls[h] = @ + 1]

\* run_event_side_effect: a succeeded record is replayed, otherwise the external
\* system is called and, when the call returns, the record succeeds.
EffectDone(w, h) ==
  IF w.effect[h] = "succeeded" THEN w
  ELSE [w EXCEPT !.effect[h] = "succeeded", !.calls[h] = @ + 1]

\* The external call raises: the record fails.  A replayed record cannot fail.
EffectRaised(w, h) ==
  IF w.effect[h] = "succeeded" THEN w ELSE [w EXCEPT !.effect[h] = "failed"]

HandlerSucceeded(w, h) == [w EXCEPT !.handler[h] = "succeeded", !.runs[h] = @ + 1]

\* Mutant: one attempt too many.
IsDead_OneMore(w, kind) == kind = "permanent" \/ w.attempts + 1 > MaxAttempts

\* mark_failed of the idempotency record, then mark_failed of the event.
IsDead(w, kind) == kind = "permanent" \/ w.attempts + 1 >= MaxAttempts

EventFailed(w, kind) ==
  [w EXCEPT !.attempts = @ + 1,
            !.status = IF IsDead(w, kind) THEN "dead_letter" ELSE "failed"]

HandlerFailed(w, h, kind) == EventFailed([w EXCEPT !.handler[h] = "failed"], kind)

\* Mutant: a succeeded handler is run again.
Replays_Never(w, h) == FALSE

\* claim(...).outcome = "replayed".
Replays(w, h) == w.handler[h] = "succeeded"

-----------------------------------------------------------------------------
Init ==
  /\ db = [e \in Events |-> NoWork]
  /\ draft = [d \in Dispatchers |-> [e \in Events |-> NoWork]]
  /\ phase = [d \in Dispatchers |-> "idle"]
  /\ todo = [d \in Dispatchers |-> {}]
  /\ seen = [d \in Dispatchers |-> [e \in Events |-> 0]]
  /\ batch = [d \in Dispatchers |-> {}]
  /\ done = [d \in Dispatchers |-> {}]
  /\ next = [d \in Dispatchers |-> 1]
  /\ elapsed = [d \in Dispatchers |-> 0]
  /\ called = [e \in Events |-> [h \in Handlers |-> 0]]
  /\ crashes = 0
  /\ replays = [e \in Events |-> 0]
  /\ expired = {}

\* A service commits a new event.
Add(e) ==
  /\ db[e].status = "absent"
  /\ db' = [db EXCEPT ![e].status = "pending"]
  /\ UNCHANGED <<draft, phase, todo, seen, batch, done, next, elapsed, called,
                 crashes, replays, expired>>

\* A new iteration: claim_batch reads the clock and selects candidates.
Begin(d) ==
  /\ phase[d] = "idle"
  /\ FirstBatch # {}
  /\ phase' = [phase EXCEPT ![d] = "claim"]
  /\ todo' = [todo EXCEPT ![d] = FirstBatch]
  /\ seen' = [seen EXCEPT ![d] = [e \in Events |-> db[e].attempts]]
  /\ UNCHANGED <<db, draft, batch, done, next, elapsed, called, crashes, replays, expired>>

\* One claiming UPDATE, once the row lock is free.
TryClaim(d) ==
  /\ phase[d] = "claim"
  /\ todo[d] # {}
  /\ LET e == Min(todo[d])
     IN  /\ ~Locked(e)
         /\ todo' = [todo EXCEPT ![d] = @ \ {e}]
         /\ \/ /\ Eligible(db[e], seen[d][e])
               /\ batch' = [batch EXCEPT ![d] = @ \union {e}]
               /\ draft' = [draft EXCEPT ![d][e] = [db[e] EXCEPT !.status = "publishing"]]
            \/ /\ ~Eligible(db[e], seen[d][e])
               /\ UNCHANGED <<batch, draft>>
  /\ UNCHANGED <<db, phase, seen, done, next, elapsed, called, crashes, replays, expired>>

ClaimReturn(d) ==
  /\ phase[d] = "claim"
  /\ todo[d] = {}
  /\ phase' = [phase EXCEPT ![d] = "work"]
  /\ UNCHANGED <<db, draft, todo, seen, batch, done, next, elapsed, called,
                 crashes, replays, expired>>

\* The draft of the event at work becomes w, and the next handler is n.
Progress(d, w, n) ==
  /\ draft' = [draft EXCEPT ![d][Current(d)] = w]
  /\ called' = [called EXCEPT ![Current(d)] = [h \in Handlers |->
       Min({2, @[h] + (w.calls[h] - draft[d][Current(d)].calls[h])})]]
  /\ next' = [next EXCEPT ![d] = n]
  /\ UNCHANGED <<db, phase, todo, seen, batch, done, elapsed, crashes, replays, expired>>

AtHandler(d) ==
  /\ phase[d] = "work"
  /\ done[d] # batch[d]
  /\ next[d] <= NHandlers
  /\ draft[d][Current(d)].status = "publishing"

SkipHandler(d) ==
  LET w == draft[d][Current(d)]  h == next[d]
  IN  /\ AtHandler(d)
      /\ Replays(w, h)
      /\ Progress(d, w, h + 1)

\* A pair of DbErrors never gets this far.
RunHandler(d) ==
  LET w == draft[d][Current(d)]  h == next[d]
  IN  /\ AtHandler(d)
      /\ ~Replays(w, h)
      /\ <<Current(d), h>> \notin DbErrors
      /\ Progress(d, HandlerSucceeded(EffectDone(w, h), h), h + 1)

\* The handler raises, in its side effect or after it.  What it wrote before
\* stays in the session, and the event's remaining handlers do not run.
FailHandler(d, kind) ==
  LET w == draft[d][Current(d)]  h == next[d]
  IN  /\ AtHandler(d)
      /\ ~Replays(w, h)
      /\ <<Current(d), h>> \notin DbErrors
      /\ \/ Progress(d, HandlerFailed(EffectDone(w, h), h, kind), 1)
         \/ Progress(d, HandlerFailed(EffectRaised(w, h), h, kind), 1)

\* dispatch raises before any handler runs: the payload no longer fits its schema
\* (permanent), or no handler is registered (transient).
RefuseEvent(d, kind) ==
  /\ AtHandler(d)
  /\ next[d] = 1
  /\ Progress(d, EventFailed(draft[d][Current(d)], kind), 1)

\* A failed flush or statement leaves the session in a rolled-back transaction:
\* mark_failed of the record and of the event both raise, and so does the loop.
BreakSession(d) ==
  /\ AtHandler(d)
  /\ ~Replays(draft[d][Current(d)], next[d])
  /\ <<Current(d), next[d]>> \in DbErrors
  /\ RollBack(d)
  /\ elapsed' = [elapsed EXCEPT ![d] = 0]
  /\ UNCHANGED <<crashes, replays, expired>>

\* Mutant: the event is marked without waiting for its handlers.
Handled_Unawaited(d) ==
  /\ phase[d] = "work"
  /\ done[d] # batch[d]

\* The handlers of the current event have ended.
Handled(d) ==
  /\ phase[d] = "work"
  /\ done[d] # batch[d]
  /\ next[d] > NHandlers \/ draft[d][Current(d)].status # "publishing"

\* The handlers took their time, also from those who wait for this transaction
\* (counted up to one unit past the lease).
Spent(d) ==
  [q \in Dispatchers |->
     IF q \in {d} \union Waiting(d) THEN Min({elapsed[q] + 1, LeaseUnits + 1}) ELSE elapsed[q]]

\* mark_published / mark_failed within the lease.
MarkEvent(d) ==
  LET e == Current(d)
  IN  /\ Handled(d)
      /\ Spent(d)[d] <= LeaseUnits
      /\ draft' = [draft EXCEPT ![d][e].status = IF @ = "publishing" THEN "published" ELSE @]
      /\ done' = [done EXCEPT ![d] = @ \union {e}]
      /\ next' = [next EXCEPT ![d] = 1]
      /\ elapsed' = Spent(d)
      /\ UNCHANGED <<db, phase, todo, seen, batch, called, crashes, replays, expired>>

\* The lease ran out before the mark: CONFLICT ends the iteration and the loop.
MarkConflict(d) ==
  /\ Handled(d)
  /\ Spent(d)[d] > LeaseUnits
  /\ RollBack(d)
  /\ elapsed' = [Spent(d) EXCEPT ![d] = 0]
  /\ UNCHANGED <<crashes, replays, expired>>

Commit(d) ==
  /\ phase[d] = "work"
  /\ done[d] = batch[d]
  /\ db' = [e \in Events |-> IF e \in batch[d] THEN draft[d][e] ELSE db[e]]
  /\ EndIteration(d, "idle")
  /\ elapsed' = [elapsed EXCEPT ![d] = 0]
  /\ UNCHANGED <<called, crashes, replays, expired>>

Crash(d) ==
  /\ phase[d] \in {"claim", "work"}
  /\ crashes < MaxCrashes
  /\ crashes' = crashes + 1
  /\ RollBack(d)
  /\ elapsed' = [elapsed EXCEPT ![d] = 0]
  /\ UNCHANGED <<replays, expired>>

\* The supervisor starts the process again.
Restart(d) ==
  /\ phase[d] = "exited"
  /\ phase' = [phase EXCEPT ![d] = "idle"]
  /\ UNCHANGED <<db, draft, todo, seen, batch, done, next, elapsed, called,
                 crashes, replays, expired>>

\* The operator opens a dead letter again (replay_dead_letter).
Replay(e) ==
  /\ db[e].status = "dead_letter"
  /\ replays[e] < MaxReplays
  /\ ~Locked(e)
  /\ db' = [db EXCEPT ![e].status = "pending"]
  /\ replays' = [replays EXCEPT ![e] = @ + 1]
  /\ UNCHANGED <<draft, phase, todo, seen, batch, done, next, elapsed, called, crashes, expired>>

\* The records of an event outlive their expires_at: the next claim() restarts
\* them whatever their status.
Expire(e) ==
  /\ ~Locked(e)
  /\ db[e].handler # NoWork.handler
  /\ db' = [db EXCEPT ![e].handler = NoWork.handler, ![e].effect = NoWork.effect]
  /\ expired' = expired \union {e}
  /\ UNCHANGED <<draft, phase, todo, seen, batch, done, next, elapsed, called,
                 crashes, replays>>

Kinds == {"transient", "permanent"}

Step(d) ==
  \/ Begin(d) \/ TryClaim(d) \/ ClaimReturn(d)
  \/ SkipHandler(d) \/ RunHandler(d) \/ BreakSession(d)
  \/ \E kind \in Kinds : FailHandler(d, kind) \/ RefuseEvent(d, kind)
  \/ MarkEvent(d) \/ MarkConflict(d) \/ Commit(d) \/ Restart(d)

Next ==
  \/ \E d \in Dispatchers : Step(d) \/ Crash(d)
  \/ \E e \in Events : Add(e) \/ Replay(e) \/ Expire(e)

Spec == Init /\ [][Next]_vars

\* The processes run, the database answers and the supervisor restarts.
Fairness == \A d \in Dispatchers : WF_vars(Step(d))

FairSpec == Spec /\ Fairness

-----------------------------------------------------------------------------
(* An event is published only when every handler of its type has succeeded  *)
(* (dispatch runs all entries before mark_published).                       *)
PublishedMeansHandled ==
  \A e \in Events : db[e].status = "published"
    => \A h \in Handlers : db[e].runs[h] > 0

(* A handler's own writes are committed by exactly one successful run,      *)
(* through retries, crashes, rollbacks and replays of its event: the        *)
(* succeeded record and the writes share a transaction.                     *)
HandlerSucceedsOnce ==
  \A e \in Events \ expired, h \in Handlers : db[e].runs[h] <= 1

(* As long as no rollback forgets it, an external call is made once: a      *)
(* failure of the handler after the call, and every retry and replay of the *)
(* event, keep the record of the side effect.                               *)
EffectRepeatedOnlyAfterRollback ==
  \A e \in Events \ expired, h \in Handlers :
    /\ db[e].calls[h] <= 1
    /\ \A d \in Dispatchers : draft[d][e].calls[h] <= 1

(* A published event's handlers have all succeeded, also when one of them   *)
(* breaks the session (dispatch before mark_published); each has committed  *)
(* its own writes once, while its records live, and repeated its external   *)
(* call only when a rollback forgot it (run_event_side_effect).             *)
HandledOnce == PublishedMeansHandled /\ HandlerSucceedsOnce /\ EffectRepeatedOnlyAfterRollback

(* "side effect 成功后即写入 succeeded 记录 ... 下一次 outbox retry 会 replay *)
(* 该记录，不再调用外部系统": a successful call is made once.                 *)
EffectCalledOnce == \A e \in Events, h \in Handlers : called[e][h] <= 1

(* Every event is delivered or dead-lettered in the end, whatever its       *)
(* handlers do and although processes crash.                                *)
EventuallySettled ==
  \A e \in Events :
    db[e].status \in {"pending", "failed"} ~> db[e].status \in {"published", "dead_letter"}

\* The committed rows as the services and operators see them.
DeliveryState(status) ==
  CASE status = "absent" -> "absent"
    [] status = "published" -> "published"
    [] status = "dead_letter" -> "dead"
    [] OTHER -> "open"

Delivery == INSTANCE EventDelivery WITH
  state    <- [e \in Events |-> DeliveryState(db[e].status)],
  attempts <- [e \in Events |-> db[e].attempts]

(* The run loop keeps the promise of EventDelivery: a commit moves each of  *)
(* its events by one counted attempt, a rollback moves none.                *)
ImplementsDelivery == Delivery!Spec
=============================================================================
