------------------------------- MODULE Outbox -------------------------------
(***************************************************************************)
(* The outbox table and the lease protocol of OutboxRepository             *)
(* (core/outbox/repository.py): add, claim_batch, mark_published,          *)
(* mark_failed and replay_dead_letter, called by dispatcher processes and  *)
(* by operators.  Each call is a transaction of its own, committed when    *)
(* the call returns; OutboxDispatch models the run loop, which puts a      *)
(* whole iteration into one transaction.                                   *)
(*                                                                         *)
(* Every repository call reads the clock first ("resolved_now") and runs   *)
(* its SQL statements later, so the time a statement compares with may be  *)
(* stale; `at' keeps it.  The database is PostgreSQL at READ COMMITTED: an *)
(* UPDATE waits for the row lock of an open transaction and then tests its *)
(* WHERE clause on the committed row.  `claiming' holds what an open       *)
(* claim_batch has updated and not committed, `held' the OutboxEvent       *)
(* objects a process keeps in memory after the commit, with the            *)
(* claim_version and attempt_count they had then.                          *)
(***************************************************************************)
EXTENDS Integers, FiniteSets

CONSTANTS
  Events,        \* ids of the outbox events the services may add
  Dispatchers,   \* dispatcher processes
  DispatcherId,  \* the --dispatcher-id each process was started with
  Operators,     \* processes that run "outbox dead-letter replay"
  NoOne,         \* NULL of column locked_by
  BatchSize,     \* claim_batch(batch_size)
  LockSeconds,   \* claim_batch(lock_seconds)
  RetryDelay,    \* mark_failed(retry_delay_seconds)
  MaxAttempts,   \* column max_attempts
  MaxTime,       \* bound: the clock stops here
  MaxReplays     \* bound: replays of one event

\* NULL of the DateTime columns; every clock reading is >= 0.
NoTime == -1

\* The --dispatcher-id values in use; processes may share one (the CLI default).
Ids == {DispatcherId[d] : d \in Dispatchers}

ASSUME OutboxAssumption ==
  /\ BatchSize \in Nat \ {0}
  /\ LockSeconds \in Nat
  /\ RetryDelay \in Nat
  /\ MaxAttempts \in Nat \ {0}
  /\ MaxTime \in Nat
  /\ MaxReplays \in Nat
  /\ NoOne \notin Ids

VARIABLES
  now,       \* the wall clock
  row,       \* the committed rows of outbox_events
  pc,        \* what each dispatcher process is doing in the repository
  at,        \* resolved_now of its current call (0 outside a call)
  todo,      \* candidate ids its claim_batch has still to try
  claiming,  \* the rows its open claim_batch has updated (and so locked)
  held,      \* the claimed OutboxEvent objects it has in memory
  cur,       \* the objects its running mark_published / mark_failed is about
  loaded,    \* events an operator has loaded for replay and not yet flushed
  failures,  \* history: failures recorded per event
  replays    \* history: replays flushed per event

vars == <<now, row, pc, at, todo, claiming, held, cur, loaded, failures, replays>>

procVars == <<pc, at, todo, claiming, held, cur>>

Statuses == {"absent", "pending", "publishing", "published", "failed", "dead_letter"}
Kinds    == {"transient", "permanent"}
Times    == Nat \union {NoTime}

\* The columns of OutboxEvent that the protocol reads or writes.
Row == [status : Statuses, created_at : Nat, claim_version : Nat, attempt_count : Nat,
        next_retry_at : Times, locked_by : Ids \union {NoOne}, locked_until : Times]

\* An OutboxEvent object as claim_batch loaded it.
Claim == [event : Events, claim_version : Nat, attempt_count : Nat]

NoRow == [status |-> "absent", created_at |-> 0, claim_version |-> 0, attempt_count |-> 0,
          next_retry_at |-> NoTime, locked_by |-> NoOne, locked_until |-> NoTime]

TypeOK ==
  /\ now \in Nat
  /\ row \in [Events -> Row]
  /\ pc \in [Dispatchers -> {"idle", "claim", "mark"}]
  /\ at \in [Dispatchers -> Nat]
  /\ todo \in [Dispatchers -> SUBSET Events]
  /\ claiming \in [Dispatchers -> SUBSET Claim]
  /\ held \in [Dispatchers -> SUBSET Claim]
  /\ cur \in [Dispatchers -> SUBSET Claim]
  /\ loaded \in [Operators -> SUBSET Events]
  /\ failures \in [Events -> Nat]
  /\ replays \in [Events -> Nat]

-----------------------------------------------------------------------------
\* Mutant: an abandoned event is taken over without waiting for its lease.
Eligible_NoExpiry(r, t) ==
  \/ /\ r.status \in {"pending", "failed"}
     /\ r.next_retry_at <= t
     /\ r.locked_until <= t
  \/ /\ r.status = "publishing"
     /\ r.locked_until # NoTime

(* The SQL filter of the claim: retryable or abandoned at time t.  NULL     *)
(* (NoTime) never satisfies "locked_until <= now".                          *)
Eligible(r, t) ==
  \/ /\ r.status \in {"pending", "failed"}
     /\ r.next_retry_at <= t
     /\ r.locked_until <= t
  \/ /\ r.status = "publishing"
     /\ r.locked_until # NoTime
     /\ r.locked_until <= t

\* SELECT id ... ORDER BY created_at LIMIT batch_size, with ties in any order.
IsCandidateBatch(C, t) ==
  LET eligible == {e \in Events : Eligible(row[e], t)}
  IN  /\ C \subseteq eligible
      /\ \/ C = eligible
         \/ Cardinality(C) = BatchSize
      /\ Cardinality(C) <= BatchSize
      /\ \A e \in C, f \in eligible \ C : row[e].created_at <= row[f].created_at

\* An open claim_batch holds the row lock: every other UPDATE of the row waits.
Locked(e) == \E d \in Dispatchers : \E c \in claiming[d] : c.event = e

\* Mutant: claiming does not increment claim_version.
ClaimOf_SameVersion(e) ==
  [event |-> e, claim_version |-> row[e].claim_version, attempt_count |-> row[e].attempt_count]

\* The object claim_batch loads after its UPDATE of row e.
ClaimOf(e) ==
  [event |-> e,
   claim_version |-> row[e].claim_version + 1,
   attempt_count |-> row[e].attempt_count]

\* What the claiming UPDATE of process d writes, for object c.
ClaimedRow(r, c, d, t) ==
  [r EXCEPT !.status = "publishing",
            !.locked_by = DispatcherId[d],
            !.locked_until = t + LockSeconds,
            !.claim_version = c.claim_version]

\* Mutant: the completing UPDATE does not compare claim_version.
HoldsActiveLease_AnyVersion(d, c, t) ==
  LET r == row[c.event]
  IN  /\ r.status = "publishing"
      /\ r.locked_by = DispatcherId[d]
      /\ r.locked_until # NoTime
      /\ r.locked_until > t

\* The WHERE clause of the completing UPDATE: an active dispatcher lease.
HoldsActiveLease(d, c, t) ==
  LET r == row[c.event]
  IN  /\ r.status = "publishing"
      /\ r.locked_by = DispatcherId[d]
      /\ r.claim_version = c.claim_version
      /\ r.locked_until # NoTime
      /\ r.locked_until > t

PublishedRow(r) ==
  [r EXCEPT !.status = "published", !.locked_by = NoOne, !.locked_until = NoTime]

\* Mutant: one attempt too many.
IsDead_OneMore(c, kind) == kind = "permanent" \/ c.attempt_count + 1 > MaxAttempts

\* mark_failed counts from the attempt_count of the object in memory.
IsDead(c, kind) == kind = "permanent" \/ c.attempt_count + 1 >= MaxAttempts

FailedRow(r, c, kind, t) ==
  [r EXCEPT !.status = IF IsDead(c, kind) THEN "dead_letter" ELSE "failed",
            !.attempt_count = c.attempt_count + 1,
            !.next_retry_at = IF IsDead(c, kind) THEN NoTime ELSE t + RetryDelay,
            !.locked_by = NoOne,
            !.locked_until = NoTime]

-----------------------------------------------------------------------------
Init ==
  /\ now = 0
  /\ row = [e \in Events |-> NoRow]
  /\ pc = [d \in Dispatchers |-> "idle"]
  /\ at = [d \in Dispatchers |-> 0]
  /\ todo = [d \in Dispatchers |-> {}]
  /\ claiming = [d \in Dispatchers |-> {}]
  /\ held = [d \in Dispatchers |-> {}]
  /\ cur = [d \in Dispatchers |-> {}]
  /\ loaded = [o \in Operators |-> {}]
  /\ failures = [e \in Events |-> 0]
  /\ replays = [e \in Events |-> 0]

\* A service commits its business data together with a new pending event.
Add(e) ==
  /\ row[e].status = "absent"
  /\ row' = [row EXCEPT ![e].status = "pending", ![e].created_at = now]
  /\ UNCHANGED <<now, procVars, loaded, failures, replays>>

\* claim_batch reads the clock and selects its candidates.
ClaimBegin(d) ==
  /\ pc[d] = "idle"
  /\ held[d] = {}
  /\ \E C \in SUBSET Events :
       /\ IsCandidateBatch(C, now)
       /\ C # {}
       /\ todo' = [todo EXCEPT ![d] = C]
  /\ pc' = [pc EXCEPT ![d] = "claim"]
  /\ at' = [at EXCEPT ![d] = now]
  /\ UNCHANGED <<now, row, claiming, held, cur, loaded, failures, replays>>

\* One conditional UPDATE of claim_batch; rowcount 0 means another process won.
TryClaim(d, e) ==
  /\ pc[d] = "claim"
  /\ e \in todo[d]
  /\ \A f \in todo[d] : row[e].created_at <= row[f].created_at
  /\ ~Locked(e)
  /\ todo' = [todo EXCEPT ![d] = @ \ {e}]
  /\ \/ /\ Eligible(row[e], at[d])
        /\ claiming' = [claiming EXCEPT ![d] = @ \union {ClaimOf(e)}]
     \/ /\ ~Eligible(row[e], at[d])
        /\ UNCHANGED claiming
  /\ UNCHANGED <<now, row, pc, at, held, cur, loaded, failures, replays>>

\* claim_batch returns and its transaction commits: every claim at once.
ClaimCommit(d) ==
  /\ pc[d] = "claim"
  /\ todo[d] = {}
  /\ row' = [e \in Events |->
       IF ClaimOf(e) \in claiming[d] THEN ClaimedRow(row[e], ClaimOf(e), d, at[d])
                                     ELSE row[e]]
  /\ held' = [held EXCEPT ![d] = claiming[d]]
  /\ claiming' = [claiming EXCEPT ![d] = {}]
  /\ pc' = [pc EXCEPT ![d] = "idle"]
  /\ at' = [at EXCEPT ![d] = 0]
  /\ UNCHANGED <<now, todo, cur, loaded, failures, replays>>

\* The handlers of a claimed event have ended; the mark call reads the clock.
MarkBegin(d) ==
  /\ pc[d] = "idle"
  /\ \E c \in held[d] : cur' = [cur EXCEPT ![d] = {c}]
  /\ pc' = [pc EXCEPT ![d] = "mark"]
  /\ at' = [at EXCEPT ![d] = now]
  /\ UNCHANGED <<now, row, todo, claiming, held, loaded, failures, replays>>

\* The mark call is over, with this much left of the batch.
MarkReturn(d, left) ==
  /\ held' = [held EXCEPT ![d] = left]
  /\ cur' = [cur EXCEPT ![d] = {}]
  /\ pc' = [pc EXCEPT ![d] = "idle"]
  /\ at' = [at EXCEPT ![d] = 0]
  /\ UNCHANGED <<now, todo, claiming, loaded, replays>>

MarkPublished(d) ==
  /\ pc[d] = "mark"
  /\ \E c \in cur[d] :
       /\ ~Locked(c.event)
       /\ HoldsActiveLease(d, c, at[d])
       /\ row' = [row EXCEPT ![c.event] = PublishedRow(row[c.event])]
       /\ MarkReturn(d, held[d] \ {c})
  /\ UNCHANGED failures

MarkFailed(d, kind) ==
  /\ pc[d] = "mark"
  /\ \E c \in cur[d] :
       /\ ~Locked(c.event)
       /\ HoldsActiveLease(d, c, at[d])
       /\ row' = [row EXCEPT ![c.event] = FailedRow(row[c.event], c, kind, at[d])]
       /\ failures' = [failures EXCEPT ![c.event] = @ + 1]
       /\ MarkReturn(d, held[d] \ {c})

\* The lease is gone: CONFLICT leaves the dispatch loop with the rest of the batch.
MarkConflict(d) ==
  /\ pc[d] = "mark"
  /\ \E c \in cur[d] :
       /\ ~Locked(c.event)
       /\ ~HoldsActiveLease(d, c, at[d])
  /\ MarkReturn(d, {})
  /\ UNCHANGED <<row, failures>>

\* The process dies, or the database aborts it in a lock cycle: what it had not
\* committed is rolled back, its committed claims stay until their leases expire.
Crash(d) ==
  /\ held[d] # {} \/ pc[d] # "idle"
  /\ held' = [held EXCEPT ![d] = {}]
  /\ claiming' = [claiming EXCEPT ![d] = {}]
  /\ cur' = [cur EXCEPT ![d] = {}]
  /\ todo' = [todo EXCEPT ![d] = {}]
  /\ pc' = [pc EXCEPT ![d] = "idle"]
  /\ at' = [at EXCEPT ![d] = 0]
  /\ UNCHANGED <<now, row, loaded, failures, replays>>

\* Mutant: replay does not look at the status.
ReplayLoad_AnyStatus(o, e) ==
  /\ row[e].status # "absent"
  /\ replays[e] < MaxReplays
  /\ loaded' = [loaded EXCEPT ![o] = @ \union {e}]
  /\ UNCHANGED <<now, row, procVars, failures, replays>>

\* replay_dead_letter_by_id loads the row; only a dead-letter status passes.
ReplayLoad(o, e) ==
  /\ row[e].status = "dead_letter"
  /\ replays[e] < MaxReplays
  /\ loaded' = [loaded EXCEPT ![o] = @ \union {e}]
  /\ UNCHANGED <<now, row, procVars, failures, replays>>

\* The flush writes, by id alone, the columns that differ from the loaded object:
\* the status and the error texts (a dead-letter row has no retry time, no lock).
ReplayFlush(o, e) ==
  /\ e \in loaded[o]
  /\ ~Locked(e)
  /\ loaded' = [loaded EXCEPT ![o] = @ \ {e}]
  /\ row' = [row EXCEPT ![e].status = "pending"]
  /\ replays' = [replays EXCEPT ![e] = @ + 1]
  /\ UNCHANGED <<now, procVars, failures>>

Tick ==
  /\ now < MaxTime
  /\ now' = now + 1
  /\ UNCHANGED <<row, procVars, loaded, failures, replays>>

Next ==
  \/ \E e \in Events : Add(e)
  \/ \E d \in Dispatchers : ClaimBegin(d)
  \/ \E d \in Dispatchers, e \in Events : TryClaim(d, e)
  \/ \E d \in Dispatchers : ClaimCommit(d)
  \/ \E d \in Dispatchers : MarkBegin(d)
  \/ \E d \in Dispatchers : MarkPublished(d)
  \/ \E d \in Dispatchers, kind \in Kinds : MarkFailed(d, kind)
  \/ \E d \in Dispatchers : MarkConflict(d)
  \/ \E d \in Dispatchers : Crash(d)
  \/ \E o \in Operators, e \in Events : ReplayLoad(o, e)
  \/ \E o \in Operators, e \in Events : ReplayFlush(o, e)
  \/ Tick

Spec == Init /\ [][Next]_vars

-----------------------------------------------------------------------------
\* The state of an event as the services and operators see it.
DeliveryState(status) ==
  CASE status = "absent" -> "absent"
    [] status = "published" -> "published"
    [] status = "dead_letter" -> "dead"
    [] OTHER -> "open"

Delivery == INSTANCE EventDelivery WITH
  state    <- [e \in Events |-> DeliveryState(row[e].status)],
  attempts <- [e \in Events |-> row[e].attempt_count]

(* With one replaying operator the lease protocol implements EventDelivery: *)
(* whatever the interleaving of claims, expiries, late completions and      *)
(* crashes, an event fails one counted attempt at a time and ends published *)
(* or dead.                                                                 *)
ImplementsDelivery == Delivery!Spec

(* At most one process holds a claim that could still complete an event.    *)
(* Processes may share a dispatcher id, so this is what keeps the completion *)
(* of a process whose lease expired apart from that of its successor        *)
(* (_try_claim_event increments claim_version, the UPDATE compares it).     *)
OneCurrentHolder ==
  \A d1, d2 \in Dispatchers : \A c1 \in held[d1], c2 \in held[d2] :
     /\ c1.event = c2.event
     /\ c1.claim_version = c2.claim_version
     => d1 = d2

(* attempt_count counts the recorded failures exactly, although mark_failed *)
(* computes it from an object loaded at claim time: no failure is lost to a *)
(* stale writer and none is counted twice.                                  *)
AttemptCountExact == \A e \in Events : row[e].attempt_count = failures[e]

(* Retries are bounded: an event fails at most max_attempts times, and once *)
(* more per operator replay (replay_dead_letter keeps attempt_count).       *)
RetryBudget == \A e \in Events : failures[e] <= MaxAttempts + replays[e]

(* A claim is taken only over no lease or an expired one, although the test *)
(* compares with a clock read earlier and commits later (_eligible_filter). *)
LiveLeaseNotStolen ==
  [][\A e \in Events :
       row'[e].claim_version # row[e].claim_version => row[e].locked_until <= now]_vars

(* A published event stays published: no later claim, failure or replay     *)
(* brings it back.  (With one replaying operator; see ReplayOnlyDeadLetter.) *)
PublishedIsFinal ==
  [][\A e \in Events : row[e].status = "published" => row'[e].status = "published"]_vars

(* replay_dead_letter raises "Only dead-letter events can be replayed": an  *)
(* existing event returns to pending only from dead_letter.                 *)
ReplayOnlyDeadLetter ==
  [][\A e \in Events :
       row[e].status \notin {"absent", "pending", "dead_letter"}
         => row'[e].status # "pending"]_vars
=============================================================================
