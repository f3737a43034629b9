--------------------------- MODULE RequestsProofs ----------------------------
(* What three services promise whatever is interleaved: the idempotency     *)
(* guard, for any number of requests, payloads, crashes and expiries; the   *)
(* accounts, for any users, sessions, subjects and requests; and tenancy,   *)
(* for any tenants, users and operators.                                    *)
EXTENDS RequestServices, Sequences, FiniteSetTheorems, TLAPS

-----------------------------------------------------------------------------
(* Types                                                                    *)

(* Setting a field of a request keeps it a request.                          *)
LEMMA RequestUpdates ==
  ASSUME NEW q \in Request
  PROVE  /\ \A ph \in Phases : [q EXCEPT !.phase = ph] \in Request
         /\ \A e \in Expiry : [q EXCEPT !.seen = e] \in Request
         /\ \A rec \in Record : [q EXCEPT !.mine = rec] \in Request
         /\ \A a \in Requests \cup {Nobody} : [q EXCEPT !.answer = a] \in Request
BY DEF Request

(* Every record, every request and every bound stays in its type, and no     *)
(* committed record is "processing" (mark_succeeded and mark_failed run in   *)
(* the transaction of the claim).                                           *)
THEOREM AlwaysTyped == Spec => []TypeOK
<1>1. Init => TypeOK
  <2> SUFFICES ASSUME Init PROVE TypeOK
    OBVIOUS
  <2>1. NoRecord \in Record /\ NoRecord.status # "processing"
    BY DEF NoRecord, Record, Expiry
  <2>2. [phase |-> "new", seen |-> "later", mine |-> NoRecord, answer |-> Nobody] \in Request
    BY <2>1 DEF Request, Expiry, Phases
  <2>3. req \in [Requests -> Request]
    BY <2>2 DEF Init
  <2> QED
    <3>1. cli \in BOOLEAN
      BY DEF Init
    <3>2. lock \in Requests \cup {Nobody} /\ wins = {} /\ failures = {} /\ committed = {}
      BY DEF Init
    <3>3. expiries \in 0..MaxExpiries /\ crashes \in 0..MaxCrashes
      BY IdempotencyAssumption DEF Init
    <3>4. record = NoRecord
      BY DEF Init
    <3> QED
      BY <2>1, <2>3, <3>1, <3>2, <3>3, <3>4 DEF TypeOK
<1>2. TypeOK /\ [Next]_vars => TypeOK'
  <2> SUFFICES ASSUME TypeOK, [Next]_vars PROVE TypeOK'
    OBVIOUS
  <2> USE IdempotencyAssumption DEF TypeOK, Record, Request, Expiry, Phases, Goes
  <2>1. CASE UNCHANGED vars
    BY <2>1 DEF vars
  <2>2. ASSUME NEW r \in Requests, Arrive(r) PROVE TypeOK'
    <3> DEFINE q1 == [req[r] EXCEPT !.phase = "claim"]
    <3>1. req[r] \in Request /\ "claim" \in Phases /\ record.expires \in Expiry
      OBVIOUS
    <3>2. q1 \in Request
      <4> HIDE DEF Request, Phases
      <4> QED
        BY <3>1, RequestUpdates
    <3>3. [q1 EXCEPT !.seen = record.expires] \in Request
      <4> HIDE DEF q1, Request, Expiry, Record
      <4> QED
        BY <3>1, <3>2, RequestUpdates
    <3>4. req' = [req EXCEPT ![r] = [q1 EXCEPT !.seen = record.expires]]
      BY <2>2 DEF Arrive
    <3> QED
      BY <2>2, <3>3, <3>4 DEF Arrive
  <2>3. ASSUME NEW r \in Requests, Insert(r) PROVE TypeOK'
    <3>1. CASE record.status = "none"
      <4>1. lock' = r /\ req' = [req EXCEPT ![r].phase = "handler",
                          ![r].mine = [@ EXCEPT !.status = "processing", !.hash = Hash[r]]]
        BY <2>3, <3>1 DEF Insert
      <4> DEFINE m == [req[r].mine EXCEPT !.status = "processing", !.hash = Hash[r]]
                 q1 == [req[r] EXCEPT !.phase = "handler"]
                 q2 == [q1 EXCEPT !.mine = m]
      <4>2. req[r] \in Request /\ m \in Record
        <5>1. req[r] \in Request /\ req[r].mine \in Record /\ Hash[r] \in Nat
          OBVIOUS
        <5>2. \A x \in Record : [x EXCEPT !.status = "processing", !.hash = Hash[r]] \in Record
          BY <5>1
        <5> QED
          BY <5>1, <5>2
      <4>3. q1 \in Request
        <5>1. "handler" \in Phases
          OBVIOUS
        <5> HIDE DEF Request, Phases, m, Record
        <5> QED
          BY <4>2, <5>1, RequestUpdates
      <4>4. q2 \in Request
        <5> HIDE DEF Request, q1, m, Record
        <5> QED
          BY <4>2, <4>3, RequestUpdates
      <4>5. req' = [req EXCEPT ![r] = q2]
        BY <4>1
      <4>6. req' \in [Requests -> Request]
        <5>1. req \in [Requests -> Request]
          OBVIOUS
        <5> HIDE DEF TypeOK, Record, Request, Expiry, Phases, q2
        <5> QED
          BY <4>4, <4>5, <5>1
      <4> QED
        BY <2>3, <4>1, <4>6 DEF Insert
    <3>2. CASE record.status # "none"
      <4>1. lock' = lock /\ req' \in [Requests -> Request]
        BY <2>3, <3>2 DEF Insert
      <4> QED
        BY <2>3, <4>1 DEF Insert
    <3> QED
      BY <3>1, <3>2
  <2>4. ASSUME NEW r \in Requests, LoadExisting(r) PROVE TypeOK'
    <3>1. PICK ph \in Phases, a \in Requests \cup {Nobody} :
            req' = [req EXCEPT ![r].phase = ph, ![r].mine = record, ![r].answer = a]
      BY <2>4 DEF LoadExisting
    <3> DEFINE q1 == [req[r] EXCEPT !.phase = ph]
               q2 == [q1 EXCEPT !.mine = record]
               q3 == [q2 EXCEPT !.answer = a]
    <3>2. q3 \in Request
      <4>1. req[r] \in Request /\ record \in Record
        OBVIOUS
      <4>2. q1 \in Request
        <5> HIDE DEF Request, Phases, Record
        <5> QED
          BY <4>1, RequestUpdates
      <4> HIDE DEF q1, Request, Record
      <4>3. q2 \in Request
        BY <4>1, <4>2, RequestUpdates
      <4> HIDE DEF q2
      <4> QED
        BY <4>3, RequestUpdates
    <3>3. req' = [req EXCEPT ![r] = q3]
      BY <3>1
    <3>4. req' \in [Requests -> Request]
      <4>1. req \in [Requests -> Request]
        OBVIOUS
      <4> HIDE DEF TypeOK, Record, Request, Expiry, Phases, q1, q2, q3
      <4> QED
        BY <3>2, <3>3, <4>1
    <3> QED
      BY <2>4, <3>4 DEF LoadExisting
  <2>5. ASSUME NEW r \in Requests, Restart(r) PROVE TypeOK'
    BY <2>5 DEF Restart
  <2>6. ASSUME NEW r \in Requests, HandlerSucceeds(r) PROVE TypeOK'
    BY <2>6 DEF HandlerSucceeds
  <2>7. ASSUME NEW r \in Requests, HandlerFails(r) PROVE TypeOK'
    BY <2>7 DEF HandlerFails
  <2>8. ASSUME NEW r \in Requests, Commit(r) PROVE TypeOK'
    BY <2>8 DEF Commit, Written
  <2>9. ASSUME NEW r \in Requests, RollBack(r) \/ Crash(r) PROVE TypeOK'
    BY <2>9 DEF RollBack, Crash
  <2>10. CASE Expire
    BY <2>10 DEF Expire
  <2>11. CASE ExpireLoad
    BY <2>11 DEF ExpireLoad
  <2>12. CASE ExpireFlush
    BY <2>12 DEF ExpireFlush
  <2> QED
    BY <2>1, <2>2, <2>3, <2>4, <2>5, <2>6, <2>7, <2>8, <2>9, <2>10, <2>11, <2>12 DEF Next
<1> QED
  BY <1>1, <1>2, PTL DEF Spec

-----------------------------------------------------------------------------
(* Answers                                                                  *)

\* A stored success belongs to a committed execution.
StoredCommitted == record.status = "succeeded" => record.by \in committed

(* No client is given the response of an execution that was rolled back,    *)
(* however restarts, expiry and the operator's command overwrite the record.*)
THEOREM AnswersAreCommitted == Spec => []AnswersCommitted
<1> DEFINE IInv == TypeOK /\ StoredCommitted /\ AnswersCommitted
<1>1. Init => StoredCommitted /\ AnswersCommitted
  BY DEF Init, NoRecord, StoredCommitted, AnswersCommitted
<1>2. IInv /\ [Next]_vars => StoredCommitted' /\ AnswersCommitted'
  <2> SUFFICES ASSUME IInv, [Next]_vars PROVE StoredCommitted' /\ AnswersCommitted'
    OBVIOUS
  <2> USE IdempotencyAssumption
      DEF TypeOK, Record, Request, Expiry, Goes, StoredCommitted, AnswersCommitted
  <2>1. CASE UNCHANGED vars
    BY <2>1 DEF vars
  <2>2. ASSUME NEW r \in Requests, LoadExisting(r)
        PROVE  StoredCommitted' /\ AnswersCommitted'
    BY <2>2 DEF LoadExisting
  <2>3. ASSUME NEW r \in Requests, Commit(r)
        PROVE  StoredCommitted' /\ AnswersCommitted'
    BY <2>3 DEF Commit, Written
  <2>4. ASSUME NEW r \in Requests,
               Arrive(r) \/ Insert(r) \/ Restart(r) \/ HandlerSucceeds(r)
        PROVE  StoredCommitted' /\ AnswersCommitted'
    <3>1. CASE Arrive(r)
      BY <3>1 DEF Arrive
    <3>2. CASE Insert(r)
      BY <3>2 DEF Insert
    <3>3. CASE Restart(r) \/ HandlerSucceeds(r)
      BY <3>3 DEF Restart, HandlerSucceeds
    <3> QED
      BY <2>4, <3>1, <3>2, <3>3
  <2>5. ASSUME NEW r \in Requests, HandlerFails(r) \/ RollBack(r) \/ Crash(r)
        PROVE  StoredCommitted' /\ AnswersCommitted'
    BY <2>5 DEF HandlerFails, RollBack, Crash
  <2>6. CASE Expire \/ ExpireLoad \/ ExpireFlush
    BY <2>6 DEF Expire, ExpireLoad, ExpireFlush
  <2> QED
    BY <2>1, <2>2, <2>3, <2>4, <2>5, <2>6 DEF Next
<1> QED
  BY <1>1, <1>2, AlwaysTyped, PTL DEF Spec

-----------------------------------------------------------------------------
(* One execution while the record lives                                     *)

\* Nothing makes the record available for a restart.
NeverRestartable ==
  /\ record.expires = "later" /\ ~cli /\ record.status # "expired"
  /\ \A r \in Requests : req[r].phase # "restart"

\* Only the request whose INSERT is uncommitted executes, while there is no record.
OneExecutes ==
  \A r \in Requests :
    req[r].phase \in {"handler", "succeeded", "failed", "raised"} =>
      lock = r /\ record.status = "none"

\* The one committed execution is the stored one.
WinIsStored ==
  \/ wins = {}
  \/ record.status # "none" /\ \E r \in Requests : wins = {r}

OneExecution == NeverRestartable /\ OneExecutes /\ WinIsStored

LEMMA OneExecutionInit ==
  ASSUME Init PROVE OneExecution
BY DEF Init, NoRecord, OneExecution, NeverRestartable, OneExecutes, WinIsStored

LEMMA OneExecutionNext ==
  ASSUME TypeOK, OneExecution, Alive, [Next]_vars, Alive'
  PROVE  OneExecution'
<1> USE IdempotencyAssumption
    DEF Alive, TypeOK, Record, Request, Expiry, Phases, Goes, OneExecution, NeverRestartable, OneExecutes, WinIsStored
<1>1. CASE UNCHANGED vars
  BY <1>1 DEF vars
<1>2. ASSUME NEW r \in Requests, Arrive(r) PROVE OneExecution'
  BY <1>2 DEF Arrive
<1>3. ASSUME NEW r \in Requests, Insert(r) PROVE OneExecution'
  <2>1. \A q \in Requests \ {r} :
          req'[q].phase \notin {"handler", "succeeded", "failed", "raised", "restart"}
    BY <1>3 DEF Insert
  <2>2. CASE record.status = "none"
    <3>1. lock' = r /\ req'[r].phase = "handler" /\ record' = record /\ wins' = wins
      BY <1>3, <2>2 DEF Insert
    <3> QED
      BY <1>3, <2>1, <3>1, <2>2 DEF Insert
  <2>3. CASE record.status # "none"
    BY <1>3, <2>1, <2>3 DEF Insert
  <2> QED
    BY <2>2, <2>3
<1>4. ASSUME NEW r \in Requests, LoadExisting(r) PROVE OneExecution'
  BY <1>4 DEF LoadExisting, MayRestart, Expired
<1>5. ASSUME NEW r \in Requests, Restart(r) PROVE OneExecution'
  BY <1>5 DEF Restart
<1>6. ASSUME NEW r \in Requests, HandlerSucceeds(r) PROVE OneExecution'
  BY <1>6 DEF HandlerSucceeds
<1>7. ASSUME NEW r \in Requests, HandlerFails(r) PROVE OneExecution'
  BY <1>7 DEF HandlerFails
<1>8. ASSUME NEW r \in Requests, Commit(r) PROVE OneExecution'
  <2>1. wins = {} /\ lock = r
    BY <1>8 DEF Commit
  <2>2. /\ record'.expires = "later" /\ record'.status \in {"succeeded", "failed"}
        /\ req'[r].phase = "done"
        /\ \A q \in Requests \ {r} : req'[q] = req[q]
    BY <1>8 DEF Commit, Written
  <2>4. NeverRestartable' /\ OneExecutes'
    <3>1. \A q \in Requests \ {r} :
            req'[q].phase \notin {"handler", "succeeded", "failed", "raised", "restart"}
      BY <2>1, <2>2
    <3>2. cli' = cli
      BY <1>8 DEF Commit
    <3> QED
      BY <2>2, <3>1, <3>2
  <2>3. WinIsStored'
    BY <1>8, <2>1, <2>2 DEF Commit
  <2> QED
    BY <2>3, <2>4
<1>9. ASSUME NEW r \in Requests, RollBack(r) \/ Crash(r) PROVE OneExecution'
  <2>1. /\ record' = record /\ cli' = cli /\ wins' = wins
        /\ req'[r].phase = "done"
        /\ \A q \in Requests \ {r} : req'[q] = req[q]
        /\ \A q \in Requests \ {r} : lock = q => lock' = q
    BY <1>9 DEF RollBack, Crash
  <2> QED
    BY <2>1
<1>10. CASE Expire \/ ExpireLoad \/ ExpireFlush
  BY <1>10 DEF Expire, ExpireLoad, ExpireFlush
<1> QED
  BY <1>1, <1>2, <1>3, <1>4, <1>5, <1>6, <1>7, <1>8, <1>9, <1>10 DEF Next

\* The stored response answers the stored payload, and so does every answer given.
StoredHash ==
  record.status = "succeeded" => record.by \in Requests /\ record.hash = Hash[record.by]

LEMMA OwnPayloads ==
  ASSUME TypeOK, OneExecution, StoredHash, AnswersOwnPayload, [Next]_vars
  PROVE  StoredHash' /\ AnswersOwnPayload'
<1> USE IdempotencyAssumption
    DEF TypeOK, Record, Request, Expiry, Goes, StoredHash, AnswersOwnPayload
<1>1. CASE UNCHANGED vars
  BY <1>1 DEF vars
<1>2. ASSUME NEW r \in Requests, LoadExisting(r) PROVE StoredHash' /\ AnswersOwnPayload'
  BY <1>2 DEF LoadExisting
<1>3. ASSUME NEW r \in Requests, Commit(r) PROVE StoredHash' /\ AnswersOwnPayload'
  <2>1. record.status = "none"
    BY <1>3 DEF Commit, OneExecution, OneExecutes
  <2> QED
    BY <1>3, <2>1 DEF Commit, Written
<1>4. ASSUME NEW r \in Requests, Arrive(r) \/ Insert(r) \/ Restart(r) \/ HandlerSucceeds(r)
      PROVE  StoredHash' /\ AnswersOwnPayload'
  BY <1>4 DEF Arrive, Insert, Restart, HandlerSucceeds
<1>5. ASSUME NEW r \in Requests, HandlerFails(r) \/ RollBack(r) \/ Crash(r)
      PROVE  StoredHash' /\ AnswersOwnPayload'
  BY <1>5 DEF HandlerFails, RollBack, Crash
<1>6. CASE Expire \/ ExpireLoad \/ ExpireFlush
  BY <1>6 DEF Expire, ExpireLoad, ExpireFlush
<1> QED
  BY <1>1, <1>2, <1>3, <1>4, <1>5, <1>6 DEF Next

(* Once the record has expired or a retry was opted into, it stays so.       *)
LEMMA AliveBefore ==
  ASSUME TypeOK, [Next]_vars, Alive' PROVE Alive
<1> USE IdempotencyAssumption
<1>1. expiries \in Nat /\ req \in [Requests -> Request]
  BY DEF TypeOK
<1>2. ASSUME NEW r \in Requests, NEW q \in Requests,
             req'[q].phase = "new", req[q].phase # "new"
      PROVE  ~(\/ Arrive(r) \/ Insert(r) \/ LoadExisting(r) \/ Restart(r) \/ HandlerSucceeds(r)
               \/ HandlerFails(r) \/ Commit(r) \/ RollBack(r) \/ Crash(r))
  <2>1. ~Arrive(r) /\ ~Insert(r)
    BY <1>1, <1>2 DEF Arrive, Insert, Goes, Request
  <2>2. ~LoadExisting(r) /\ ~Restart(r)
    BY <1>1, <1>2 DEF LoadExisting, Restart, Goes, Request
  <2>3. ~HandlerSucceeds(r) /\ ~HandlerFails(r)
    BY <1>1, <1>2 DEF HandlerSucceeds, HandlerFails, Goes, Request
  <2>4. ~Commit(r)
    BY <1>1, <1>2 DEF Commit, Goes, Request
  <2>5. ~RollBack(r) /\ ~Crash(r)
    BY <1>1, <1>2 DEF RollBack, Crash, Goes, Request
  <2> QED
    BY <2>1, <2>2, <2>3, <2>4, <2>5
<1>3. \A q \in Requests : req'[q].phase = "new" => req[q].phase = "new"
  <2>1. CASE UNCHANGED vars \/ Expire \/ ExpireLoad \/ ExpireFlush
    BY <2>1 DEF vars, Expire, ExpireLoad, ExpireFlush
  <2> QED
    BY <1>2, <2>1 DEF Next
<1>4. expiries' = expiries \/ expiries' = expiries + 1
  BY DEF Next, vars, Arrive, Insert, LoadExisting, Restart, HandlerSucceeds, HandlerFails, Commit,
         RollBack, Crash, Expire, ExpireLoad, ExpireFlush
<1> QED
  BY <1>1, <1>3, <1>4 DEF Alive

AliveInv == Alive => OneExecution /\ StoredHash /\ AnswersOwnPayload

LEMMA AlwaysAliveInv == Spec => []AliveInv
<1>1. Init => AliveInv
  <2>1. Init => StoredHash
    BY DEF Init, NoRecord, StoredHash
  <2>2. Init => AnswersOwnPayload
    BY DEF Init, AnswersOwnPayload
  <2> QED
    BY <2>1, <2>2, OneExecutionInit DEF AliveInv
<1>2. TypeOK /\ AliveInv /\ [Next]_vars => AliveInv'
  <2> SUFFICES ASSUME TypeOK, AliveInv, [Next]_vars, Alive'
               PROVE  OneExecution' /\ StoredHash' /\ AnswersOwnPayload'
    BY DEF AliveInv
  <2>1. Alive
    BY AliveBefore
  <2> QED
    BY <2>1, OneExecutionNext, OwnPayloads DEF AliveInv
<1> QED
  BY <1>1, <1>2, AlwaysTyped, PTL DEF Spec

(* While the record lives and no failed request is retried, at most one      *)
(* execution is committed, however many duplicates arrive at once and crash  *)
(* (IdempotencyStore.claim inserts before it reads), and its response is     *)
(* returned only to requests with its payload (_handle_existing).            *)
THEOREM CommittedAtMostOnce == Spec => []ExactWhileAlive
<1>1. AliveInv => ExactWhileAlive
  <2> SUFFICES ASSUME OneExecution PROVE Cardinality(wins) <= 1
    BY DEF AliveInv, ExactWhileAlive, CommittedOnce
  <2>1. CASE wins = {}
    BY <2>1, FS_EmptySet
  <2>2. ASSUME NEW r \in Requests, wins = {r} PROVE Cardinality(wins) <= 1
    <3>1. Cardinality({r}) = 1
      BY FS_Singleton
    <3> QED
      BY <2>2, <3>1
  <2> QED
    BY <2>1, <2>2 DEF OneExecution, WinIsStored
<1> QED
  BY <1>1, AlwaysAliveInv, PTL

-----------------------------------------------------------------------------
(* No silent retry                                                          *)

AllCaught == Alive /\ crashes = 0 /\ failures \subseteq Catching

\* A failed execution is on record, or about to be; only an execution whose caller
\* does not commit the mark is rolled back.
FailureHolds ==
  /\ failures # {} =>
       record.status # "none" \/ \E r \in Requests : req[r].phase = "failed" /\ lock = r
  /\ \A r \in Requests : req[r].phase # "raised"

LEMMA FailureKept ==
  ASSUME TypeOK, AliveInv, AllCaught => FailureHolds, [Next]_vars, AllCaught'
  PROVE  FailureHolds'
<1> USE IdempotencyAssumption DEF TypeOK, Request, Goes
<1>1. Alive /\ crashes = 0 /\ failures \subseteq Catching
  <2>1. Alive
    BY AliveBefore DEF AllCaught
  <2>2. CASE UNCHANGED vars
    BY <2>1, <2>2 DEF vars, AllCaught
  <2>3. ASSUME NEW r \in Requests, Arrive(r) \/ Insert(r) \/ LoadExisting(r) \/ Restart(r)
        PROVE  crashes = 0 /\ failures \subseteq Catching
    BY <2>3 DEF AllCaught, Arrive, Insert, LoadExisting, Restart
  <2>4. ASSUME NEW r \in Requests, HandlerSucceeds(r) \/ HandlerFails(r) \/ Commit(r) \/ RollBack(r)
        PROVE  crashes = 0 /\ failures \subseteq Catching
    BY <2>4 DEF AllCaught, HandlerSucceeds, HandlerFails, Commit, RollBack
  <2>5. ASSUME NEW r \in Requests, Crash(r) PROVE FALSE
    BY <2>5 DEF AllCaught, Crash
  <2>6. ASSUME Expire PROVE FALSE
    BY <2>6 DEF AllCaught, Alive, Expire
  <2>7. CASE ExpireLoad \/ ExpireFlush
    BY <2>1, <2>7 DEF AllCaught, ExpireLoad, ExpireFlush
  <2> QED
    BY <2>1, <2>2, <2>3, <2>4, <2>5, <2>6, <2>7 DEF Next
<1>2. FailureHolds /\ OneExecution
  BY <1>1 DEF AllCaught, AliveInv
<1>3. \A r \in Requests : req[r].phase \in {"handler", "succeeded", "failed", "raised"} =>
                            lock = r /\ record.status = "none"
  BY <1>2 DEF OneExecution, OneExecutes
<1>4. CASE UNCHANGED vars
  BY <1>2, <1>4 DEF vars, FailureHolds
<1>5. ASSUME NEW r \in Requests, Arrive(r) PROVE FailureHolds'
  BY <1>2, <1>5 DEF Arrive, FailureHolds
<1>6. ASSUME NEW r \in Requests, Insert(r) PROVE FailureHolds'
  BY <1>2, <1>6 DEF Insert, FailureHolds
<1>7. ASSUME NEW r \in Requests, LoadExisting(r) PROVE FailureHolds'
  BY <1>2, <1>7 DEF LoadExisting, FailureHolds
<1>8. ASSUME NEW r \in Requests, Restart(r) PROVE FailureHolds'
  BY <1>2, <1>8 DEF Restart, OneExecution, NeverRestartable
<1>9. ASSUME NEW r \in Requests, HandlerSucceeds(r) PROVE FailureHolds'
  BY <1>2, <1>3, <1>9 DEF HandlerSucceeds, FailureHolds
<1>10. ASSUME NEW r \in Requests, HandlerFails(r) PROVE FailureHolds'
  <2>1. r \in Catching
    BY <1>10 DEF HandlerFails, AllCaught
  <2> QED
    BY <1>2, <1>3, <1>10, <2>1 DEF HandlerFails, FailureHolds
<1>11. ASSUME NEW r \in Requests, Commit(r) PROVE FailureHolds'
  BY <1>2, <1>11 DEF Commit, Written, FailureHolds
<1>12. ASSUME NEW r \in Requests, RollBack(r) PROVE FailureHolds'
  BY <1>2, <1>12 DEF RollBack, FailureHolds
<1>13. ASSUME NEW r \in Requests, Crash(r) PROVE FailureHolds'
  BY <1>1, <1>13 DEF Crash, AllCaught
<1>14. CASE Expire \/ ExpireLoad \/ ExpireFlush
  BY <1>2, <1>14 DEF Expire, ExpireLoad, ExpireFlush, Record, OneExecution, NeverRestartable,
                     AllCaught, Alive
<1> QED
  BY <1>4, <1>5, <1>6, <1>7, <1>8, <1>9, <1>10, <1>11, <1>12, <1>13, <1>14 DEF Next

(* While the callers of the failed executions commit the mark, nobody has    *)
(* crashed and nobody opts in, a duplicate of a failed request is never      *)
(* executed: the mark stays, or its INSERT is still open (mark_failed,       *)
(* _handle_existing).                                                        *)
THEOREM FailuresAreKept == Spec => NoSilentRetryWhenCaught
<1> DEFINE Silent ==
      \A r \in Requests :
        Alive /\ crashes = 0 /\ failures \subseteq Catching
          /\ req[r].phase # "handler" /\ req'[r].phase = "handler"
        => failures = {}
<1>1. Init => (AllCaught => FailureHolds)
  BY DEF Init, FailureHolds
<1>2. TypeOK /\ AliveInv /\ (AllCaught => FailureHolds) /\ [Next]_vars => [Silent]_vars
  <2> SUFFICES ASSUME TypeOK, AliveInv, AllCaught, FailureHolds, OneExecution, Next,
                      NEW r \in Requests, req[r].phase # "handler", req'[r].phase = "handler"
               PROVE  failures = {}
    BY DEF AllCaught, AliveInv
  <2>0. req \in [Requests -> Request]
    BY DEF TypeOK
  <2>1. PICK q \in Requests : Insert(q) \/ Restart(q)
    <3>1. ASSUME NEW q \in Requests, Arrive(q) \/ LoadExisting(q) PROVE FALSE
      BY <2>0, <3>1 DEF Arrive, LoadExisting, Request
    <3>2. ASSUME NEW q \in Requests, HandlerSucceeds(q) \/ HandlerFails(q) PROVE FALSE
      BY <2>0, <3>2 DEF HandlerSucceeds, HandlerFails, Goes, Request
    <3>3. ASSUME NEW q \in Requests, Commit(q) PROVE FALSE
      BY <2>0, <3>3 DEF Commit, Goes, Request
    <3>4. ASSUME NEW q \in Requests, RollBack(q) \/ Crash(q) PROVE FALSE
      BY <2>0, <3>4 DEF RollBack, Crash, Goes, Request
    <3>5. ~(Expire \/ ExpireLoad \/ ExpireFlush)
      BY DEF Expire, ExpireLoad, ExpireFlush
    <3> QED
      BY <3>1, <3>2, <3>3, <3>4, <3>5 DEF Next
  <2>2. Insert(q)
    BY <2>1 DEF Restart, OneExecution, NeverRestartable
  <2>3. lock = Nobody /\ record.status = "none"
    BY <2>2 DEF Insert, TypeOK, Request, Goes
  <2> QED
    BY <2>3, IdempotencyAssumption DEF FailureHolds
<1>3. TypeOK /\ AliveInv /\ (AllCaught => FailureHolds) /\ [Next]_vars => (AllCaught => FailureHolds)'
  BY FailureKept
<1> QED
  BY <1>1, <1>2, <1>3, AlwaysTyped, AlwaysAliveInv, PTL DEF Spec, NoSilentRetryWhenCaught

-----------------------------------------------------------------------------
(* Accounts: who is disabled stays out                                      *)

Places == {"idle", "login_tenant", "login_insert", "logged_in", "authorized", "expired",
           "exchanged", "refused", "presented", "in", "done", "bind_insert",
           "disable_select", "disable_commit", "revoke_commit"}
SessionStatuses == {"none", "active", "revoked"}

Call == [at : Places, session : A!SessionIds \cup {Null}, user : Users \cup {Null},
         tenant : Tenants \cup {Null}, version : Nat, subject : Subjects \cup {Null},
         state : Callers \cup {Null}, seen : SUBSET (A!SessionIds \cup SessionStatuses)]
Session == [status : SessionStatuses, user : Users \cup {Null}, tenant : Tenants \cup {Null},
            version : Nat]
User == [status : {"active", "disabled"}, version : Nat,
         password : Passwords \cup {CHOOSE p \in Passwords : TRUE}]

\* A user is disabled once, and its token_version then is not the sessions' any more.
UserFine(u) == u \in User /\ u.version = IF u.status = "active" THEN 1 ELSE 2
SessionFine(s) ==
  s \in Session /\ s.version \in {0, 1} /\ (s.status = "active" => s.version = 1 /\ s.user \in Users)

\* A login carries the version of a user who was active; a request that of a session;
\* disable_user the version of a user who was active, or 0.
CallFine(c) ==
  /\ c \in Call /\ c.version \in {0, 1}
  /\ c.at \in {"login_tenant", "login_insert"} => c.version = 1 /\ c.user \in Users

\* A consumed state is no longer kept, only one request holds it, and who has made a
\* state never makes it again.
CallsFine == calls \in [Callers -> Call] /\ \A r \in Callers : CallFine(calls[r])
UsersFine == users \in [Users -> User] /\ \A u \in Users : UserFine(users[u])
SessionsFine ==
  sessions \in [A!SessionIds -> Session] /\ \A s \in A!SessionIds : SessionFine(sessions[s])
StatesFine ==
  /\ states \subseteq Callers
  /\ \A q \in states : calls[q].at # "idle"
  /\ \A r \in Callers, q \in Callers \ {Null} :
       calls[r].state = q =>
         /\ q \notin states /\ calls[q].at # "idle"
         /\ \A p \in Callers : calls[p].state = q => p = r

AccountsInv ==
  /\ UsersFine /\ SessionsFine /\ CallsFine /\ StatesFine
  /\ identities \in [Subjects -> Users \cup {Null}]

(* What the new note of a request owes to the invariant.                    *)
LEMMA Noted ==
  ASSUME AccountsInv, NEW r \in Callers, NEW c, A!Notes(r, c), CallFine(c), c.at # "idle",
         c.state \in {calls[r].state, Null}, states' = states
  PROVE  CallsFine' /\ StatesFine'
<1>1. calls'[r] = c /\ \A q \in Callers \ {r} : calls'[q] = calls[q]
  BY DEF AccountsInv, CallsFine, A!Notes
<1>2. CallsFine'
  BY <1>1 DEF AccountsInv, CallsFine, A!Notes, CallFine
<1>3. StatesFine'
  BY <1>1 DEF AccountsInv, StatesFine
<1> QED
  BY <1>2, <1>3

LEMMA Gone ==
  ASSUME AccountsInv, NEW r \in Callers, NEW place \in Places, A!Goes(r, place),
         place \notin {"idle", "login_tenant", "disable_select", "disable_commit"},
         place = "login_insert" => calls[r].at = "login_tenant",
         states' = states
  PROVE  CallsFine' /\ StatesFine'
<1> DEFINE c == [calls[r] EXCEPT !.at = place]
<1>1. calls[r] \in Call /\ CallFine(calls[r])
  BY DEF AccountsInv, CallsFine
<1>2. /\ c \in Call /\ c.at = place /\ c.state = calls[r].state
      /\ c.version = calls[r].version /\ c.user = calls[r].user
  BY <1>1 DEF Call
<1>3. CallFine(c)
  BY <1>1, <1>2 DEF CallFine
<1>4. A!Notes(r, c)
  BY DEF A!Goes
<1> HIDE DEF c
<1> QED
  BY <1>2, <1>3, <1>4, Noted

LEMMA NoCallFine == CallFine(A!NoCall) /\ A!NoCall.state = Null
BY DEF CallFine, A!NoCall, Call, Places

(* Of a login, the version is that of a user who is active.                  *)
LEMMA LoginFine ==
  ASSUME AccountsInv, NEW u \in Users, users[u].status = "active",
         NEW c \in Call, c.user = u, c.version = users[u].version
  PROVE  CallFine(c)
<1>1. users[u].version = 1
  BY DEF AccountsInv, UsersFine, UserFine
<1> QED
  BY <1>1 DEF CallFine

LEMMA AccountsStep ==
  ASSUME AccountsInv, NEW r \in Callers, A!Step(r)
  PROVE  AccountsInv'
<1> USE DEF AccountsInv
<1>0. calls[r] \in Call /\ CallFine(calls[r])
  BY DEF CallsFine
<1>1. ASSUME NEW u \in Users, NEW p \in Passwords, NEW t \in Tenants \cup {Null},
             A!LoginReads(r, u, p, t)
      PROVE  AccountsInv'
  <2>1. PICK place \in {"login_insert", "login_tenant"} :
          A!Notes(r, [A!NoCall EXCEPT !.at = place, !.user = u, !.tenant = t,
                                      !.version = users[u].version])
    BY <1>1 DEF A!LoginReads
  <2>2. users[u].version \in Nat /\ users[u].status = "active"
    BY <1>1 DEF UsersFine, User, A!LoginReads
  <2> DEFINE v == users[u].version
             c == [A!NoCall EXCEPT !.at = place, !.user = u, !.tenant = t, !.version = v]
  <2> HIDE DEF v
  <2>3. c \in Call /\ c.user = u /\ c.version = v /\ c.at # "idle" /\ c.state = Null
    BY <2>2 DEF A!NoCall, Call, Places, v
  <2>4. CallFine(c)
    <3> HIDE DEF c
    <3> QED
      BY <2>2, <2>3, LoginFine DEF v
  <2> HIDE DEF c
  <2>5. CallsFine' /\ StatesFine'
    BY <1>1, <2>1, <2>3, <2>4, Noted DEF A!LoginReads, c, v
  <2> QED
    BY <1>1, <2>5 DEF A!LoginReads, UsersFine, SessionsFine
<1>2. ASSUME NEW t \in Tenants \cup {Null}, A!external_authorize(r, t)
      PROVE  AccountsInv'
  <2> DEFINE c == [A!NoCall EXCEPT !.at = "authorized", !.tenant = t]
  <2>1. CallFine(c) /\ c.at # "idle" /\ c.state = Null
    BY DEF CallFine, A!NoCall, Call, Places
  <2>2. A!Notes(r, c) /\ calls[r].at = "idle" /\ states' = states \cup {r}
    BY <1>2 DEF A!external_authorize, A!At
  <2> HIDE DEF c
  <2>3. calls'[r] = c /\ \A q \in Callers \ {r} : calls'[q] = calls[q]
    BY <2>2 DEF A!Notes, CallsFine
  <2>4. CallsFine'
    BY <2>1, <2>2, <2>3 DEF CallsFine, A!Notes, CallFine
  <2>5. StatesFine'
    BY <2>1, <2>2, <2>3 DEF StatesFine
  <2> QED
    BY <1>2, <2>4, <2>5 DEF A!external_authorize, UsersFine, SessionsFine
<1>3. CASE A!StateExpires(r)
  <2>1. CallsFine' /\ StatesFine'
    BY <1>3, Gone DEF A!StateExpires, Places
  <2> QED
    BY <1>3, <2>1 DEF A!StateExpires, UsersFine, SessionsFine
<1>4. ASSUME NEW q \in Callers, A!external_callback(r, q)
      PROVE  AccountsInv'
  <2> DEFINE place == IF A!At(q, "expired") THEN "refused" ELSE "exchanged"
             c == [A!NoCall EXCEPT !.at = place, !.tenant = calls[q].tenant, !.state = q]
  <2>1. calls[q].tenant \in Tenants \cup {Null}
    BY DEF CallsFine, Call
  <2>2. CallFine(c) /\ c.at # "idle" /\ c.state = q
    BY <2>1 DEF CallFine, A!NoCall, Call, Places
  <2>3. A!Notes(r, c) /\ calls[r].at = "idle" /\ q \in states /\ states' = states \ {q}
    BY <1>4 DEF A!external_callback, A!At, A!Consumes
  <2> HIDE DEF c
  <2>4. calls'[r] = c /\ \A p \in Callers \ {r} : calls'[p] = calls[p]
    BY <2>3 DEF A!Notes, CallsFine
  <2>5. CallsFine'
    BY <2>2, <2>3, <2>4 DEF CallsFine, A!Notes, CallFine
  <2>6. StatesFine'
    BY <2>2, <2>3, <2>4 DEF StatesFine
  <2> QED
    BY <1>4, <2>5, <2>6 DEF A!external_callback, UsersFine, SessionsFine
<1>5. ASSUME NEW subject \in Subjects, A!ExternalReads(r, subject)
      PROVE  AccountsInv'
  <2> DEFINE u == identities[subject]
             v == users[u].version
  <2>1. PICK place \in {"login_insert", "login_tenant"} :
          A!Notes(r, [calls[r] EXCEPT !.at = place, !.user = u, !.subject = subject,
                                      !.version = v])
    BY <1>5 DEF A!ExternalReads
  <2>2. u \in Users /\ v \in Nat /\ users[u].status = "active"
    BY <1>5 DEF A!ExternalReads, UsersFine, User
  <2> DEFINE c == [calls[r] EXCEPT !.at = place, !.user = u, !.subject = subject, !.version = v]
  <2> HIDE DEF u, v
  <2>3. c \in Call /\ c.user = u /\ c.version = v /\ c.at # "idle" /\ c.state = calls[r].state
    BY <1>0, <2>2 DEF Call, Places
  <2>4. A!Notes(r, c)
    BY <2>1
  <2> HIDE DEF c
  <2>5. CallFine(c)
    BY <2>2, <2>3, LoginFine DEF v
  <2>6. CallsFine' /\ StatesFine'
    BY <1>5, <2>3, <2>4, <2>5, Noted DEF A!ExternalReads
  <2> QED
    BY <1>5, <2>6 DEF A!ExternalReads, UsersFine, SessionsFine
<1>6. CASE A!LoginTenant(r)
  <2>1. CallsFine' /\ StatesFine'
    BY <1>6, Gone DEF A!LoginTenant, Places, A!At
  <2> QED
    BY <1>6, <2>1 DEF A!LoginTenant, UsersFine, SessionsFine
<1>7. CASE A!LoginInserts(r)
  <2> DEFINE s == [status |-> "active", user |-> calls[r].user, tenant |-> calls[r].tenant,
                   version |-> calls[r].version]
  <2>1. CallsFine' /\ StatesFine'
    BY <1>7, Gone DEF A!LoginInserts, Places
  <2>2. SessionFine(s)
    BY <1>0, <1>7 DEF A!LoginInserts, A!At, CallFine, Call, SessionFine, Session, SessionStatuses
  <2>3. sessions' = [sessions EXCEPT ![r] = s]
    BY <1>7 DEF A!LoginInserts
  <2> HIDE DEF s
  <2>4. SessionsFine'
    BY <2>2, <2>3 DEF SessionsFine, SessionFine
  <2> QED
    BY <1>7, <2>1, <2>4 DEF A!LoginInserts, UsersFine
<1>8. CASE A!LoginRefused(r)
  <2>1. CallsFine' /\ StatesFine'
    BY <1>8, Gone DEF A!LoginRefused, Places
  <2> QED
    BY <1>8, <2>1 DEF A!LoginRefused, UsersFine, SessionsFine
<1>9. ASSUME NEW s \in A!SessionIds, A!Presents(r, s)
      PROVE  AccountsInv'
  <2> DEFINE c == [A!NoCall EXCEPT
                     !.at = "presented", !.session = s, !.user = sessions[s].user,
                     !.tenant = sessions[s].tenant, !.version = sessions[s].version,
                     !.seen = {sessions[s].status}]
  <2>1. sessions[s] \in Session /\ sessions[s].version \in {0, 1}
    BY DEF SessionsFine, SessionFine
  <2>2. /\ c \in Call /\ c.at = "presented" /\ c.version = sessions[s].version
        /\ c.state = Null
    BY <2>1 DEF A!NoCall, Call, Places, Session
  <2>3. A!Notes(r, c)
    BY <1>9 DEF A!Presents
  <2> HIDE DEF c
  <2>4. CallFine(c) /\ c.at # "idle" /\ c.state = Null
    BY <2>1, <2>2 DEF CallFine
  <2>5. CallsFine' /\ StatesFine'
    BY <1>9, <2>3, <2>4, Noted DEF A!Presents
  <2> QED
    BY <1>9, <2>5 DEF A!Presents, UsersFine, SessionsFine
<1>10. CASE A!Authenticates(r)
  <2>1. PICK place \in {"in", "refused"} :
          A!Notes(r, [calls[r] EXCEPT !.at = place, !.seen = {}])
    BY <1>10 DEF A!Authenticates
  <2> DEFINE c == [calls[r] EXCEPT !.at = place, !.seen = {}]
  <2>2. CallFine(c) /\ c.at # "idle" /\ c.state = calls[r].state /\ A!Notes(r, c)
    BY <1>0, <2>1 DEF CallFine, Call, Places
  <2> HIDE DEF c
  <2>3. CallsFine' /\ StatesFine'
    BY <1>10, <2>2, Noted DEF A!Authenticates
  <2> QED
    BY <1>10, <2>3 DEF A!Authenticates, UsersFine, SessionsFine
<1>11. CASE A!refresh_token(r)
  <2>1. CallsFine' /\ StatesFine'
    BY <1>11, Gone DEF A!refresh_token, Places
  <2> QED
    BY <1>11, <2>1 DEF A!refresh_token, UsersFine, SessionsFine
<1>12. ASSUME NEW s \in A!SessionIds, A!revoke_own_session(r, s)
       PROVE  AccountsInv'
  <2>1. CallsFine' /\ StatesFine'
    BY <1>12, Gone DEF A!revoke_own_session, Places
  <2>2. SessionsFine'
    BY <1>12 DEF A!revoke_own_session, SessionsFine, SessionFine, Session, SessionStatuses
  <2> QED
    BY <1>12, <2>1, <2>2 DEF A!revoke_own_session, UsersFine
<1>13. ASSUME NEW current \in Passwords, NEW new \in Passwords,
              A!reset_local_password(r, current, new)
       PROVE  AccountsInv'
  <2>1. CallsFine' /\ StatesFine'
    BY <1>13, Gone DEF A!reset_local_password, Places
  <2>2. CASE calls[r].user \in Users
    <3> DEFINE w == [users[calls[r].user] EXCEPT !.password = new]
    <3>1. UserFine(w)
      BY <2>2 DEF UsersFine, UserFine, User
    <3>2. users' = [users EXCEPT ![calls[r].user] = w]
      BY <1>13, <2>2 DEF A!reset_local_password, UsersFine
    <3> HIDE DEF w
    <3> QED
      BY <1>13, <2>1, <2>2, <3>1, <3>2
      DEF A!reset_local_password, UsersFine, SessionsFine, UserFine
  <2>3. CASE calls[r].user \notin Users
    <3>1. users' = users
      BY <1>13, <2>3 DEF A!reset_local_password, UsersFine
    <3> QED
      BY <1>13, <2>1, <3>1 DEF A!reset_local_password, UsersFine, SessionsFine
  <2> QED
    BY <2>2, <2>3
<1>14. ASSUME NEW subject \in Subjects, A!BindReads(r, subject)
       PROVE  AccountsInv'
  <2>1. PICK place \in {"bind_insert", "done"} :
          A!Notes(r, [calls[r] EXCEPT !.subject = subject, !.at = place])
    BY <1>14 DEF A!BindReads
  <2> DEFINE c == [calls[r] EXCEPT !.subject = subject, !.at = place]
  <2>2. CallFine(c) /\ c.at # "idle" /\ c.state = calls[r].state /\ A!Notes(r, c)
    BY <1>0, <2>1 DEF CallFine, Call, Places
  <2> HIDE DEF c
  <2>3. CallsFine' /\ StatesFine'
    BY <1>14, <2>2, Noted DEF A!BindReads
  <2> QED
    BY <1>14, <2>3 DEF A!BindReads, UsersFine, SessionsFine
<1>15. CASE A!BindInserts(r)
  <2>1. CallsFine' /\ StatesFine'
    BY <1>15, Gone DEF A!BindInserts, Places
  <2>2. identities' \in [Subjects -> Users \cup {Null}]
    BY <1>0, <1>15 DEF A!BindInserts, Call
  <2> QED
    BY <1>15, <2>1, <2>2 DEF A!BindInserts, UsersFine, SessionsFine
<1>16. ASSUME NEW u \in Users, A!DisableLoads(r, u)
       PROVE  AccountsInv'
  <2>1. PICK v \in Nat :
          v \in {0, 1} /\ A!Notes(r, [calls[r] EXCEPT !.at = "disable_select", !.user = u, !.version = v])
    BY <1>16 DEF A!DisableLoads, UsersFine, UserFine
  <2> DEFINE c == [calls[r] EXCEPT !.at = "disable_select", !.user = u, !.version = v]
  <2>2. A!Notes(r, c)
    BY <2>1
  <2>3. /\ c \in Call /\ c.at = "disable_select" /\ c.version = v /\ c.user = u
        /\ c.state = calls[r].state
    BY <1>0 DEF Call, Places
  <2> HIDE DEF c
  <2>4. CallFine(c) /\ c.at # "idle"
    BY <2>1, <2>3 DEF CallFine
  <2>5. CallsFine' /\ StatesFine'
    BY <1>16, <2>2, <2>3, <2>4, Noted DEF A!DisableLoads
  <2> QED
    BY <1>16, <2>5 DEF A!DisableLoads, UsersFine, SessionsFine
<1>17. ASSUME NEW u \in Users, A!RevokeSelects(r, u)
       PROVE  AccountsInv'
  <2>1. PICK place \in {"revoke_commit", "disable_commit"} :
          /\ place = "disable_commit" => calls[r].at = "disable_select"
          /\ A!Notes(r, [calls[r] EXCEPT !.at = place, !.seen = A!ActiveSessions(u)])
    BY <1>17 DEF A!RevokeSelects, A!At
  <2> DEFINE ids == A!ActiveSessions(u)
             c == [calls[r] EXCEPT !.at = place, !.seen = ids]
  <2>2. ids \subseteq A!SessionIds
    BY DEF A!ActiveSessions
  <2>3. A!Notes(r, c)
    BY <2>1
  <2> HIDE DEF ids
  <2>4. CallFine(c) /\ c.at # "idle" /\ c.state = calls[r].state
    BY <1>0, <2>1, <2>2 DEF CallFine, Call, Places
  <2> HIDE DEF c
  <2>5. CallsFine' /\ StatesFine'
    BY <1>17, <2>3, <2>4, Noted DEF A!RevokeSelects
  <2> QED
    BY <1>17, <2>5 DEF A!RevokeSelects, UsersFine, SessionsFine
<1>18. ASSUME A!RevokeCommits(r) \/ A!DisableCommits(r) PROVE SessionsFine'
  <2>1. PICK ids : sessions' = A!Revoked(ids)
    BY <1>18 DEF A!RevokeCommits, A!DisableCommits
  <2>2. \A s \in A!SessionIds : SessionFine([sessions[s] EXCEPT !.status = "revoked"])
    BY DEF SessionsFine, SessionFine, Session, SessionStatuses
  <2> QED
    BY <2>1, <2>2 DEF A!Revoked, SessionsFine, SessionFine
<1>19. CASE A!RevokeCommits(r)
  <2>1. CallsFine' /\ StatesFine'
    BY <1>19, Gone DEF A!RevokeCommits, Places
  <2> QED
    BY <1>18, <1>19, <2>1 DEF A!RevokeCommits, UsersFine
<1>20. CASE A!DisableCommits(r)
  <2>1. CallsFine' /\ StatesFine'
    BY <1>20, Gone DEF A!DisableCommits, Places
  <2>2. calls[r].version \in {0, 1}
    BY <1>0, <1>20 DEF A!DisableCommits, A!At, CallFine
  <2>3. CASE calls[r].user \in Users /\ calls[r].version = 1
    <3> DEFINE w == [users[calls[r].user] EXCEPT !.status = "disabled", !.version = 2]
    <3>1. UserFine(w)
      BY <2>3 DEF UsersFine, UserFine, User
    <3>2. users' = [users EXCEPT ![calls[r].user].status = "disabled",
                                 ![calls[r].user].version = 2]
      BY <1>20, <2>3 DEF A!DisableCommits
    <3>3. users' = [users EXCEPT ![calls[r].user] = w]
      BY <2>3, <3>2 DEF UsersFine, User
    <3> HIDE DEF w
    <3> QED
      BY <1>18, <1>20, <2>1, <2>3, <3>1, <3>3 DEF A!DisableCommits, UsersFine, UserFine
  <2>4. CASE ~(calls[r].user \in Users /\ calls[r].version = 1)
    <3>1. users' = users
      BY <1>20, <2>2, <2>4 DEF A!DisableCommits, UsersFine
    <3> QED
      BY <1>18, <1>20, <2>1, <3>1 DEF A!DisableCommits, UsersFine
  <2> QED
    BY <2>3, <2>4
<1> QED
  BY <1>1, <1>2, <1>3, <1>4, <1>5, <1>6, <1>7, <1>8, <1>9, <1>10, <1>11, <1>12, <1>13, <1>14,
     <1>15, <1>16, <1>17, <1>19, <1>20 DEF A!Step

LEMMA AccountsInit == A!Init => AccountsInv
<1> SUFFICES ASSUME A!Init PROVE AccountsInv
  OBVIOUS
<1>1. UsersFine
  BY DEF A!Init, UsersFine, UserFine, User
<1>2. SessionsFine
  BY DEF A!Init, A!SessionIds, A!NoSession, SessionsFine, SessionFine, Session, SessionStatuses
<1>3. CallsFine
  BY NoCallFine DEF A!Init, CallsFine, CallFine
<1>4. StatesFine
  BY NoCallFine DEF A!Init, StatesFine
<1>5. identities \in [Subjects -> Users \cup {Null}]
  BY DEF A!Init
<1> QED
  BY <1>1, <1>2, <1>3, <1>4, <1>5 DEF AccountsInv

LEMMA AccountsNext ==
  ASSUME AccountsInv, [A!Next]_<<A!accountVars, tenants, members>>
  PROVE  AccountsInv'
<1>1. ASSUME NEW s \in A!SessionIds, A!TokenExpires(s) PROVE AccountsInv'
  BY <1>1 DEF A!TokenExpires, AccountsInv, UsersFine, SessionsFine, CallsFine, StatesFine
<1>2. CASE UNCHANGED <<A!accountVars, tenants, members>>
  BY <1>2 DEF A!accountVars, AccountsInv, UsersFine, SessionsFine, CallsFine, StatesFine
<1> QED
  BY <1>1, <1>2, AccountsStep DEF A!Next

(* Once disable_user has committed, whatever was issued to the user, or a    *)
(* login, request or refresh under way still holds, is of an older version  *)
(* than the user's row, for any users, requests, tenants and interleaving.   *)
THEOREM DisabledUsersStayOut == A!Spec => []DisabledStaysOut
<1>1. AccountsInv => A!DisabledStaysOut
  <2> SUFFICES ASSUME AccountsInv, NEW u \in Users, users[u].status = "disabled"
               PROVE  /\ \A s \in A!SessionIds : sessions[s].version < users[u].version
                      /\ \A r \in Callers : calls[r].version < users[u].version
    BY DEF A!DisabledStaysOut
  <2>1. users[u].version = 2
    BY DEF AccountsInv, UsersFine, UserFine
  <2>2. \A s \in A!SessionIds : sessions[s].version \in {0, 1}
    BY DEF AccountsInv, SessionsFine, SessionFine
  <2>3. \A r \in Callers : calls[r].version \in {0, 1}
    BY DEF AccountsInv, CallsFine, CallFine
  <2> QED
    BY <2>1, <2>2, <2>3
<1> QED
  BY <1>1, AccountsInit, AccountsNext, PTL DEF A!Spec, DisabledStaysOut

(* An auth state is consumed by one callback at most, and an external       *)
(* subject stays with the user it was first bound to.                       *)
THEOREM IdentitiesAreKept == A!Spec => IdentitiesHold
<1>1. AccountsInv => A!CallbackOnce
  BY DEF AccountsInv, StatesFine, CallsFine, Call, A!CallbackOnce
<1>2. AccountsInv /\ [A!Next]_<<A!accountVars, tenants, members>> =>
        [\A q \in Subjects : identities[q] # Null => identities'[q] = identities[q]]_identities
  <2> SUFFICES ASSUME AccountsInv, A!Next, identities' # identities
               PROVE  \A q \in Subjects : identities[q] # Null => identities'[q] = identities[q]
    BY DEF A!accountVars
  <2>1. PICK r \in Callers : A!BindInserts(r)
    BY DEF A!Next, A!Step, A!TokenExpires, A!LoginReads, A!external_authorize, A!StateExpires,
           A!external_callback, A!ExternalReads, A!LoginTenant, A!LoginInserts, A!LoginRefused,
           A!Presents, A!Authenticates, A!refresh_token, A!revoke_own_session,
           A!reset_local_password, A!BindReads, A!DisableLoads, A!RevokeSelects,
           A!RevokeCommits, A!DisableCommits
  <2> QED
    BY <2>1 DEF A!BindInserts, AccountsInv
<1> QED
  BY <1>1, <1>2, AccountsInit, AccountsNext, PTL DEF A!Spec, IdentitiesHold, A!IdentitiesHold, A!BoundForGood

-----------------------------------------------------------------------------
(* Tenancy: deletion in order                                               *)

OpFields ==
  {"at", "tenant", "user", "status", "loaded", "target", "invitation", "seen", "done", "ran", "outcome"}
IsOp(x) == x = [f \in OpFields |-> x[f]]

Outcomes == {"failed", "succeeded"}
Cleanups == T!Hooks \ {"cancel_tasks"}

\* Step i of a run, which it has skipped or flushed.
StepFine(o, i) ==
  LET op == ops[o] IN
  /\ i \in op.ran \/ records[op.tenant][i] = "succeeded"
  /\ op.done[i] = "succeeded" \/ (i = Len(op.done) /\ op.at = "failed")
  /\ op.done[i] = "succeeded" /\ i \in op.ran /\ T!_DELETE_STEPS[i] \in Cleanups
       => T!_DELETE_STEPS[i] \in cleaned[op.tenant]

RunTyped(o) ==
  LET op == ops[o] IN
  /\ op.tenant \in Tenants /\ op.target \in T!Closed
  /\ op.status \in T!TenantStatuses /\ op.loaded \in T!TenantStatuses
  /\ op.done \in Seq(Outcomes) /\ Len(op.done) \in 0..5
  /\ op.at \in {"step", "flush"} => Len(op.done) \in 0..4
  /\ op.at = "flush" => op.outcome \in Outcomes
  /\ \A i \in op.ran : \/ i \in 1..Len(op.done)
                       \/ op.at \in {"step", "flush"} /\ i = Len(op.done) + 1

\* What a run has executed and not flushed yet, and a status it will commit.
Executed(o) ==
  ops[o].at = "flush" /\ ops[o].outcome = "succeeded" /\ T!Step(o) \in Cleanups
    => T!Step(o) \in cleaned[ops[o].tenant]

ClosesLast(o) ==
  ops[o].status \in T!Closed /\ ops[o].status # ops[o].loaded
    => \A i \in 1..4 : i \in 1..Len(ops[o].done) /\ ops[o].done[i] = "succeeded"

RunFine(o) ==
  RunTyped(o) /\ Executed(o) /\ ClosesLast(o) /\ \A i \in 1..Len(ops[o].done) : StepFine(o, i)

OpFine(o) ==
  /\ IsOp(ops[o])
  /\ ops[o].at = "transition" => ops[o].tenant \in Tenants /\ ops[o].target \in T!TenantStatuses
  /\ T!Runs(o) => RunFine(o)

\* The runs of a tenant that never overlapped.
Alone ==
  /\ \A o, p \in Operators :
       o # p /\ T!Runs(o) /\ T!Runs(p) /\ ops[o].tenant = ops[p].tenant
         => ops[o].tenant \notin Tenants \/ ops[o].tenant \in together
  /\ \A o \in Operators :
       ops[o].at = "step" /\ ops[o].tenant \notin together => T!Loaded(o) # "succeeded"

TenantsTyped == tenants \in [Tenants -> T!TenantStatuses \cup {"none"}]

TenancyTyped ==
  /\ TenantsTyped
  /\ records \in [Tenants -> [1..5 -> Outcomes \cup {"none"}]]
  /\ DOMAIN ops = Operators /\ ops = [o \in Operators |-> ops[o]]
  /\ DOMAIN cleaned = Tenants /\ cleaned = [t \in Tenants |-> cleaned[t]]

\* DeletionInOrder of one tenant, but for the steps that are repeated.
InOrder(t) ==
  /\ \A i, j \in 1..5 : i < j /\ records[t][j] # "none" => records[t][i] = "succeeded"
  /\ \A i \in 1..5 : records[t][i] = "succeeded" /\ T!_DELETE_STEPS[i] \in T!Hooks
                       => T!_DELETE_STEPS[i] \in cleaned[t]
  /\ tenants[t] \in T!Closed /\ t \notin direct => \A i \in 1..4 : records[t][i] = "succeeded"

Repeats == \A t \in Tenants, step \in T!Hooks : <<t, step>> \in repeated => t \in together

DeletionInv ==
  /\ TenancyTyped /\ Alone /\ Repeats
  /\ \A o \in Operators : OpFine(o)
  /\ \A t \in Tenants : InOrder(t)

(* The five steps.                                                          *)
LEMMA DeletionSteps ==
  /\ Len(T!_DELETE_STEPS) = 5
  /\ T!_DELETE_STEPS[1] = "mark_deleting" /\ T!_DELETE_STEPS[5] = "finish"
  /\ T!_DELETE_STEPS[2] = "cancel_tasks"
  /\ \A i \in 1..4 : T!_DELETE_STEPS[i] # "finish"
  /\ \A i \in {1, 3, 4, 5} : T!_DELETE_STEPS[i] # "cancel_tasks"
BY DEF T!_DELETE_STEPS

(* What the invariant says of the order.                                    *)
LEMMA InvIsInOrder ==
  ASSUME TenancyTyped, Repeats, \A t \in Tenants : InOrder(t) PROVE T!DeletionInOrder
<1> SUFFICES ASSUME NEW t \in Tenants
             PROVE  /\ \A i, j \in DOMAIN records[t] :
                         i < j /\ records[t][j] # "none" => records[t][i] = "succeeded"
                    /\ \A i \in DOMAIN records[t] :
                         records[t][i] = "succeeded" /\ T!_DELETE_STEPS[i] \in T!Hooks
                           => T!_DELETE_STEPS[i] \in cleaned[t]
                    /\ tenants[t] \in T!Closed /\ t \notin direct
                         => \A i \in 1 .. Len(T!_DELETE_STEPS) - 1 : records[t][i] = "succeeded"
                    /\ \A step \in T!Hooks : <<t, step>> \in repeated => t \in together
  BY DEF T!DeletionInOrder
<1>1. DOMAIN records[t] = 1..5 /\ 1 .. Len(T!_DELETE_STEPS) - 1 = 1..4
  BY DeletionSteps DEF TenancyTyped
<1> QED
  BY <1>1 DEF InOrder, Repeats

(* A run stays as it is while what is recorded and cleaned only grows.      *)
LEMMA RunStays ==
  ASSUME NEW o, RunFine(o), ops'[o] = ops[o],
         \A t \in Tenants, i \in 1..5 : records[t][i] = "succeeded" => records'[t][i] = "succeeded",
         \A t \in Tenants : cleaned[t] \subseteq cleaned'[t]
  PROVE  RunFine(o)'
<1>1. RunTyped(o)' /\ ClosesLast(o)'
  BY DEF RunFine, RunTyped, ClosesLast
<1>n. PICK n \in 0..5 : n = Len(ops[o].done)
  BY DEF RunFine, RunTyped
<1>2. ops[o].tenant \in Tenants /\ 1..Len(ops[o].done) \subseteq 1..5
  <2>1. 1..n \subseteq 1..5
    OBVIOUS
  <2> QED
    BY <1>n, <2>1 DEF RunFine, RunTyped
<1>3. Executed(o)'
  BY <1>2 DEF RunFine, Executed, T!Step, T!Index
<1>4. \A i \in 1..Len(ops[o].done) : StepFine(o, i)'
  BY <1>2 DEF RunFine, StepFine
<1> QED
  BY <1>1, <1>3, <1>4 DEF RunFine

(* A step of one operator.                                                  *)
LEMMA OneMoves ==
  ASSUME DeletionInv, NEW o \in Operators, \A p \in Operators \ {o} : ops'[p] = ops[p],
         TenancyTyped', OpFine(o)', \A t \in Tenants : InOrder(t)',
         \A t \in Tenants, i \in 1..5 : records[t][i] = "succeeded" => records'[t][i] = "succeeded",
         \A t \in Tenants : cleaned[t] \subseteq cleaned'[t],
         records' = records \/ (/\ T!Runs(o)
                                /\ \A t \in Tenants \ {ops[o].tenant} : records'[t] = records[t]),
         ops'[o].at = "step" => T!Loaded(o)' # "succeeded",
         T!Recalls(o)
  PROVE  DeletionInv'
<1>1. ASSUME NEW p \in Operators PROVE OpFine(p)'
  <2>1. CASE p # o
    <3>1. OpFine(p) /\ ops'[p] = ops[p]
      BY <2>1 DEF DeletionInv
    <3> QED
      BY <3>1, RunStays DEF OpFine, T!Runs
  <2> QED
    BY <2>1
<1>2. /\ together \subseteq together'
      /\ \A t \in Tenants :
           (\E p, q \in Operators : /\ p # q /\ T!Runs(p)' /\ T!Runs(q)'
                                    /\ ops'[p].tenant = t /\ ops'[q].tenant = t)
             => t \in together'
  BY DEF T!Recalls
<1>3. Alone'
  <2>1. ASSUME NEW p \in Operators, ops'[p].at = "step", ops'[p].tenant \notin together'
        PROVE  T!Loaded(p)' # "succeeded"
    <3>1. CASE p = o
      BY <2>1, <3>1
    <3>2. CASE p # o
      <4>1. /\ ops'[p] = ops[p] /\ ops[p].at = "step" /\ ops[p].tenant \notin together
            /\ T!Runs(p) /\ ops[p].tenant \in Tenants
        <5>1. ops'[p] = ops[p]
          BY <3>2
        <5>2. T!Runs(p) /\ OpFine(p)
          BY <2>1, <5>1 DEF T!Runs, DeletionInv
        <5> QED
          BY <1>2, <2>1, <5>1, <5>2 DEF OpFine, RunFine, RunTyped
      <4>2. T!Loaded(p) # "succeeded"
        BY <4>1 DEF DeletionInv, Alone
      <4>3. T!Loaded(p)' = records'[ops[p].tenant][T!Index(p)]
        BY <4>1 DEF T!Loaded, T!Index
      <4>4. CASE records' = records
        BY <4>2, <4>3, <4>4 DEF T!Loaded
      <4>5. CASE T!Runs(o) /\ \A t \in Tenants \ {ops[o].tenant} : records'[t] = records[t]
        <5>1. ops[p].tenant # ops[o].tenant
          BY <3>2, <4>1, <4>5 DEF DeletionInv, Alone
        <5> QED
          BY <4>1, <4>2, <4>3, <4>5, <5>1 DEF T!Loaded
      <4> QED
        BY <4>4, <4>5
    <3> QED
      BY <3>1, <3>2
  <2> QED
    BY <1>2, <2>1 DEF Alone
<1>4. Repeats'
  <2> SUFFICES ASSUME NEW t \in Tenants, NEW step \in T!Hooks, <<t, step>> \in repeated'
               PROVE  t \in together'
    BY DEF Repeats
  <2>1. CASE <<t, step>> \in repeated
    BY <1>2, <2>1 DEF DeletionInv, Repeats
  <2>2. CASE <<t, step>> \notin repeated
    <3>1. ops[o].at = "step" /\ T!Loaded(o) = "succeeded" /\ t = ops[o].tenant
      BY <2>2 DEF T!Recalls, T!At
    <3> QED
      BY <1>2, <3>1 DEF DeletionInv, Alone
  <2> QED
    BY <2>1, <2>2
<1> QED
  BY <1>1, <1>3, <1>4 DEF DeletionInv

(* A step that leaves the records alone.                                     *)
LEMMA OneGoesOn ==
  ASSUME DeletionInv, NEW o \in Operators, NEW x, ops' = [ops EXCEPT ![o] = x], OpFine(o)',
         UNCHANGED <<tenants, records>>,
         DOMAIN cleaned' = Tenants, cleaned' = [t \in Tenants |-> cleaned'[t]],
         \A t \in Tenants : cleaned[t] \subseteq cleaned'[t],
         x.at = "step" => T!Loaded(o)' # "succeeded",
         T!Recalls(o)
  PROVE  DeletionInv'
<1>1. ops'[o] = x /\ \A p \in Operators \ {o} : ops'[p] = ops[p]
  BY DEF DeletionInv, TenancyTyped
<1>2. TenancyTyped'
  BY DEF DeletionInv, TenancyTyped, TenantsTyped
<1>3. direct \subseteq direct'
  BY DEF T!Recalls
<1>4. \A t \in Tenants : InOrder(t)'
  BY <1>3 DEF DeletionInv, InOrder
<1> QED
  BY <1>1, <1>2, <1>4, OneMoves

(* A step after which the operator does not run a deletion.                  *)
LEMMA NotRunning ==
  ASSUME DeletionInv, NEW o \in Operators, NEW x, ops' = [ops EXCEPT ![o] = x], IsOp(x),
         x.at \notin {"delete", "step", "flush", "failed"},
         x.at = "transition" => x.tenant \in Tenants /\ x.target \in T!TenantStatuses,
         TenantsTyped',
         \A t \in Tenants : tenants'[t] # tenants[t] => tenants'[t] \notin T!Closed \/ t \in direct'
                                                        \/ tenants[t] \in T!Closed,
         UNCHANGED <<records, cleaned>>, T!Recalls(o)
  PROVE  DeletionInv'
<1>1. ops'[o] = x /\ \A p \in Operators \ {o} : ops'[p] = ops[p]
  BY DEF DeletionInv, TenancyTyped
<1>2. TenancyTyped'
  BY DEF DeletionInv, TenancyTyped
<1>3. OpFine(o)'
  BY <1>1 DEF OpFine, T!Runs
<1>4. direct \subseteq direct'
  BY DEF T!Recalls
<1>5. \A t \in Tenants : InOrder(t)'
  BY <1>4 DEF DeletionInv, InOrder
<1> QED
  BY <1>1, <1>2, <1>3, <1>5, OneMoves

LEMMA RunBegins ==
  ASSUME DeletionInv, NEW o \in Operators, NEW t \in Tenants, NEW target \in T!Closed,
         T!DeleteBegins(o, t, target), T!Recalls(o)
  PROVE  DeletionInv'
<1> DEFINE x == [T!Idle EXCEPT !.at = "delete", !.tenant = t, !.target = target,
                               !.status = tenants[t], !.loaded = tenants[t]]
<1>1. ops' = [ops EXCEPT ![o] = x] /\ tenants[t] # "none" /\ UNCHANGED <<tenants, records, cleaned>>
  BY DEF T!DeleteBegins, T!Notes
<1>2. /\ IsOp(x) /\ x.at = "delete" /\ x.tenant = t /\ x.target = target /\ x.done = <<>>
      /\ x.status = tenants[t] /\ x.loaded = tenants[t] /\ x.ran = {}
  BY DEF IsOp, OpFields, T!Idle
<1>3. tenants[t] \in T!TenantStatuses
  BY <1>1 DEF DeletionInv, TenancyTyped, TenantsTyped
<1> HIDE DEF x
<1>4. ops'[o] = x
  BY <1>1 DEF DeletionInv, TenancyTyped
<1>5. x.done \in Seq(Outcomes) /\ Len(x.done) \in 0..5 /\ 1..Len(x.done) = {}
  <2>1. <<>> \in Seq(Outcomes) /\ Len(<<>>) = 0 /\ 1..0 = {}
    OBVIOUS
  <2> QED
    BY <1>2, <2>1
<1>6. RunTyped(o)' /\ Executed(o)' /\ ClosesLast(o)'
  BY <1>2, <1>3, <1>4, <1>5 DEF RunTyped, Executed, ClosesLast
<1>7. OpFine(o)'
  BY <1>2, <1>4, <1>5, <1>6 DEF OpFine, RunFine
<1> QED
  BY <1>1, <1>2, <1>7, OneGoesOn DEF DeletionInv, TenancyTyped

(* A run in the middle of its work.                                         *)
LEMMA RunAt ==
  ASSUME DeletionInv, NEW o \in Operators, T!Runs(o)
  PROVE  /\ RunFine(o) /\ IsOp(ops[o]) /\ ops[o].tenant \in Tenants
         /\ ops[o].done \in Seq(Outcomes) /\ Len(ops[o].done) \in 0..5
         /\ T!Index(o) = Len(ops[o].done) + 1
         /\ T!Index(o) \in 1..5 =>
              /\ T!Loaded(o) \in Outcomes \cup {"none"}
              /\ T!Step(o) = "finish" => Len(ops[o].done) = 4
<1>1. OpFine(o) /\ RunFine(o)
  BY DEF DeletionInv, OpFine
<1>2. /\ IsOp(ops[o]) /\ ops[o].tenant \in Tenants
      /\ ops[o].done \in Seq(Outcomes) /\ Len(ops[o].done) \in 0..5
  BY <1>1 DEF OpFine, RunFine, RunTyped
<1>3. T!Index(o) = Len(ops[o].done) + 1
  BY DEF T!Index
<1>4. ASSUME T!Index(o) \in 1..5
      PROVE  /\ T!Loaded(o) \in Outcomes \cup {"none"}
             /\ T!Step(o) = "finish" => Len(ops[o].done) = 4
  <2>1. PICK k \in 1..5 : T!Index(o) = k
    BY <1>4
  <2>2. T!Loaded(o) = records[ops[o].tenant][k]
    BY <2>1 DEF T!Loaded
  <2>3. T!Loaded(o) \in Outcomes \cup {"none"}
    BY <1>2, <2>2 DEF DeletionInv, TenancyTyped
  <2>4. T!Step(o) = "finish" => k = 5
    BY <2>1, DeletionSteps DEF T!Step
  <2>5. Len(ops[o].done) = k - 1
    BY <1>2, <1>3, <2>1
  <2> QED
    BY <2>3, <2>4, <2>5
<1> QED
  BY <1>1, <1>2, <1>3, <1>4

(* A run appends the outcome of its next step.                              *)
LEMMA RunAppends ==
  ASSUME DeletionInv, NEW o \in Operators, T!Runs(o), ops[o].at # "failed", T!Index(o) \in 1..5,
         NEW x, NEW outcome \in Outcomes, ops' = [ops EXCEPT ![o] = x], IsOp(x),
         x.at \in {"delete", "failed"}, x.tenant = ops[o].tenant, x.target = ops[o].target,
         x.status = ops[o].status, x.loaded = ops[o].loaded,
         x.done = Append(ops[o].done, outcome),
         outcome = "failed" => x.at = "failed",
         \/ x.ran = ops[o].ran \cup {T!Index(o)}
         \/ x.ran = ops[o].ran /\ T!Loaded(o) = "succeeded" /\ ops[o].at = "delete",
         T!Index(o) \in x.ran /\ outcome = "succeeded" /\ T!Step(o) \in Cleanups
           => T!Step(o) \in cleaned[ops[o].tenant],
         UNCHANGED <<tenants, records, cleaned>>, T!Recalls(o)
  PROVE  DeletionInv'
<1>1. ops'[o] = x
  BY DEF DeletionInv, TenancyTyped
<1>2. /\ RunFine(o) /\ ops[o].tenant \in Tenants /\ ops[o].done \in Seq(Outcomes)
      /\ T!Index(o) = Len(ops[o].done) + 1
  BY RunAt
<1>3. PICK n \in 0..4 : n = Len(ops[o].done) /\ T!Index(o) = n + 1
  <2>1. PICK m \in 0..5 : m = Len(ops[o].done)
    BY RunAt
  <2>2. T!Index(o) = m + 1
    BY <1>2, <2>1
  <2>3. m \in 0..4
    BY <2>2
  <2> QED
    BY ONLY <2>1, <2>2, <2>3
<1>4. /\ Len(x.done) = n + 1 /\ x.done \in Seq(Outcomes) /\ x.done[n + 1] = outcome
      /\ \A i \in 1..n : x.done[i] = ops[o].done[i]
  BY <1>2, <1>3
<1>5. RunTyped(o)'
  <2>1. ASSUME NEW i \in x.ran PROVE i \in 1..(n + 1)
    <3>1. i \in ops[o].ran \/ i = n + 1
      BY <1>3, <2>1
    <3>2. i \in ops[o].ran => i \in 1..n \/ i = n + 1
      BY <1>2, <1>3 DEF RunFine, RunTyped
    <3> QED
      BY <3>1, <3>2
  <2>2. /\ ops[o].target \in T!Closed /\ ops[o].status \in T!TenantStatuses
        /\ ops[o].loaded \in T!TenantStatuses
    BY <1>2 DEF RunFine, RunTyped
  <2>3. n + 1 \in 0..5
    OBVIOUS
  <2> QED
    BY <1>1, <1>2, <1>4, <2>1, <2>2, <2>3 DEF RunTyped
<1>6. ClosesLast(o)'
  <2>1. ops[o].status \in T!Closed /\ ops[o].status # ops[o].loaded
          => \A i \in 1..4 : i \in 1..n /\ ops[o].done[i] = "succeeded"
    BY <1>2, <1>3 DEF RunFine, ClosesLast
  <2> QED
    BY <1>1, <1>4, <2>1 DEF ClosesLast
<1>7. Executed(o)'
  BY <1>1 DEF Executed
<1>8. ASSUME NEW i \in 1..(n + 1) PROVE StepFine(o, i)'
  <2>1. CASE i = n + 1
    <3>1. i \in x.ran \/ records[ops[o].tenant][i] = "succeeded"
      BY <1>3, <2>1 DEF T!Loaded
    <3>2. outcome = "succeeded" \/ x.at = "failed"
      BY DEF Outcomes
    <3>3. T!Step(o) = T!_DELETE_STEPS[i]
      BY <1>3, <2>1 DEF T!Step
    <3> QED
      BY <1>1, <1>3, <1>4, <2>1, <3>1, <3>2, <3>3 DEF StepFine
  <2>2. CASE i # n + 1
    <3>1. i \in 1..n /\ x.done[i] = ops[o].done[i] /\ i # n + 1
      BY <1>4, <1>8, <2>2
    <3>2. StepFine(o, i)
      BY <1>2, <1>3, <3>1 DEF RunFine
    <3>3. ops[o].done[i] = "succeeded"
      BY <3>2 DEF StepFine
    <3>4. i \in x.ran => i \in ops[o].ran
      BY <1>3, <3>1
    <3> QED
      BY <1>1, <3>1, <3>2, <3>3, <3>4 DEF StepFine
  <2> QED
    BY <2>1, <2>2
<1>9. RunFine(o)'
  BY <1>1, <1>4, <1>5, <1>6, <1>7, <1>8 DEF RunFine
<1>10. OpFine(o)'
  BY <1>1, <1>9 DEF OpFine
<1> QED
  BY <1>10, OneGoesOn DEF DeletionInv, TenancyTyped

(* A run loads its next step, or has executed it.                           *)
LEMMA RunGoesOn ==
  ASSUME DeletionInv, NEW o \in Operators, T!Runs(o), ops[o].at # "failed", T!Index(o) \in 1..5,
         NEW x, ops' = [ops EXCEPT ![o] = x], IsOp(x),
         x.at \in {"step", "flush"}, x.tenant = ops[o].tenant, x.target = ops[o].target,
         x.status \in T!TenantStatuses, x.loaded = ops[o].loaded, x.done = ops[o].done,
         x.status = ops[o].status \/ x.status \notin T!Closed \/ T!Step(o) = "finish",
         x.ran = ops[o].ran \/ x.ran = ops[o].ran \cup {T!Index(o)},
         x.at = "flush" => x.outcome \in Outcomes,
         x.at = "flush" /\ x.outcome = "succeeded" /\ T!Step(o) \in Cleanups
           => T!Step(o) \in cleaned'[ops[o].tenant],
         x.at = "step" => T!Loaded(o) # "succeeded",
         UNCHANGED <<tenants, records>>,
         DOMAIN cleaned' = Tenants, cleaned' = [t \in Tenants |-> cleaned'[t]],
         \A t \in Tenants : cleaned[t] \subseteq cleaned'[t],
         T!Recalls(o)
  PROVE  DeletionInv'
<1>1. ops'[o] = x
  BY DEF DeletionInv, TenancyTyped
<1>2. /\ RunFine(o) /\ ops[o].tenant \in Tenants /\ ops[o].done \in Seq(Outcomes)
      /\ T!Index(o) = Len(ops[o].done) + 1
      /\ T!Step(o) = "finish" => Len(ops[o].done) = 4
  BY RunAt
<1>3. PICK n \in 0..4 : n = Len(ops[o].done) /\ T!Index(o) = n + 1
  <2>1. PICK m \in 0..5 : m = Len(ops[o].done)
    BY RunAt
  <2>2. T!Index(o) = m + 1
    BY <1>2, <2>1
  <2>3. m \in 0..4
    BY <2>2
  <2> QED
    BY ONLY <2>1, <2>2, <2>3
<1>4. RunTyped(o)'
  <2>1. ASSUME NEW i \in x.ran PROVE i \in 1..n \/ i = n + 1
    <3>1. i \in ops[o].ran \/ i = n + 1
      BY <1>3, <2>1
    <3>2. i \in ops[o].ran => i \in 1..n \/ i = n + 1
      BY <1>2, <1>3 DEF RunFine, RunTyped
    <3> QED
      BY <3>1, <3>2
  <2>2. /\ ops[o].target \in T!Closed /\ ops[o].loaded \in T!TenantStatuses
        /\ Len(ops[o].done) \in 0..5 /\ Len(ops[o].done) \in 0..4
    BY <1>2, <1>3 DEF RunFine, RunTyped
  <2> QED
    BY <1>1, <1>2, <1>3, <2>1, <2>2 DEF RunTyped
<1>5. \A i \in 1..n : StepFine(o, i) /\ ops[o].done[i] = "succeeded"
  BY <1>2, <1>3 DEF RunFine, StepFine
<1>6. ClosesLast(o)'
  <2>1. CASE x.status = ops[o].status
    BY <1>1, <1>2, <2>1 DEF RunFine, ClosesLast
  <2>2. CASE T!Step(o) = "finish"
    <3>1. n = 4 /\ x.done = ops[o].done
      BY <1>2, <1>3, <2>2
    <3>2. \A i \in 1..4 : i \in 1..Len(x.done) /\ x.done[i] = "succeeded"
      BY <1>3, <1>5, <3>1
    <3> QED
      BY <1>1, <3>2 DEF ClosesLast
  <2>3. CASE x.status \notin T!Closed
    BY <1>1, <2>3 DEF ClosesLast
  <2> QED
    BY <2>1, <2>2, <2>3
<1>7. Executed(o)'
  <2>1. T!Step(o)' = T!Step(o)
    BY <1>1 DEF T!Step, T!Index
  <2> QED
    BY <1>1, <2>1 DEF Executed
<1>8. ASSUME NEW i \in 1..n PROVE StepFine(o, i)'
  <2>1. StepFine(o, i) /\ ops[o].done[i] = "succeeded"
    BY <1>5
  <2>2. i \in x.ran <=> i \in ops[o].ran
    BY <1>3
  <2> QED
    BY <1>1, <1>2, <2>1, <2>2 DEF StepFine
<1>9. OpFine(o)'
  BY <1>1, <1>3, <1>4, <1>6, <1>7, <1>8 DEF OpFine, RunFine
<1>10. T!Loaded(o)' = T!Loaded(o)
  BY <1>1 DEF T!Loaded, T!Index
<1> QED
  BY <1>9, <1>10, OneGoesOn

(* The status that a transition sets.                                       *)
LEMMA ClosingTyped ==
  ASSUME NEW o, RunTyped(o)
  PROVE  /\ T!Closing(o) \in T!TenantStatuses
         /\ T!Closing(o) \in T!Closed => T!Step(o) = "finish"
BY DEF RunTyped, T!Closing, T!Closed, T!TenantStatuses

LEMMA RunSteps ==
  ASSUME DeletionInv, NEW o \in Operators, T!Recalls(o),
         \/ T!SkipStep(o) \/ T!LoadStep(o) \/ T!ExecuteTransition(o) \/ T!ExecuteHook(o)
         \/ T!StepFails(o) \/ T!StepFlushes(o)
  PROVE  DeletionInv'
<1>1. /\ T!Runs(o) /\ ops[o].at # "failed" /\ UNCHANGED <<tenants, records>>
      /\ ops[o].at = "delete" => T!Index(o) <= 5
  BY DeletionSteps DEF T!SkipStep, T!LoadStep, T!ExecuteTransition, T!ExecuteHook, T!StepFails,
                       T!StepFlushes, T!At, T!Runs
<1>2. RunFine(o) /\ RunTyped(o) /\ IsOp(ops[o]) /\ ops[o].tenant \in Tenants
  BY <1>1, RunAt DEF RunFine
<1>3. T!Index(o) \in 1..5
  <2>1. PICK m \in 0..5 : m = Len(ops[o].done) /\ T!Index(o) = m + 1
    BY <1>1, RunAt
  <2>2. ops[o].at # "delete" => m \in 0..4
    BY <1>1, <1>2, <2>1 DEF RunTyped, T!Runs
  <2>3. ops[o].at = "delete" => m \in 0..4
    <3>1. m \in 0..5 /\ T!Index(o) = m + 1 /\ (ops[o].at = "delete" => T!Index(o) <= 5)
      BY <1>1, <2>1
    <3>2. ops[o].at = "delete" => m + 1 <= 5
      BY ONLY <3>1
    <3> QED
      BY ONLY <3>1, <3>2
  <2>4. m + 1 \in 1..5
    BY <2>2, <2>3
  <2> QED
    BY <2>1, <2>4
<1>4. /\ DOMAIN cleaned = Tenants /\ cleaned = [t \in Tenants |-> cleaned[t]]
      /\ ops[o].status \in T!TenantStatuses
  BY <1>2 DEF DeletionInv, TenancyTyped, RunTyped
<1>5. T!Closing(o) \in T!TenantStatuses /\ (T!Closing(o) \in T!Closed => T!Step(o) = "finish")
  BY <1>2, ClosingTyped
<1>6. CASE T!SkipStep(o)
  <2> DEFINE x == [ops[o] EXCEPT !.done = Append(@, "succeeded")]
  <2>1. /\ ops' = [ops EXCEPT ![o] = x] /\ T!Loaded(o) = "succeeded"
        /\ ops[o].at = "delete" /\ UNCHANGED cleaned
    BY <1>6 DEF T!SkipStep, T!Notes, T!At
  <2>2. /\ IsOp(x) /\ x.done = Append(ops[o].done, "succeeded") /\ x.at = "delete"
        /\ x.tenant = ops[o].tenant /\ x.target = ops[o].target
        /\ x.loaded = ops[o].loaded /\ x.status = ops[o].status /\ x.ran = ops[o].ran
    BY <1>2, <2>1 DEF IsOp, OpFields
  <2>3. T!Index(o) \notin ops[o].ran
    <3>1. PICK m \in Nat : m = Len(ops[o].done) /\ T!Index(o) = m + 1
      BY <1>1, RunAt
    <3> QED
      BY <1>2, <2>1, <3>1 DEF RunTyped
  <2> HIDE DEF x
  <2>4. "succeeded" \in Outcomes
    BY DEF Outcomes
  <2> QED
    BY <1>1, <1>3, <2>1, <2>2, <2>3, <2>4, RunAppends
<1>7. CASE T!LoadStep(o)
  <2> DEFINE ran == IF T!Loaded(o) = "none" THEN ops[o].ran \cup {T!Index(o)} ELSE ops[o].ran
             x == [ops[o] EXCEPT !.at = "step", !.ran = ran]
  <2>1. ops' = [ops EXCEPT ![o] = x] /\ T!Loaded(o) # "succeeded" /\ UNCHANGED cleaned
    BY <1>7 DEF T!LoadStep, T!Notes
  <2>2. ran = ops[o].ran \/ ran = ops[o].ran \cup {T!Index(o)}
    OBVIOUS
  <2> HIDE DEF ran
  <2>3. /\ IsOp(x) /\ x.done = ops[o].done /\ x.at = "step"
        /\ x.tenant = ops[o].tenant /\ x.target = ops[o].target
        /\ x.loaded = ops[o].loaded /\ x.status = ops[o].status /\ x.ran = ran
    BY <1>2 DEF IsOp, OpFields
  <2> HIDE DEF x
  <2> QED
    BY <1>1, <1>3, <1>4, <2>1, <2>2, <2>3, RunGoesOn
<1>8. ASSUME NEW status \in {ops[o].status, T!Closing(o)}, NEW seen, NEW outcome \in Outcomes,
             ops' = [ops EXCEPT ![o] = [ops[o] EXCEPT !.at = "flush", !.outcome = outcome,
                                          !.status = status, !.seen = seen]],
             outcome = "succeeded" /\ T!Step(o) \in Cleanups => T!Step(o) \in cleaned'[ops[o].tenant],
             DOMAIN cleaned' = Tenants, cleaned' = [t \in Tenants |-> cleaned'[t]],
             \A t \in Tenants : cleaned[t] \subseteq cleaned'[t]
      PROVE  DeletionInv'
  <2> DEFINE x == [ops[o] EXCEPT !.at = "flush", !.outcome = outcome, !.status = status, !.seen = seen]
  <2>1. /\ IsOp(x) /\ x.done = ops[o].done /\ x.at = "flush" /\ x.outcome = outcome
        /\ x.tenant = ops[o].tenant /\ x.target = ops[o].target
        /\ x.loaded = ops[o].loaded /\ x.status = status /\ x.ran = ops[o].ran
    BY <1>2 DEF IsOp, OpFields
  <2>2. ops' = [ops EXCEPT ![o] = x]
    BY <1>8
  <2>3. /\ status \in T!TenantStatuses
        /\ status = ops[o].status \/ status \notin T!Closed \/ T!Step(o) = "finish"
    BY <1>4, <1>5
  <2> HIDE DEF x
  <2> QED
    BY <1>1, <1>3, <1>8, <2>1, <2>2, <2>3, RunGoesOn
<1>9. \A at, outcome : [ops[o] EXCEPT !.at = at, !.outcome = outcome]
                       = [ops[o] EXCEPT !.at = at, !.outcome = outcome,
                                        !.status = ops[o].status, !.seen = ops[o].seen]
  BY <1>2 DEF IsOp, OpFields
<1>10. CASE T!ExecuteTransition(o)
  <2>1. T!Step(o) \notin Cleanups /\ UNCHANGED cleaned /\ "succeeded" \in Outcomes
    BY <1>10 DEF T!ExecuteTransition, Cleanups, Outcomes
  <2>2. CASE T!Closes(o)
    <3>1. ops' = [ops EXCEPT ![o] = [ops[o] EXCEPT !.at = "flush", !.outcome = "succeeded",
                                        !.status = T!Closing(o), !.seen = T!Revokes(o)]]
      BY <1>10, <2>2 DEF T!ExecuteTransition, T!Notes
    <3>2. /\ DOMAIN cleaned' = Tenants /\ cleaned' = [t \in Tenants |-> cleaned'[t]]
          /\ \A t \in Tenants : cleaned[t] \subseteq cleaned'[t]
      BY <1>4, <2>1
    <3>3. T!Closing(o) \in {ops[o].status, T!Closing(o)}
      OBVIOUS
    <3> QED
      BY ONLY <1>8, <2>1, <3>1, <3>2, <3>3
  <2>3. CASE ~T!Closes(o)
    <3>1. ops' = [ops EXCEPT ![o] = [ops[o] EXCEPT !.at = "flush", !.outcome = "succeeded"]]
      BY <1>10, <2>3 DEF T!ExecuteTransition, T!Notes
    <3>2. ops' = [ops EXCEPT ![o] = [ops[o] EXCEPT !.at = "flush", !.outcome = "succeeded",
                                        !.status = ops[o].status, !.seen = ops[o].seen]]
      BY <1>9, <3>1
    <3> QED
      BY <1>4, <1>8, <2>1, <3>2
  <2> QED
    BY <2>2, <2>3
<1>11. CASE T!ExecuteHook(o)
  <2>1. /\ ops' = [ops EXCEPT ![o] = [ops[o] EXCEPT !.at = "flush", !.outcome = "succeeded"]]
        /\ cleaned' = IF T!Step(o) = "cancel_tasks" THEN cleaned
                      ELSE [cleaned EXCEPT ![ops[o].tenant] = @ \cup {T!Step(o)}]
    BY <1>11 DEF T!ExecuteHook, T!Notes
  <2>2. ops' = [ops EXCEPT ![o] = [ops[o] EXCEPT !.at = "flush", !.outcome = "succeeded",
                                      !.status = ops[o].status, !.seen = ops[o].seen]]
    BY <1>9, <2>1
  <2>3. /\ T!Step(o) \in Cleanups => T!Step(o) \in cleaned'[ops[o].tenant]
        /\ DOMAIN cleaned' = Tenants /\ cleaned' = [t \in Tenants |-> cleaned'[t]]
        /\ \A t \in Tenants : cleaned[t] \subseteq cleaned'[t]
    BY <1>2, <1>4, <2>1 DEF Cleanups
  <2> QED
    BY <1>8, <2>2, <2>3 DEF Outcomes
<1>12. CASE T!StepFails(o)
  <2>1. UNCHANGED cleaned /\ "failed" \in Outcomes /\ "failed" # "succeeded"
    BY <1>12 DEF T!StepFails, Outcomes
  <2>2. PICK status \in {ops[o].status, T!Closing(o)} : \E seen :
          ops' = [ops EXCEPT ![o] = [ops[o] EXCEPT !.at = "flush", !.outcome = "failed",
                                       !.status = status, !.seen = seen]]
    <3>1. CASE ops' = [ops EXCEPT ![o] = [ops[o] EXCEPT !.at = "flush", !.outcome = "failed"]]
      BY <1>9, <3>1
    <3>2. CASE \E seen : ops' = [ops EXCEPT ![o] = [ops[o] EXCEPT !.at = "flush", !.outcome = "failed",
                                       !.status = T!Closing(o), !.seen = seen]]
      BY <3>2
    <3>3. T!Notes(o, [ops[o] EXCEPT !.at = "flush", !.outcome = "failed"])
          \/ \E seen : T!Notes(o, [[ops[o] EXCEPT !.at = "flush", !.outcome = "failed"]
                                   EXCEPT !.status = T!Closing(o), !.seen = seen])
      BY <1>12 DEF T!StepFails
    <3> QED
      BY <3>1, <3>2, <3>3 DEF T!Notes
  <2>3. PICK seen : ops' = [ops EXCEPT ![o] = [ops[o] EXCEPT !.at = "flush", !.outcome = "failed",
                                                 !.status = status, !.seen = seen]]
    BY <2>2
  <2> QED
    BY <1>4, <1>8, <2>1, <2>3
<1>13. CASE T!StepFlushes(o)
  <2> DEFINE at == IF ops[o].outcome = "failed" THEN "failed" ELSE "delete"
             x == [ops[o] EXCEPT !.at = at, !.done = Append(ops[o].done, ops[o].outcome),
                     !.ran = ops[o].ran \cup {T!Index(o)}, !.outcome = "none"]
  <2>1. ops' = [ops EXCEPT ![o] = x] /\ UNCHANGED cleaned /\ ops[o].at = "flush"
    BY <1>13 DEF T!StepFlushes, T!Notes, T!At
  <2>2. at \in {"delete", "failed"} /\ (ops[o].outcome = "failed" => at = "failed")
    OBVIOUS
  <2> HIDE DEF at
  <2>3. /\ IsOp(x) /\ x.done = Append(ops[o].done, ops[o].outcome) /\ x.at = at
        /\ x.tenant = ops[o].tenant /\ x.target = ops[o].target
        /\ x.loaded = ops[o].loaded /\ x.status = ops[o].status
        /\ x.ran = ops[o].ran \cup {T!Index(o)}
    BY <1>2 DEF IsOp, OpFields
  <2> HIDE DEF x
  <2>4. /\ ops[o].outcome \in Outcomes
        /\ ops[o].outcome = "succeeded" /\ T!Step(o) \in Cleanups
             => T!Step(o) \in cleaned[ops[o].tenant]
    BY <1>2, <2>1 DEF RunFine, RunTyped, Executed
  <2> QED
    BY <1>1, <1>3, <2>1, <2>2, <2>3, <2>4, RunAppends
<1> QED
  BY <1>6, <1>7, <1>10, <1>11, <1>12, <1>13

(* The commit of a run: what is on record as succeeded stays so.            *)
LEMMA RunCommits ==
  ASSUME DeletionInv, NEW o \in Operators, T!DeleteCommits(o), T!Recalls(o)
  PROVE  DeletionInv'
<1>1. /\ T!Runs(o) /\ ops[o].at \in {"delete", "failed"} /\ RunFine(o) /\ ops[o].tenant \in Tenants
      /\ IsOp(T!Idle) /\ T!Idle.at = "idle"
  BY RunAt DEF T!DeleteCommits, T!At, T!Runs, IsOp, OpFields, T!Idle
<1>t. PICK t \in Tenants : t = ops[o].tenant
  BY <1>1
<1>d. PICK done \in Seq(Outcomes), n \in 0..5 : done = ops[o].done /\ n = Len(ops[o].done)
  BY <1>1 DEF RunFine, RunTyped
<1>r. PICK ran \in SUBSET (1..n) : ran = ops[o].ran
  BY <1>1, <1>d DEF RunFine, RunTyped
<1>2. /\ ops' = [ops EXCEPT ![o] = T!Idle]
      /\ records' = [records EXCEPT ![t] = T!Recorded(o, records[t])]
      /\ tenants' = IF ops[o].status = ops[o].loaded THEN tenants
                    ELSE [tenants EXCEPT ![t] = ops[o].status]
      /\ cleaned' = IF 2 \in ran /\ done[2] = "succeeded"
                    THEN [cleaned EXCEPT ![t] = @ \cup {"cancel_tasks"}] ELSE cleaned
  BY <1>t, <1>d, <1>r DEF T!DeleteCommits, T!Leaves, T!Notes
<1>3. \A i \in 1..n : /\ i \in ran \/ records[t][i] = "succeeded"
                      /\ done[i] = "succeeded" \/ i = n
                      /\ done[i] = "succeeded" /\ i \in ran /\ T!_DELETE_STEPS[i] \in Cleanups
                           => T!_DELETE_STEPS[i] \in cleaned[t]
  BY <1>1, <1>t, <1>d, <1>r DEF RunFine, StepFine
<1>4. /\ 1..n \subseteq 1..5
      /\ \A i \in 1..n : done[i] \in Outcomes
  <2>1. n = Len(done)
    BY <1>d
  <2> QED
    BY <2>1
<1>5. records[t] \in [1..5 -> Outcomes \cup {"none"}]
  BY DEF DeletionInv, TenancyTyped
<1>6. T!Recorded(o, records[t]) =
        [i \in 1..5 |-> IF i \in ran /\ (done[i] = "failed" => records[t][i] = "none")
                        THEN done[i] ELSE records[t][i]]
  BY <1>5, <1>d, <1>r DEF T!Recorded
<1>7. /\ \A u \in Tenants \ {t} : records'[u] = records[u]
      /\ \A i \in 1..5 : records'[t][i] =
           IF i \in ran /\ (done[i] = "failed" => records[t][i] = "none")
           THEN done[i] ELSE records[t][i]
  BY <1>2, <1>6 DEF DeletionInv, TenancyTyped
<1>8. TenancyTyped'
  <2>1. TenantsTyped'
    <3>1. ops[o].status \in T!TenantStatuses
      BY <1>1 DEF RunFine, RunTyped
    <3> QED
      BY <1>2, <3>1 DEF DeletionInv, TenancyTyped, TenantsTyped
  <2>2. T!Recorded(o, records[t]) \in [1..5 -> Outcomes \cup {"none"}]
    BY <1>4, <1>5, <1>6
  <2>3. records' \in [Tenants -> [1..5 -> Outcomes \cup {"none"}]]
    BY <1>2, <2>2 DEF DeletionInv, TenancyTyped
  <2>4. DOMAIN cleaned' = Tenants /\ cleaned' = [u \in Tenants |-> cleaned'[u]]
    BY <1>2 DEF DeletionInv, TenancyTyped
  <2> QED
    BY <1>2, <2>1, <2>3, <2>4 DEF DeletionInv, TenancyTyped
<1>9. \A u \in Tenants, i \in 1..5 : records[u][i] = "succeeded" => records'[u][i] = "succeeded"
  <2>1. ASSUME NEW i \in 1..5, records[t][i] = "succeeded" PROVE records'[t][i] = "succeeded"
    BY <1>4, <1>7, <2>1 DEF Outcomes
  <2> QED
    BY <1>7, <2>1
<1>10. \A u \in Tenants : cleaned[u] \subseteq cleaned'[u]
  BY <1>2 DEF DeletionInv, TenancyTyped
\* What the run has done, whether it skipped it or executed it.
<1>11. \A i \in 1..n : done[i] = "succeeded" => records'[t][i] = "succeeded"
  BY <1>3, <1>4, <1>7, <1>9
<1>12. \A u \in Tenants : InOrder(u)'
  <2>0. direct \subseteq direct'
    BY DEF T!Recalls
  <2>1. ASSUME NEW u \in Tenants, u # t PROVE InOrder(u)'
    <3>1. records'[u] = records[u] /\ tenants'[u] = tenants[u]
      BY <1>2, <1>7, <2>1 DEF DeletionInv, TenancyTyped, TenantsTyped
    <3> QED
      BY <1>10, <2>0, <3>1 DEF DeletionInv, InOrder
  <2>2. ASSUME NEW i \in 1..5, NEW j \in 1..5, i < j, records'[t][j] # "none"
        PROVE  records'[t][i] = "succeeded"
    <3>1. CASE j \in ran
      <4>1. i \in 1..n /\ i # n
        <5>1. i < j /\ j \in 1..n /\ i \in 1..5 /\ n \in 0..5
          BY <2>2, <3>1
        <5> QED
          BY <5>1
      <4> QED
        BY <1>3, <1>11, <4>1
    <3>2. CASE j \notin ran
      BY <1>7, <1>9, <2>2, <3>2 DEF DeletionInv, InOrder
    <3> QED
      BY <3>1, <3>2
  <2>3. ASSUME NEW i \in 1..5, records'[t][i] = "succeeded", T!_DELETE_STEPS[i] \in T!Hooks
        PROVE  T!_DELETE_STEPS[i] \in cleaned'[t]
    <3>1. CASE records[t][i] = "succeeded"
      BY <1>10, <2>3, <3>1 DEF DeletionInv, InOrder
    <3>2. CASE records[t][i] # "succeeded"
      <4>1. i \in ran /\ i \in 1..n /\ done[i] = "succeeded"
        BY <1>7, <2>3, <3>2
      <4>2. CASE T!_DELETE_STEPS[i] = "cancel_tasks"
        <5>1. i = 2
          BY <4>2, DeletionSteps
        <5> QED
          BY <1>2, <4>1, <4>2, <5>1 DEF DeletionInv, TenancyTyped
      <4>3. CASE T!_DELETE_STEPS[i] # "cancel_tasks"
        BY <1>3, <1>10, <2>3, <4>1, <4>3 DEF Cleanups
      <4> QED
        BY <4>2, <4>3
    <3> QED
      BY <3>1, <3>2
  <2>4. ASSUME tenants'[t] \in T!Closed, t \notin direct', NEW i \in 1..4
        PROVE  records'[t][i] = "succeeded"
    <3>1. CASE ops[o].status = ops[o].loaded
      BY <1>2, <1>9, <2>0, <2>4, <3>1 DEF DeletionInv, InOrder
    <3>2. CASE ops[o].status # ops[o].loaded
      <4>1. ops[o].status \in T!Closed
        BY <1>2, <2>4, <3>2 DEF DeletionInv, TenancyTyped, TenantsTyped
      <4>2. i \in 1..n /\ done[i] = "succeeded"
        BY <1>1, <1>d, <3>2, <4>1 DEF RunFine, ClosesLast
      <4> QED
        BY <1>11, <4>2
    <3> QED
      BY <3>1, <3>2
  <2>5. InOrder(t)'
    BY <2>2, <2>3, <2>4 DEF InOrder
  <2> QED
    BY <2>1, <2>5
<1>13. ops'[o] = T!Idle /\ \A p \in Operators \ {o} : ops'[p] = ops[p]
  BY <1>2 DEF DeletionInv, TenancyTyped
<1>14. OpFine(o)'
  BY <1>1, <1>13 DEF OpFine, T!Runs
<1> QED
  BY <1>1, <1>7, <1>8, <1>9, <1>10, <1>12, <1>13, <1>14, <1>t, OneMoves

LEMMA DeletionInit ==
  ASSUME T!Init PROVE DeletionInv
<1>1. records \in [Tenants -> [1..5 -> Outcomes \cup {"none"}]]
      /\ \A t \in Tenants, i \in 1..5 : records[t][i] = "none"
  BY DeletionSteps DEF T!Init
<1>2. TenancyTyped
  BY <1>1 DEF T!Init, TenancyTyped, TenantsTyped, T!TenantStatuses
<1>3. \A o \in Operators : ops[o].at = "idle" /\ IsOp(ops[o])
  BY DEF T!Init, T!Idle, IsOp, OpFields
<1>4. \A t \in Tenants : InOrder(t)
  BY <1>1 DEF InOrder, T!Init, T!Closed
<1>5. Repeats
  BY DEF Repeats, T!Init
<1> QED
  BY <1>2, <1>3, <1>4, <1>5 DEF DeletionInv, Alone, OpFine, T!Runs

(* The operations of the other services.                                     *)
LEMMA OtherSteps ==
  ASSUME DeletionInv, NEW o \in Operators, T!Recalls(o),
         \/ \E t \in Tenants, u \in Users : T!provision_tenant(o, t, u) \/ T!resolve(o, t, u)
         \/ \E u \in Users, status \in Statuses :
              T!create_member(o, u, status) \/ T!update_member_status(o, u, status)
         \/ T!MemberCommits(o)
         \/ \E u \in Users, role \in BOOLEAN : T!issue_invitation(o, u, role)
         \/ T!IssueCommits(o)
         \/ \E i \in Operators, u \in Users : T!accept_invitation(o, i, u)
         \/ T!AcceptCommits(o)
         \/ \E i \in Operators : T!revoke_invitation(o, i)
         \/ T!RevokeCommits(o)
         \/ \E t \in Tenants : \/ T!suspend_tenant(o, t) \/ T!reactivate_tenant(o, t)
                               \/ T!begin_delete_tenant(o, t)
         \/ \E t \in Tenants, target \in T!Closed : T!finish_delete_tenant(o, t, target)
         \/ T!TransitionCommits(o)
         \/ T!DeleteRollsBack(o)
  PROVE  DeletionInv'
<1>1. IsOp(T!Idle) /\ T!Idle.at = "idle"
  BY DEF IsOp, OpFields, T!Idle
<1>2. ops = [ops EXCEPT ![o] = ops[o]] /\ IsOp(ops[o]) /\ tenants \in [Tenants -> T!TenantStatuses \cup {"none"}]
  BY DEF DeletionInv, TenancyTyped, TenantsTyped, OpFine
<1>3. "active" \in T!TenantStatuses /\ "active" \notin T!Closed
  BY DEF T!TenantStatuses, T!Closed
<1>4. ASSUME NEW x, ops' = [ops EXCEPT ![o] = x], IsOp(x),
             x.at \notin {"delete", "step", "flush", "failed"},
             x.at = "transition" => x.tenant \in Tenants /\ x.target \in T!TenantStatuses,
             UNCHANGED <<tenants, records, cleaned>>
      PROVE  DeletionInv'
  BY <1>2, <1>4, NotRunning DEF TenantsTyped
<1>5. ASSUME T!Leaves(o), UNCHANGED <<tenants, records, cleaned>>
      PROVE  DeletionInv'
  BY <1>1, <1>4, <1>5 DEF T!Leaves, T!Notes
<1>6. CASE T!MemberCommits(o) \/ T!IssueCommits(o) \/ T!AcceptCommits(o) \/ T!RevokeCommits(o)
            \/ T!DeleteRollsBack(o)
  BY <1>5, <1>6 DEF T!MemberCommits, T!IssueCommits, T!AcceptCommits, T!RevokeCommits, T!DeleteRollsBack
<1>7. ASSUME NEW t \in Tenants, NEW u \in Users, T!provision_tenant(o, t, u) PROVE DeletionInv'
  <2>1. ops' = [ops EXCEPT ![o] = ops[o]] /\ ops[o].at = "idle"
        /\ tenants' = [tenants EXCEPT ![t] = "active"] /\ UNCHANGED <<records, cleaned>>
    BY <1>2, <1>7 DEF T!provision_tenant, T!At
  <2>2. TenantsTyped' /\ \A r \in Tenants : tenants'[r] # tenants[r] => tenants'[r] \notin T!Closed
    BY <1>2, <1>3, <2>1 DEF TenantsTyped
  <2> QED
    BY <1>2, <2>1, <2>2, NotRunning
<1>8. CASE T!TransitionCommits(o)
  <2>1. /\ ops' = [ops EXCEPT ![o] = T!Idle] /\ ops[o].at = "transition"
        /\ tenants' = [tenants EXCEPT ![ops[o].tenant] = ops[o].target] /\ UNCHANGED <<records, cleaned>>
    BY <1>8 DEF T!TransitionCommits, T!At, T!Leaves, T!Notes
  <2>2. ops[o].target \in T!TenantStatuses /\ ops[o].tenant \in Tenants
    BY <2>1 DEF DeletionInv, OpFine
  <2>3. ops'[o] = T!Idle
    BY <2>1 DEF DeletionInv, TenancyTyped
  <2>4. /\ TenantsTyped'
        /\ \A r \in Tenants \ {ops[o].tenant} : tenants'[r] = tenants[r]
        /\ tenants'[ops[o].tenant] = ops[o].target
    BY <1>2, <2>1, <2>2 DEF TenantsTyped
  <2>5. ops[o].target \in T!Closed => tenants[ops[o].tenant] \in T!Closed \/ ops[o].tenant \in direct'
    BY <2>1, <2>3 DEF T!Recalls, T!At
  <2> QED
    BY <1>1, <2>1, <2>4, <2>5, NotRunning
<1>9. ASSUME NEW t \in Tenants, NEW u \in Users, T!resolve(o, t, u) PROVE DeletionInv'
  <2> DEFINE x == [T!Idle EXCEPT !.at = "entered", !.tenant = t]
  <2>1. IsOp(x) /\ x.at = "entered"
    BY DEF IsOp, OpFields, T!Idle
  <2>2. ops' = [ops EXCEPT ![o] = x] /\ UNCHANGED <<tenants, records, cleaned>>
    BY <1>9 DEF T!resolve, T!Notes
  <2> HIDE DEF x
  <2> QED
    BY <1>4, <2>1, <2>2
<1>10. ASSUME NEW u \in Users, NEW status \in Statuses,
              T!create_member(o, u, status) \/ T!update_member_status(o, u, status)
       PROVE  DeletionInv'
  <2> DEFINE x == [ops[o] EXCEPT !.at = "member", !.user = u, !.target = status,
                                 !.status = members[ops[o].tenant][u]]
  <2>1. IsOp(x) /\ x.at = "member"
    BY <1>2 DEF IsOp, OpFields
  <2>2. ops' = [ops EXCEPT ![o] = x] /\ UNCHANGED <<tenants, records, cleaned>>
    BY <1>10 DEF T!create_member, T!update_member_status, T!Notes
  <2> HIDE DEF x
  <2> QED
    BY <1>4, <2>1, <2>2
<1>11. ASSUME NEW u \in Users, NEW role \in BOOLEAN, T!issue_invitation(o, u, role)
       PROVE  DeletionInv'
  <2> DEFINE x == [ops[o] EXCEPT !.at = "issue", !.user = u, !.invitation = role]
  <2>1. IsOp(x) /\ x.at = "issue"
    BY <1>2 DEF IsOp, OpFields
  <2>2. ops' = [ops EXCEPT ![o] = x] /\ UNCHANGED <<tenants, records, cleaned>>
    BY <1>11 DEF T!issue_invitation, T!Notes
  <2> HIDE DEF x
  <2> QED
    BY <1>4, <2>1, <2>2
<1>12. ASSUME NEW i \in Operators, NEW u \in Users, T!accept_invitation(o, i, u)
       PROVE  DeletionInv'
  <2> DEFINE x == [T!Idle EXCEPT !.at = "accept", !.tenant = invitations[i].tenant, !.user = u,
                                 !.invitation = i, !.status = members[invitations[i].tenant][u]]
  <2>1. IsOp(x) /\ x.at = "accept"
    BY DEF IsOp, OpFields, T!Idle
  <2>2. ops' = [ops EXCEPT ![o] = x] /\ UNCHANGED <<tenants, records, cleaned>>
    BY <1>12 DEF T!accept_invitation, T!Notes
  <2> HIDE DEF x
  <2> QED
    BY <1>4, <2>1, <2>2
<1>13. ASSUME NEW i \in Operators, T!revoke_invitation(o, i) PROVE DeletionInv'
  <2> DEFINE x == [ops[o] EXCEPT !.at = "revoke", !.invitation = i]
  <2>1. IsOp(x) /\ x.at = "revoke"
    BY <1>2 DEF IsOp, OpFields
  <2>2. ops' = [ops EXCEPT ![o] = x] /\ UNCHANGED <<tenants, records, cleaned>>
    BY <1>13 DEF T!revoke_invitation, T!Notes
  <2> HIDE DEF x
  <2> QED
    BY <1>4, <2>1, <2>2
<1>14. ASSUME NEW t \in Tenants, NEW current, NEW target, NEW seen,
              T!_transition(o, t, current, target, seen)
       PROVE  DeletionInv'
  <2> DEFINE x == [T!Idle EXCEPT !.at = "transition", !.tenant = t, !.target = target, !.seen = seen]
  <2>1. IsOp(x) /\ x.at = "transition" /\ x.target = target /\ x.tenant = t
    BY DEF IsOp, OpFields, T!Idle
  <2>2. ops' = [ops EXCEPT ![o] = x] /\ UNCHANGED <<tenants, records, cleaned>>
    BY <1>14 DEF T!_transition, T!Notes
  <2>3. target \in T!TenantStatuses
    BY <1>14 DEF T!_transition, T!validate_tenant_transition, T!ALLOWED_TRANSITIONS, T!TenantStatuses
  <2> HIDE DEF x
  <2> QED
    BY <1>4, <2>1, <2>2, <2>3
<1>15. CASE \/ \E t \in Tenants : \/ T!suspend_tenant(o, t) \/ T!reactivate_tenant(o, t)
                                 \/ T!begin_delete_tenant(o, t)
            \/ \E t \in Tenants, target \in T!Closed : T!finish_delete_tenant(o, t, target)
  BY <1>14, <1>15 DEF T!suspend_tenant, T!reactivate_tenant, T!begin_delete_tenant, T!finish_delete_tenant
<1> QED
  BY <1>6, <1>7, <1>8, <1>9, <1>10, <1>11, <1>12, <1>13, <1>15

LEMMA DeletionNext ==
  ASSUME DeletionInv, [T!Next]_(T!tenancyVars) PROVE DeletionInv'
<1>1. ASSUME UNCHANGED <<tenants, records, ops, cleaned, together, repeated, direct>> PROVE DeletionInv'
  <2>1. TenancyTyped' /\ Alone' /\ Repeats' /\ \A t \in Tenants : InOrder(t)'
    BY <1>1 DEF DeletionInv, TenancyTyped, TenantsTyped, Alone, Repeats, InOrder, T!Runs, T!Loaded, T!Index
  <2>2. ASSUME NEW o \in Operators PROVE OpFine(o)'
    <3>1. OpFine(o) /\ ops'[o] = ops[o] /\ records' = records /\ cleaned' = cleaned
      BY <1>1 DEF DeletionInv
    <3>2. T!Runs(o)' <=> T!Runs(o)
      BY <3>1 DEF T!Runs
    <3>3. RunFine(o) => RunFine(o)'
      BY <3>1, RunStays
    <3> QED
      BY <3>1, <3>2, <3>3 DEF OpFine
  <2> QED
    BY <2>1, <2>2 DEF DeletionInv
<1>2. CASE \E i \in Operators : T!Expires(i) /\ UNCHANGED <<together, repeated, direct>>
  BY <1>1, <1>2 DEF T!Expires
<1>3. CASE UNCHANGED T!tenancyVars
  BY <1>1, <1>3 DEF T!tenancyVars
<1>4. ASSUME NEW o \in Operators, T!OperatorStep(o), T!Recalls(o) PROVE DeletionInv'
  <2>1. CASE \E t \in Tenants, target \in T!Closed : T!DeleteBegins(o, t, target)
    BY <1>4, <2>1, RunBegins
  <2>2. CASE \/ T!SkipStep(o) \/ T!LoadStep(o) \/ T!ExecuteTransition(o) \/ T!ExecuteHook(o)
             \/ T!StepFails(o) \/ T!StepFlushes(o)
    BY <1>4, <2>2, RunSteps
  <2>3. CASE T!DeleteCommits(o)
    BY <1>4, <2>3, RunCommits
  <2> QED
    BY <1>4, <2>1, <2>2, <2>3, OtherSteps DEF T!OperatorStep
<1> QED
  BY <1>2, <1>3, <1>4 DEF T!Next

(* A tenant's deletion workflow records its steps in their order, a step     *)
(* that succeeded has run its hook, and a tenant that is archived or deleted *)
(* by it has every step before finish on record as succeeded: for any        *)
(* number of operators, whatever fails, is rolled back or retried, and with  *)
(* retries that overlap.  Only retries that overlap execute a hook again     *)
(* that is on record as succeeded (TenantDeletionOrchestrator.run).          *)
THEOREM DeletionKeepsOrder == T!Spec => []DeletionInOrder
<1>1. DeletionInv => T!DeletionInOrder
  BY InvIsInOrder DEF DeletionInv
<1> QED
  BY DeletionInit, DeletionNext, <1>1, PTL DEF T!Spec, DeletionInOrder

-----------------------------------------------------------------------------
(* Tenancy: legal histories of one operator at a time                       *)

IsInvitation(x) ==
  x = [f \in {"status", "tenant", "email", "role", "expired", "accepted_by"} |-> x[f]]

IsOpen(i) == i.status = "pending" /\ ~i.expired

\* What an operator that loaded one status may commit.
Reaches(loaded, status) ==
  \/ status = loaded
  \/ T!validate_tenant_transition(loaded, status)
  \/ T!validate_tenant_transition(loaded, "deleting") /\ status \in {"archived", "deleted"}

\* What an operator has loaded is what the tables still hold.
OpLegal(o) ==
  LET op == ops[o] IN
  /\ IsOp(op)
  /\ op.at = "transition" =>
       op.tenant \in Tenants /\ Reaches(tenants[op.tenant], op.target)
  /\ op.at \in {"delete", "step", "flush", "failed"} =>
       /\ op.tenant \in Tenants /\ op.loaded = tenants[op.tenant]
       /\ op.target \in {"archived", "deleted"}
       /\ Reaches(op.loaded, op.status)
       /\ op.status \in {"active", "suspended"} => op.status = op.loaded
  /\ op.at = "accept" => op.invitation \in Operators /\ IsOpen(invitations[op.invitation])
  /\ op.at = "revoke" =>
       op.invitation \in Operators /\ invitations[op.invitation].status = "pending"
  /\ op.at = "issue" =>
       /\ invitations[o] = T!NoInvitation
       /\ \A p \in Operators : ~(/\ IsOpen(invitations[p]) /\ invitations[p].tenant = op.tenant
                                 /\ invitations[p].email = op.user)

InvitationsFine ==
  /\ DOMAIN invitations = Operators /\ invitations = [o \in Operators |-> invitations[o]]
  /\ \A i \in Operators : /\ IsInvitation(invitations[i]) /\ invitations[i].expired \in BOOLEAN
                          /\ invitations[i].expired =>
                               invitations[i].status \in {"pending", "revoked"}
  /\ \A i, j \in Operators :
       /\ IsOpen(invitations[i]) /\ IsOpen(invitations[j])
       /\ invitations[i].tenant = invitations[j].tenant
       /\ invitations[i].email = invitations[j].email
       => i = j

LegalInv ==
  /\ tenants \in [Tenants -> T!TenantStatuses \cup {"none"}]
  /\ DOMAIN ops = Operators /\ ops = [o \in Operators |-> ops[o]]
  /\ InvitationsFine
  /\ \A o \in Operators : OpLegal(o)

LEMMA Idles == IsOp(T!Idle) /\ T!Idle.at = "idle"
BY DEF IsOp, OpFields, T!Idle

(* One operator moves while the others are idle.                             *)
LEMMA SerialFrame ==
  ASSUME LegalInv, NEW o \in Operators, \A p \in Operators \ {o} : ops[p] = T!Idle,
         NEW x, ops' = [ops EXCEPT ![o] = x], x = T!Idle \/ OpLegal(o)',
         tenants' \in [Tenants -> T!TenantStatuses \cup {"none"}], InvitationsFine'
  PROVE  LegalInv'
<1>1. ops'[o] = x /\ \A p \in Operators \ {o} : ops'[p] = T!Idle
  BY DEF LegalInv
<1>2. ASSUME NEW p \in Operators, ops'[p] = T!Idle PROVE OpLegal(p)'
  BY <1>2, Idles DEF OpLegal
<1>3. \A p \in Operators : OpLegal(p)'
  BY <1>1, <1>2
<1> QED
  BY <1>3 DEF LegalInv

(* The statuses stay.                                                        *)
LEMMA InvitationsLegal ==
  ASSUME LegalInv, InvitationsFine',
         \A i \in Operators : \/ invitations'[i] = invitations[i]
                              \/ /\ invitations[i].status \notin {"accepted", "revoked"}
                                 /\ invitations[i].expired => invitations'[i].status # "accepted",
         \A t \in Tenants : \/ Reaches(tenants[t], tenants'[t])
                            \/ tenants[t] = "none" /\ tenants'[t] = "active"
  PROVE  T!LegalStep
<1>1. \A i \in Operators :
        /\ invitations[i].status \in {"accepted", "revoked"} => invitations'[i] = invitations[i]
        /\ invitations[i].expired => invitations'[i].status # "accepted"
  BY DEF LegalInv, InvitationsFine
<1>2. \A i, j \in Operators :
        LET a == invitations'[i]  b == invitations'[j] IN
        a.status = "pending" /\ ~a.expired /\ b.status = "pending" /\ ~b.expired
          /\ a.tenant = b.tenant /\ a.email = b.email  =>  i = j
  BY DEF InvitationsFine, IsOpen
<1> QED
  BY <1>1, <1>2 DEF T!LegalStep, Reaches

(* Steps that only load.                                                     *)
LEMMA SerialLoads ==
  ASSUME LegalInv, NEW o \in Operators, \A p \in Operators \ {o} : ops[p] = T!Idle,
         NEW x, ops' = [ops EXCEPT ![o] = x], x = T!Idle \/ OpLegal(o)',
         UNCHANGED <<tenants, invitations>>
  PROVE  LegalInv' /\ T!LegalStep
<1>1. tenants' \in [Tenants -> T!TenantStatuses \cup {"none"}] /\ InvitationsFine'
  BY DEF LegalInv, InvitationsFine
<1>2. LegalInv'
  BY <1>1, SerialFrame
<1>3. T!LegalStep
  BY <1>1, InvitationsLegal DEF Reaches
<1> QED
  BY <1>2, <1>3

LEMMA SerialStep ==
  ASSUME LegalInv, NEW o \in Operators, \A p \in Operators \ {o} : ops[p] = T!Idle,
         T!OperatorStep(o)
  PROVE  LegalInv' /\ T!LegalStep
<1>0. /\ OpLegal(o) /\ IsOp(ops[o]) /\ ops = [ops EXCEPT ![o] = ops[o]]
      /\ tenants \in [Tenants -> T!TenantStatuses \cup {"none"}] /\ InvitationsFine
  BY DEF LegalInv, OpLegal
<1>1. ASSUME NEW x, ops' = [ops EXCEPT ![o] = x], IsOp(x), x.at \in {"idle", "entered", "member"},
             UNCHANGED <<tenants, invitations>>
      PROVE  LegalInv' /\ T!LegalStep
  <2>1. ops'[o] = x
    BY <1>1 DEF LegalInv
  <2>2. OpLegal(o)'
    BY <1>1, <2>1 DEF OpLegal
  <2> QED
    BY <1>1, <2>2, SerialLoads
<1>2. CASE T!MemberCommits(o) \/ T!DeleteRollsBack(o)
  <2>1. ops' = [ops EXCEPT ![o] = T!Idle] /\ UNCHANGED <<tenants, invitations>>
    BY <1>2 DEF T!MemberCommits, T!DeleteRollsBack, T!Leaves, T!Notes
  <2> QED
    BY <1>1, <2>1, Idles
<1>3. ASSUME NEW t \in Tenants, NEW u \in Users, T!resolve(o, t, u)
      PROVE  LegalInv' /\ T!LegalStep
  <2> DEFINE x == [T!Idle EXCEPT !.at = "entered", !.tenant = t]
  <2>1. IsOp(x) /\ x.at = "entered"
    BY DEF IsOp, OpFields, T!Idle
  <2>2. ops' = [ops EXCEPT ![o] = x] /\ UNCHANGED <<tenants, invitations>>
    BY <1>3 DEF T!resolve, T!Notes
  <2> HIDE DEF x
  <2> QED
    BY <1>1, <2>1, <2>2
<1>4. ASSUME NEW u \in Users, NEW status \in Statuses,
             T!create_member(o, u, status) \/ T!update_member_status(o, u, status)
      PROVE  LegalInv' /\ T!LegalStep
  <2> DEFINE x == [ops[o] EXCEPT !.at = "member", !.user = u, !.target = status,
                                 !.status = members[ops[o].tenant][u]]
  <2>1. IsOp(x) /\ x.at = "member"
    BY <1>0 DEF IsOp, OpFields
  <2>2. ops' = [ops EXCEPT ![o] = x] /\ UNCHANGED <<tenants, invitations>>
    BY <1>4 DEF T!create_member, T!update_member_status, T!Notes
  <2> HIDE DEF x
  <2> QED
    BY <1>1, <2>1, <2>2
<1>5. ASSUME NEW t \in Tenants, NEW u \in Users, T!provision_tenant(o, t, u)
      PROVE  LegalInv' /\ T!LegalStep
  <2>1. /\ ops' = [ops EXCEPT ![o] = ops[o]] /\ ops[o].at = "idle" /\ tenants[t] = "none"
        /\ tenants' = [tenants EXCEPT ![t] = "active"] /\ UNCHANGED invitations
    BY <1>0, <1>5 DEF T!provision_tenant, T!At
  <2>2. ops'[o] = ops[o]
    BY <2>1 DEF LegalInv
  <2>3. OpLegal(o)'
    BY <1>0, <2>1, <2>2 DEF OpLegal
  <2>4. tenants' \in [Tenants -> T!TenantStatuses \cup {"none"}] /\ InvitationsFine'
    BY <1>0, <2>1 DEF InvitationsFine, T!TenantStatuses
  <2>5. \A r \in Tenants : \/ Reaches(tenants[r], tenants'[r])
                           \/ tenants[r] = "none" /\ tenants'[r] = "active"
    BY <1>0, <2>1 DEF Reaches
  <2> QED
    BY <2>1, <2>3, <2>4, <2>5, SerialFrame, InvitationsLegal
<1>6. ASSUME NEW u \in Users, NEW role \in BOOLEAN, T!issue_invitation(o, u, role)
      PROVE  LegalInv' /\ T!LegalStep
  <2> DEFINE x == [ops[o] EXCEPT !.at = "issue", !.user = u, !.invitation = role]
  <2>1. IsOp(x) /\ x.at = "issue" /\ x.user = u /\ x.tenant = ops[o].tenant
    BY <1>0 DEF IsOp, OpFields
  <2>2. /\ ops' = [ops EXCEPT ![o] = x] /\ UNCHANGED <<tenants, invitations>>
        /\ invitations[o] = T!NoInvitation
        /\ \A p \in Operators : ~(/\ IsOpen(invitations[p]) /\ invitations[p].tenant = ops[o].tenant
                                  /\ invitations[p].email = u)
    BY <1>6 DEF T!issue_invitation, T!Notes, IsOpen
  <2> HIDE DEF x
  <2>3. ops'[o] = x
    BY <2>2 DEF LegalInv
  <2>4. OpLegal(o)'
    BY <2>1, <2>2, <2>3 DEF OpLegal, IsOpen
  <2> QED
    BY <2>2, <2>4, SerialLoads
<1>7. ASSUME NEW i \in Operators, NEW u \in Users, T!accept_invitation(o, i, u)
      PROVE  LegalInv' /\ T!LegalStep
  <2> DEFINE x == [T!Idle EXCEPT !.at = "accept", !.tenant = invitations[i].tenant, !.user = u,
                                 !.invitation = i, !.status = members[invitations[i].tenant][u]]
  <2>1. IsOp(x) /\ x.at = "accept" /\ x.invitation = i
    BY DEF IsOp, OpFields, T!Idle
  <2>2. ops' = [ops EXCEPT ![o] = x] /\ UNCHANGED <<tenants, invitations>> /\ IsOpen(invitations[i])
    BY <1>7 DEF T!accept_invitation, T!Notes, IsOpen
  <2> HIDE DEF x
  <2>3. ops'[o] = x
    BY <2>2 DEF LegalInv
  <2>4. OpLegal(o)'
    BY <2>1, <2>2, <2>3 DEF OpLegal, IsOpen
  <2> QED
    BY <2>2, <2>4, SerialLoads
<1>8. ASSUME NEW i \in Operators, T!revoke_invitation(o, i) PROVE LegalInv' /\ T!LegalStep
  <2> DEFINE x == [ops[o] EXCEPT !.at = "revoke", !.invitation = i]
  <2>1. IsOp(x) /\ x.at = "revoke" /\ x.invitation = i
    BY <1>0 DEF IsOp, OpFields
  <2>2. ops' = [ops EXCEPT ![o] = x] /\ UNCHANGED <<tenants, invitations>>
        /\ invitations[i].status = "pending"
    BY <1>8 DEF T!revoke_invitation, T!Notes
  <2> HIDE DEF x
  <2>3. ops'[o] = x
    BY <2>2 DEF LegalInv
  <2>4. OpLegal(o)'
    BY <2>1, <2>2, <2>3 DEF OpLegal
  <2> QED
    BY <2>2, <2>4, SerialLoads
<1>21. ASSUME NEW t \in Tenants, NEW current, NEW target, NEW seen,
              T!_transition(o, t, current, target, seen),
              current = tenants[t] \/ (Reaches(tenants[t], current) /\ target \in T!Closed)
       PROVE  LegalInv' /\ T!LegalStep
  <2> DEFINE x == [T!Idle EXCEPT !.at = "transition", !.tenant = t, !.target = target, !.seen = seen]
  <2>1. IsOp(x) /\ x.at = "transition" /\ x.tenant = t /\ x.target = target
    BY DEF IsOp, OpFields, T!Idle
  <2>2. ops' = [ops EXCEPT ![o] = x] /\ UNCHANGED <<tenants, invitations>>
        /\ T!validate_tenant_transition(current, target)
    BY <1>21 DEF T!_transition, T!Notes
  <2> HIDE DEF x
  <2>3. ops'[o] = x
    BY <2>2 DEF LegalInv
  <2>4. Reaches(tenants[t], target)
    <3>1. CASE current = tenants[t]
      BY <2>2, <3>1 DEF Reaches
    <3>2. CASE Reaches(tenants[t], current) /\ target \in T!Closed
      BY <2>2, <3>2 DEF Reaches, T!validate_tenant_transition, T!ALLOWED_TRANSITIONS, T!Closed
    <3> QED
      BY <1>21, <3>1, <3>2
  <2>5. OpLegal(o)'
    BY <2>1, <2>2, <2>3, <2>4 DEF OpLegal, Reaches
  <2> QED
    BY <2>2, <2>5, SerialLoads
<1>9. CASE \/ \E t \in Tenants : \/ T!suspend_tenant(o, t) \/ T!reactivate_tenant(o, t)
                                \/ T!begin_delete_tenant(o, t)
           \/ \E t \in Tenants, target \in T!Closed : T!finish_delete_tenant(o, t, target)
  <2>1. ASSUME NEW t \in Tenants, NEW target \in T!Closed, ops[o].at = "transition",
               ops[o].tenant = t, T!_transition(o, t, ops[o].target, target, ops[o].seen)
        PROVE  LegalInv' /\ T!LegalStep
    <3>1. Reaches(tenants[t], ops[o].target)
      BY <1>0, <2>1 DEF OpLegal
    <3> QED
      BY <1>21, <2>1, <3>1
  <2> QED
    BY <1>9, <1>21, <2>1 DEF T!suspend_tenant, T!reactivate_tenant, T!begin_delete_tenant,
                             T!finish_delete_tenant, T!At
<1>10. CASE T!TransitionCommits(o)
  <2>1. /\ ops' = [ops EXCEPT ![o] = T!Idle] /\ ops[o].at = "transition" /\ UNCHANGED invitations
        /\ tenants' = [tenants EXCEPT ![ops[o].tenant] = ops[o].target]
    BY <1>10 DEF T!TransitionCommits, T!At, T!Leaves, T!Notes
  <2>2. ops[o].tenant \in Tenants /\ Reaches(tenants[ops[o].tenant], ops[o].target)
    BY <1>0, <2>1 DEF OpLegal
  <2>3. ops[o].target \in T!TenantStatuses \cup {"none"}
    BY <1>0, <2>2 DEF Reaches, T!validate_tenant_transition, T!ALLOWED_TRANSITIONS, T!TenantStatuses
  <2>4. tenants' \in [Tenants -> T!TenantStatuses \cup {"none"}] /\ InvitationsFine'
    BY <1>0, <2>1, <2>3 DEF InvitationsFine
  <2>5. \A r \in Tenants : Reaches(tenants[r], tenants'[r])
    BY <1>0, <2>1, <2>2 DEF Reaches
  <2> QED
    BY <2>1, <2>4, <2>5, SerialFrame, InvitationsLegal
<1>11. CASE T!IssueCommits(o)
  <2> DEFINE new == [T!NoInvitation EXCEPT !.status = "pending", !.tenant = ops[o].tenant,
                                           !.email = ops[o].user, !.role = ops[o].invitation]
  <2>1. /\ ops' = [ops EXCEPT ![o] = T!Idle] /\ ops[o].at = "issue" /\ UNCHANGED tenants
        /\ invitations' = [invitations EXCEPT ![o] = new]
    BY <1>11 DEF T!IssueCommits, T!At, T!Leaves, T!Notes
  <2>2. /\ IsInvitation(new) /\ new.status = "pending" /\ new.expired = FALSE
        /\ new.tenant = ops[o].tenant /\ new.email = ops[o].user
    BY DEF IsInvitation, T!NoInvitation
  <2>3. /\ invitations[o] = T!NoInvitation /\ T!NoInvitation.status = "none" /\ ~T!NoInvitation.expired
        /\ \A p \in Operators : ~(/\ IsOpen(invitations[p]) /\ invitations[p].tenant = ops[o].tenant
                                  /\ invitations[p].email = ops[o].user)
    BY <1>0, <2>1 DEF OpLegal, T!NoInvitation
  <2> HIDE DEF new
  <2>4. invitations'[o] = new /\ \A p \in Operators \ {o} : invitations'[p] = invitations[p]
    BY <1>0, <2>1 DEF InvitationsFine
  <2>5. InvitationsFine'
    <3>1. DOMAIN invitations' = Operators /\ invitations' = [p \in Operators |-> invitations'[p]]
      BY <1>0, <2>1 DEF InvitationsFine
    <3>2. \A p \in Operators \ {o} : IsOpen(invitations'[p]) <=> IsOpen(invitations[p])
      BY <2>4
    <3>3. \A i, j \in Operators :
             /\ IsOpen(invitations'[i]) /\ IsOpen(invitations'[j])
             /\ invitations'[i].tenant = invitations'[j].tenant
             /\ invitations'[i].email = invitations'[j].email
             => i = j
      BY <1>0, <2>2, <2>3, <2>4, <3>2 DEF InvitationsFine
    <3> QED
      BY <1>0, <2>2, <2>4, <3>1, <3>3 DEF InvitationsFine, IsOpen
  <2> QED
    BY <1>0, <2>1, <2>3, <2>4, <2>5, SerialFrame, InvitationsLegal DEF Reaches
<1>12. ASSUME NEW i \in Operators, NEW s \in {"accepted", "revoked"}, NEW by,
              invitations[i].status = "pending", s = "accepted" => ~invitations[i].expired,
              \/ invitations' = [invitations EXCEPT ![i].status = s]
              \/ invitations' = [invitations EXCEPT ![i].status = s, ![i].accepted_by = by],
              ops' = [ops EXCEPT ![o] = T!Idle], UNCHANGED tenants
       PROVE  LegalInv' /\ T!LegalStep
  <2>1. /\ DOMAIN invitations' = Operators /\ invitations' = [p \in Operators |-> invitations'[p]]
        /\ \A p \in Operators \ {i} : invitations'[p] = invitations[p]
    BY <1>0, <1>12 DEF InvitationsFine
  <2>2. IsInvitation(invitations[i])
    BY <1>0 DEF InvitationsFine
  <2>3. /\ invitations'[i] = [invitations[i] EXCEPT !.status = s]
           \/ invitations'[i] = [invitations[i] EXCEPT !.status = s, !.accepted_by = by]
    BY <1>0, <1>12 DEF InvitationsFine
  <2>4. /\ IsInvitation(invitations'[i]) /\ invitations'[i].status = s
        /\ invitations'[i].expired = invitations[i].expired
    BY <2>2, <2>3 DEF IsInvitation
  <2>5. InvitationsFine'
    <3>1. ~IsOpen(invitations'[i])
      BY <1>12, <2>4 DEF IsOpen
    <3>2. \A p \in Operators \ {i} : IsOpen(invitations'[p]) <=> IsOpen(invitations[p])
      BY <2>1
    <3>3. \A p, q \in Operators :
             /\ IsOpen(invitations'[p]) /\ IsOpen(invitations'[q])
             /\ invitations'[p].tenant = invitations'[q].tenant
             /\ invitations'[p].email = invitations'[q].email
             => p = q
      BY <1>0, <2>1, <3>1, <3>2 DEF InvitationsFine
    <3>4. \A p \in Operators : /\ IsInvitation(invitations'[p]) /\ invitations'[p].expired \in BOOLEAN
                               /\ invitations'[p].expired =>
                                    invitations'[p].status \in {"pending", "revoked"}
      BY <1>0, <1>12, <2>1, <2>4 DEF InvitationsFine
    <3> QED
      BY <2>1, <3>3, <3>4 DEF InvitationsFine
  <2>6. \A p \in Operators : \/ invitations'[p] = invitations[p]
                             \/ /\ invitations[p].status \notin {"accepted", "revoked"}
                                /\ invitations[p].expired => invitations'[p].status # "accepted"
    BY <1>12, <2>1, <2>4
  <2> QED
    BY <1>0, <1>12, <2>5, <2>6, SerialFrame, InvitationsLegal DEF Reaches
<1>13. CASE T!AcceptCommits(o)
  <2>1. /\ ops' = [ops EXCEPT ![o] = T!Idle] /\ UNCHANGED tenants
        /\ ops[o].invitation \in Operators /\ IsOpen(invitations[ops[o].invitation])
    BY <1>0, <1>13 DEF T!AcceptCommits, T!At, T!Leaves, T!Notes, OpLegal
  <2>2. CASE UNCHANGED invitations
    BY <1>1, <2>1, <2>2, Idles
  <2>3. CASE invitations' = [invitations EXCEPT ![ops[o].invitation].status = "accepted",
                                                ![ops[o].invitation].accepted_by = ops[o].user]
    BY <1>12, <2>1, <2>3 DEF IsOpen
  <2> QED
    BY <1>13, <2>2, <2>3 DEF T!AcceptCommits
<1>14. CASE T!RevokeCommits(o)
  BY <1>0, <1>12, <1>14 DEF T!RevokeCommits, T!At, T!Leaves, T!Notes, OpLegal
<1>15. ASSUME NEW t \in Tenants, NEW target \in T!Closed, T!DeleteBegins(o, t, target)
       PROVE  LegalInv' /\ T!LegalStep
  <2> DEFINE x == [T!Idle EXCEPT !.at = "delete", !.tenant = t, !.target = target,
                                 !.status = tenants[t], !.loaded = tenants[t]]
  <2>1. /\ IsOp(x) /\ x.at = "delete" /\ x.tenant = t /\ x.target = target
        /\ x.status = tenants[t] /\ x.loaded = tenants[t]
    BY DEF IsOp, OpFields, T!Idle
  <2>2. ops' = [ops EXCEPT ![o] = x] /\ UNCHANGED <<tenants, invitations>>
    BY <1>15 DEF T!DeleteBegins, T!Notes
  <2> HIDE DEF x
  <2>3. ops'[o] = x
    BY <2>2 DEF LegalInv
  <2>4. OpLegal(o)'
    BY <2>1, <2>2, <2>3 DEF OpLegal, Reaches, T!Closed
  <2> QED
    BY <2>2, <2>4, SerialLoads
\* A step of a run.
<1>16. ASSUME T!Runs(o), NEW x, ops' = [ops EXCEPT ![o] = x], IsOp(x),
              x.at \in {"delete", "step", "flush", "failed"},
              x.tenant = ops[o].tenant, x.target = ops[o].target, x.loaded = ops[o].loaded,
              \/ x.status = ops[o].status
              \/ T!validate_tenant_transition(ops[o].status, x.status) /\ x.status = T!Closing(o),
              UNCHANGED <<tenants, invitations>>
       PROVE  LegalInv' /\ T!LegalStep
  <2>1. ops'[o] = x
    BY <1>16 DEF LegalInv
  <2>2. /\ ops[o].tenant \in Tenants /\ ops[o].loaded = tenants[ops[o].tenant]
        /\ ops[o].target \in {"archived", "deleted"} /\ Reaches(ops[o].loaded, ops[o].status)
        /\ ops[o].status \in {"active", "suspended"} => ops[o].status = ops[o].loaded
    BY <1>0, <1>16 DEF OpLegal, T!Runs
  <2>3. /\ Reaches(ops[o].loaded, x.status)
        /\ x.status \in {"active", "suspended"} => x.status = ops[o].loaded
    <3>1. CASE x.status = ops[o].status
      BY <2>2, <3>1
    <3>2. CASE T!validate_tenant_transition(ops[o].status, x.status) /\ x.status = T!Closing(o)
      <4>1. x.status \in {"deleting", "archived", "deleted"}
        BY <2>2, <3>2 DEF T!Closing
      <4> QED
        BY <2>2, <3>2, <4>1 DEF Reaches, T!validate_tenant_transition, T!ALLOWED_TRANSITIONS
    <3> QED
      BY <1>16, <3>1, <3>2
  <2>4. OpLegal(o)'
    BY <1>16, <2>1, <2>2, <2>3 DEF OpLegal, Reaches, T!validate_tenant_transition
  <2> QED
    BY <1>16, <2>4, SerialLoads
<1>17. CASE T!SkipStep(o)
  <2> DEFINE x == [ops[o] EXCEPT !.done = Append(@, "succeeded")]
  <2>1. /\ IsOp(x) /\ x.at = ops[o].at /\ x.tenant = ops[o].tenant /\ x.target = ops[o].target
        /\ x.status = ops[o].status /\ x.loaded = ops[o].loaded
    BY <1>0 DEF IsOp, OpFields
  <2>2. /\ ops' = [ops EXCEPT ![o] = x] /\ UNCHANGED <<tenants, invitations>> /\ ops[o].at = "delete"
    BY <1>17 DEF T!SkipStep, T!Notes, T!At
  <2> HIDE DEF x
  <2> QED
    BY <1>16, <2>1, <2>2 DEF T!Runs
<1>19. CASE T!LoadStep(o)
  <2>1. PICK ran : ops' = [ops EXCEPT ![o] = [ops[o] EXCEPT !.at = "step", !.ran = ran]]
    BY <1>19 DEF T!LoadStep, T!Notes
  <2> DEFINE x == [ops[o] EXCEPT !.at = "step", !.ran = ran]
  <2>2. /\ IsOp(x) /\ x.at = "step" /\ x.tenant = ops[o].tenant /\ x.target = ops[o].target
        /\ x.status = ops[o].status /\ x.loaded = ops[o].loaded
    BY <1>0 DEF IsOp, OpFields
  <2>3. /\ ops' = [ops EXCEPT ![o] = x] /\ UNCHANGED <<tenants, invitations>> /\ ops[o].at = "delete"
    BY <1>19, <2>1 DEF T!LoadStep, T!At
  <2> HIDE DEF x
  <2> QED
    BY <1>16, <2>2, <2>3 DEF T!Runs
<1>20. CASE T!StepFlushes(o)
  <2> DEFINE at == IF ops[o].outcome = "failed" THEN "failed" ELSE "delete"
             x == [ops[o] EXCEPT !.at = at, !.done = Append(ops[o].done, ops[o].outcome),
                     !.ran = ops[o].ran \cup {T!Index(o)}, !.outcome = "none"]
  <2>1. ops' = [ops EXCEPT ![o] = x] /\ UNCHANGED <<tenants, invitations>> /\ ops[o].at = "flush"
    BY <1>20 DEF T!StepFlushes, T!Notes, T!At
  <2>2. at \in {"delete", "failed"}
    OBVIOUS
  <2> HIDE DEF at
  <2>3. /\ IsOp(x) /\ x.at = at /\ x.tenant = ops[o].tenant /\ x.target = ops[o].target
        /\ x.status = ops[o].status /\ x.loaded = ops[o].loaded
    BY <1>0 DEF IsOp, OpFields
  <2> HIDE DEF x
  <2> QED
    BY <1>16, <2>1, <2>2, <2>3 DEF T!Runs
\* A step that is executed, with the status it sets.
<1>22. ASSUME ops[o].at = "step", UNCHANGED <<tenants, invitations>>, NEW status, NEW seen, NEW outcome,
              \/ status = ops[o].status
              \/ T!validate_tenant_transition(ops[o].status, status) /\ status = T!Closing(o),
              ops' = [ops EXCEPT ![o] = [ops[o] EXCEPT !.at = "flush", !.outcome = outcome,
                                           !.status = status, !.seen = seen]]
       PROVE  LegalInv' /\ T!LegalStep
  <2> DEFINE x == [ops[o] EXCEPT !.at = "flush", !.outcome = outcome, !.status = status, !.seen = seen]
  <2>1. /\ IsOp(x) /\ x.at = "flush" /\ x.tenant = ops[o].tenant /\ x.target = ops[o].target
        /\ x.status = status /\ x.loaded = ops[o].loaded
    BY <1>0 DEF IsOp, OpFields
  <2>2. ops' = [ops EXCEPT ![o] = x]
    BY <1>22
  <2> HIDE DEF x
  <2> QED
    BY <1>16, <1>22, <2>1, <2>2 DEF T!Runs
<1>23. ASSUME ops[o].at = "step", UNCHANGED <<tenants, invitations>>, NEW outcome,
              ops' = [ops EXCEPT ![o] = [ops[o] EXCEPT !.at = "flush", !.outcome = outcome]]
       PROVE  LegalInv' /\ T!LegalStep
  <2>1. [ops[o] EXCEPT !.at = "flush", !.outcome = outcome]
          = [ops[o] EXCEPT !.at = "flush", !.outcome = outcome,
                           !.status = ops[o].status, !.seen = ops[o].seen]
    BY <1>0 DEF IsOp, OpFields
  <2> QED
    BY <1>22, <1>23, <2>1
<1>24. CASE T!ExecuteTransition(o)
  <2>1. ops[o].at = "step" /\ UNCHANGED <<tenants, invitations>>
    BY <1>24 DEF T!ExecuteTransition, T!At
  <2>2. CASE T!Closes(o)
    <3>1. /\ T!validate_tenant_transition(ops[o].status, T!Closing(o))
          /\ ops' = [ops EXCEPT ![o] = [ops[o] EXCEPT !.at = "flush", !.outcome = "succeeded",
                                          !.status = T!Closing(o), !.seen = T!Revokes(o)]]
      BY <1>24, <2>2 DEF T!ExecuteTransition, T!Notes, T!MayClose
    <3> QED
      BY <1>22, <2>1, <3>1
  <2>3. CASE ~T!Closes(o)
    BY <1>23, <1>24, <2>1, <2>3 DEF T!ExecuteTransition, T!Notes
  <2> QED
    BY <2>2, <2>3
<1>25. CASE T!ExecuteHook(o)
  BY <1>23, <1>25 DEF T!ExecuteHook, T!Notes, T!At
<1>26. CASE T!StepFails(o)
  <2>1. ops[o].at = "step" /\ UNCHANGED <<tenants, invitations>>
    BY <1>26 DEF T!StepFails, T!At
  <2>2. \/ T!Notes(o, [ops[o] EXCEPT !.at = "flush", !.outcome = "failed"])
        \/ /\ T!MayClose(o)
           /\ \E seen : T!Notes(o, [[ops[o] EXCEPT !.at = "flush", !.outcome = "failed"]
                                    EXCEPT !.status = T!Closing(o), !.seen = seen])
    BY <1>26 DEF T!StepFails
  <2>3. CASE T!Notes(o, [ops[o] EXCEPT !.at = "flush", !.outcome = "failed"])
    BY <1>23, <2>1, <2>3 DEF T!Notes
  <2>4. ASSUME T!MayClose(o), NEW seen,
               T!Notes(o, [[ops[o] EXCEPT !.at = "flush", !.outcome = "failed"]
                           EXCEPT !.status = T!Closing(o), !.seen = seen])
        PROVE  LegalInv' /\ T!LegalStep
    <3>1. /\ T!validate_tenant_transition(ops[o].status, T!Closing(o))
          /\ ops' = [ops EXCEPT ![o] = [ops[o] EXCEPT !.at = "flush", !.outcome = "failed",
                                          !.status = T!Closing(o), !.seen = seen]]
      BY <2>4 DEF T!Notes, T!MayClose
    <3> QED
      BY <1>22, <2>1, <3>1
  <2> QED
    BY <2>2, <2>3, <2>4
<1>18. CASE T!DeleteCommits(o)
  <2>1. /\ ops' = [ops EXCEPT ![o] = T!Idle] /\ ops[o].at \in {"delete", "failed"} /\ UNCHANGED invitations
        /\ tenants' = IF ops[o].status = ops[o].loaded THEN tenants
                      ELSE [tenants EXCEPT ![ops[o].tenant] = ops[o].status]
    BY <1>18 DEF T!DeleteCommits, T!At, T!Leaves, T!Notes
  <2>2. /\ ops[o].tenant \in Tenants /\ Reaches(tenants[ops[o].tenant], ops[o].status)
        /\ ops[o].loaded = tenants[ops[o].tenant]
    BY <1>0, <2>1 DEF OpLegal
  <2>3. ops[o].status = ops[o].loaded \/ ops[o].status \in T!TenantStatuses
    BY <2>2 DEF Reaches, T!validate_tenant_transition, T!ALLOWED_TRANSITIONS, T!TenantStatuses
  <2>4. tenants' \in [Tenants -> T!TenantStatuses \cup {"none"}] /\ InvitationsFine'
    BY <1>0, <2>1, <2>3 DEF InvitationsFine
  <2>5. \A r \in Tenants : Reaches(tenants[r], tenants'[r])
    <3>1. \A r \in Tenants : Reaches(tenants[r], tenants[r])
      BY DEF Reaches
    <3>2. \A r \in Tenants : tenants'[r] = tenants[r] \/ (r = ops[o].tenant /\ tenants'[r] = ops[o].status)
      BY <1>0, <2>1
    <3> QED
      BY <2>2, <3>1, <3>2
  <2> QED
    BY <2>1, <2>4, <2>5, SerialFrame, InvitationsLegal
<1> QED
  BY <1>2, <1>3, <1>4, <1>5, <1>6, <1>7, <1>8, <1>9, <1>10, <1>11, <1>13, <1>14, <1>15, <1>17,
     <1>18, <1>19, <1>20, <1>24, <1>25, <1>26 DEF T!OperatorStep

LEMMA SerialExpires ==
  ASSUME LegalInv, NEW o \in Operators, \A p \in Operators \ {o} : ops[p] = T!Idle,
         ops[o] = T!Idle, T!Expires(o)
  PROVE  LegalInv' /\ T!LegalStep
<1>0. tenants \in [Tenants -> T!TenantStatuses \cup {"none"}] /\ InvitationsFine
      /\ IsInvitation(invitations[o])
  BY DEF LegalInv, InvitationsFine
<1>1. /\ ops' = [ops EXCEPT ![o] = T!Idle] /\ UNCHANGED tenants
      /\ invitations' = [invitations EXCEPT ![o].expired = TRUE] /\ IsOpen(invitations[o])
  BY DEF T!Expires, IsOpen, LegalInv
<1>2. /\ DOMAIN invitations' = Operators /\ invitations' = [p \in Operators |-> invitations'[p]]
      /\ \A p \in Operators \ {o} : invitations'[p] = invitations[p]
      /\ invitations'[o] = [invitations[o] EXCEPT !.expired = TRUE]
  BY <1>0, <1>1 DEF InvitationsFine
<1>3. IsInvitation(invitations'[o]) /\ invitations'[o].status = "pending" /\ invitations'[o].expired
  BY <1>0, <1>1, <1>2 DEF IsInvitation, IsOpen
<1>4. InvitationsFine'
  <2>1. ~IsOpen(invitations'[o])
    BY <1>3 DEF IsOpen
  <2>2. \A p \in Operators \ {o} : IsOpen(invitations'[p]) <=> IsOpen(invitations[p])
    BY <1>2
  <2>3. \A p, q \in Operators :
           /\ IsOpen(invitations'[p]) /\ IsOpen(invitations'[q])
           /\ invitations'[p].tenant = invitations'[q].tenant
           /\ invitations'[p].email = invitations'[q].email
           => p = q
    BY <1>0, <1>2, <2>1, <2>2 DEF InvitationsFine
  <2>4. \A p \in Operators : /\ IsInvitation(invitations'[p]) /\ invitations'[p].expired \in BOOLEAN
                             /\ invitations'[p].expired =>
                                  invitations'[p].status \in {"pending", "revoked"}
    <3>1. invitations'[o].expired \in BOOLEAN
      BY <1>0, <1>2 DEF IsInvitation
    <3> QED
      BY <1>0, <1>2, <1>3, <3>1 DEF InvitationsFine
  <2> QED
    BY <1>2, <2>3, <2>4 DEF InvitationsFine
<1> QED
  BY <1>0, <1>1, <1>2, <1>3, <1>4, SerialFrame, InvitationsLegal DEF Reaches, IsOpen

(* With one operator at a time a tenant's status only moves where the        *)
(* transition table allows, or through "deleting" in one commit; an          *)
(* invitation is settled once and for good, never after it expired; and no   *)
(* two open invitations of a tenant share an e-mail (_transition,            *)
(* TenantDeletionOrchestrator.run, issue, accept and revoke_invitation).     *)
THEOREM OneOperatorIsLegal == T!Spec => LegalHistory
<1>1. T!Init => LegalInv
  <2> SUFFICES ASSUME T!Init PROVE LegalInv
    OBVIOUS
  <2>1. tenants \in [Tenants -> T!TenantStatuses \cup {"none"}]
    BY DEF T!Init, T!TenantStatuses
  <2>2. IsInvitation(T!NoInvitation) /\ T!NoInvitation.status = "none" /\ T!NoInvitation.expired = FALSE
    BY DEF T!NoInvitation, IsInvitation
  <2>3. InvitationsFine
    BY <2>2 DEF T!Init, InvitationsFine, IsOpen
  <2> QED
    BY <2>1, <2>3, Idles DEF LegalInv, OpLegal, T!Init
<1>2. (~overlapped => LegalInv) /\ [T!Next]_(T!tenancyVars)
        => (~overlapped' => LegalInv') /\ [~overlapped' => T!LegalStep]_(T!tenancyVars)
  <2>1. ASSUME LegalInv, UNCHANGED T!tenancyVars PROVE LegalInv'
    BY <2>1 DEF T!tenancyVars, LegalInv, InvitationsFine, OpLegal, IsOpen
  <2>2. ASSUME ~overlapped => LegalInv, T!Next, ~overlapped' PROVE LegalInv' /\ T!LegalStep
    <3>1. ASSUME NEW o \in Operators, T!OperatorStep(o), T!Among(Operators \ {o})
          PROVE  LegalInv' /\ T!LegalStep
      BY <2>2, <3>1, SerialStep DEF T!Among
    <3>2. ASSUME NEW i \in Operators, T!Expires(i), T!Among(Operators)
          PROVE  LegalInv' /\ T!LegalStep
      BY <2>2, <3>2, SerialExpires DEF T!Among
    <3> QED
      BY <2>2, <3>1, <3>2 DEF T!Next
  <2>3. UNCHANGED T!tenancyVars => (overlapped' <=> overlapped)
    BY DEF T!tenancyVars
  <2> QED
    BY <2>1, <2>2, <2>3
<1> QED
  BY <1>1, <1>2, PTL DEF T!Spec, LegalHistory, T!LegalHistory
=============================================================================
