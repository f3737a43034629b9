---------------------------- MODULE Idempotency -----------------------------
(***************************************************************************)
(* IdempotencyMutationGuard.run (core/idempotency/guard.py) over the table *)
(* idempotency_records (store.py), for the requests that carry one key of  *)
(* one (tenant, user, route): client retries and duplicates, each in a     *)
(* unit of work of its own, and the operator's `core idempotency expire'.  *)
(*                                                                         *)
(* A claim inserts first.  The INSERT waits for any open transaction on    *)
(* the key and then fails; the record is read after that, and a restart is *)
(* an UPDATE by id, later still, that compares nothing.  SQLAlchemy writes *)
(* the columns whose value differs from the loaded one, so a request_hash  *)
(* equal to the loaded one is not written.                                 *)
(***************************************************************************)
EXTENDS Naturals, FiniteSets

CONSTANTS
  Requests,      \* requests with the key
  Hash,          \* request_hash of each
  RetryFailed,   \* requests made with retry_failed
  Catching,      \* requests whose caller handles the handler's error inside its unit of work
  MaxExpiries,   \* bound: how often expires_at passes
  MaxCrashes,    \* bound: crashes
  Nobody         \* no request

ASSUME IdempotencyAssumption ==
  /\ Hash \in [Requests -> Nat]
  /\ RetryFailed \subseteq Requests
  /\ Catching \subseteq Requests
  /\ MaxExpiries \in Nat /\ MaxCrashes \in Nat
  /\ Nobody \notin Requests

VARIABLES
  record,    \* the committed record
  lock,      \* the request with an open change of it
  req,       \* where each request is, the record it loaded and its answer
  cli,       \* whether `expire' has loaded the record
  wins,      \* history: successful executions committed since the last expiry
  failures,  \* history: executions whose handler raised since the last expiry
  committed, \* history: all successful executions that were committed
  expiries, crashes

vars == <<record, lock, req, cli, wins, failures, committed, expiries, crashes>>

\* by: the request whose response is stored; expires: whether expires_at has passed.
Expiry == {"later", "past"}

Record == [status : {"none", "processing", "succeeded", "failed", "expired"},
           hash : Nat, by : Requests \cup {Nobody}, expires : Expiry]

NoRecord == [status |-> "none", hash |-> 0, by |-> Nobody, expires |-> "later"]

Phases == {"new", "claim", "conflict", "restart", "handler", "succeeded", "failed", "raised", "done"}

\* seen: expires at the request's resolved_now; mine: the record
\* as its session sees it; answer: the request whose
\* response it returns.
Request == [phase : Phases, seen : Expiry, mine : Record, answer : Requests \cup {Nobody}]

TypeOK ==
  /\ record \in Record /\ record.status # "processing"
  /\ lock \in Requests \cup {Nobody}
  /\ req \in [Requests -> Request]
  /\ cli \in BOOLEAN
  /\ wins \subseteq Requests /\ failures \subseteq Requests /\ committed \subseteq Requests
  /\ expiries \in 0..MaxExpiries /\ crashes \in 0..MaxCrashes

Init ==
  /\ record = NoRecord
  /\ lock = Nobody
  /\ req = [r \in Requests |-> [phase |-> "new", seen |-> "later", mine |-> NoRecord,
                            answer |-> Nobody]]
  /\ cli = FALSE
  /\ wins = {} /\ failures = {} /\ committed = {}
  /\ expiries = 0 /\ crashes = 0

Goes(r, phase) == req' = [req EXCEPT ![r].phase = phase]

-----------------------------------------------------------------------------
(* claim                                                                    *)

\* claim reads resolved_now, before the INSERT that may wait.
Arrive(r) ==
  /\ req[r].phase = "new"
  /\ req' = [req EXCEPT ![r].phase = "claim", ![r].seen = record.expires]
  /\ UNCHANGED <<record, lock, cli, wins, failures, committed, expiries, crashes>>

\* _insert_processing_record; the record exists for others at commit.
Insert(r) ==
  /\ req[r].phase = "claim"
  /\ lock = Nobody
  /\ IF record.status = "none"
     THEN /\ lock' = r
          /\ req' = [req EXCEPT ![r].phase = "handler",
                                ![r].mine = [@ EXCEPT !.status = "processing", !.hash = Hash[r]]]
     ELSE Goes(r, "conflict") /\ UNCHANGED lock
  /\ UNCHANGED <<record, cli, wins, failures, committed, expiries, crashes>>

\* expires_at <= resolved_now.
Expired(r) == record.expires = "past" /\ req[r].seen = "past"

\* Mutant: a succeeded record is started again.
MayRestart_Succeeded(r) ==
  Expired(r) \/ (record.hash = Hash[r]
    /\ (record.status \in {"expired", "succeeded"} \/ (record.status = "failed" /\ r \in RetryFailed)))

\* Mutant: failed records are restarted without opt-in.
MayRestart_Failed(r) ==
  Expired(r) \/ (record.hash = Hash[r] /\ record.status \in {"expired", "failed"})

\* _handle_existing, when it restarts the record.  (A committed record is never
\* "processing": TypeOK.)
MayRestart(r) ==
  Expired(r) \/ (record.hash = Hash[r]
    /\ (record.status = "expired" \/ (record.status = "failed" /\ r \in RetryFailed)))

\* Mutant: the payloads are not compared before the response is returned.
LoadExisting_AnyPayload(r) ==
  /\ req[r].phase = "conflict"
  /\ req' = [req EXCEPT ![r].phase = IF MayRestart(r) THEN "restart" ELSE "done",
                        ![r].mine = record,
                        ![r].answer = IF ~MayRestart(r) /\ record.status = "succeeded"
                                      THEN record.by ELSE Nobody]
  /\ UNCHANGED <<record, lock, cli, wins, failures, committed, expiries, crashes>>

\* _get_record and the decision of _handle_existing: restart, return the stored
\* response, or refuse (KEY_CONFLICT, failed without opt-in).
LoadExisting(r) ==
  /\ req[r].phase = "conflict"
  /\ req' = [req EXCEPT ![r].phase = IF MayRestart(r) THEN "restart" ELSE "done",
                        ![r].mine = record,
                        ![r].answer = IF /\ ~MayRestart(r)
                                         /\ record.hash = Hash[r] /\ record.status = "succeeded"
                                      THEN record.by ELSE Nobody]
  /\ UNCHANGED <<record, lock, cli, wins, failures, committed, expiries, crashes>>

\* _restart_processing flushes.
Restart(r) ==
  /\ req[r].phase = "restart"
  /\ lock = Nobody
  /\ lock' = r
  /\ Goes(r, "handler")
  /\ UNCHANGED <<record, cli, wins, failures, committed, expiries, crashes>>

-----------------------------------------------------------------------------
(* run                                                                      *)

\* Mutant: the response is visible before the unit of work commits.
HandlerSucceeds_Visible(r) ==
  /\ req[r].phase = "handler"
  /\ Goes(r, "succeeded")
  /\ record' = [status |-> "succeeded", hash |-> Hash[r], by |-> r, expires |-> "later"]
  /\ UNCHANGED <<lock, cli, wins, failures, committed, expiries, crashes>>

\* The handler returns and mark_succeeded flushes.
HandlerSucceeds(r) ==
  /\ req[r].phase = "handler"
  /\ Goes(r, "succeeded")
  /\ UNCHANGED <<record, lock, cli, wins, failures, committed, expiries, crashes>>

\* The handler raises and mark_failed flushes; the error is raised again.
HandlerFails(r) ==
  /\ req[r].phase = "handler"
  /\ Goes(r, IF r \in Catching THEN "failed" ELSE "raised")
  /\ failures' = failures \cup {r}
  /\ UNCHANGED <<record, lock, cli, wins, committed, expiries, crashes>>

\* The columns the request has changed.
Written(r, status) ==
  [status |-> status, by |-> r, expires |-> "later",
   hash |-> IF req[r].mine.hash = Hash[r] /\ record.status # "none"
            THEN record.hash ELSE Hash[r]]

Commit(r) ==
  /\ req[r].phase \in {"succeeded", "failed"}
  /\ record' = Written(r, req[r].phase)
  /\ lock' = Nobody
  /\ IF req[r].phase = "succeeded"
     THEN /\ wins' = wins \cup {r} /\ committed' = committed \cup {r}
          /\ req' = [req EXCEPT ![r].phase = "done", ![r].answer = r]
     ELSE Goes(r, "done") /\ UNCHANGED <<wins, committed>>
  /\ UNCHANGED <<cli, failures, expiries, crashes>>

\* The error leaves the unit of work, which rolls back; nothing of the claim remains.
RollBack(r) ==
  /\ req[r].phase = "raised"
  /\ lock' = Nobody
  /\ Goes(r, "done")
  /\ UNCHANGED <<record, cli, wins, failures, committed, expiries, crashes>>

\* The process dies before the commit.
Crash(r) ==
  /\ req[r].phase \notin {"new", "done"}
  /\ crashes < MaxCrashes
  /\ crashes' = crashes + 1
  /\ lock' = IF lock = r THEN Nobody ELSE lock
  /\ Goes(r, "done")
  /\ UNCHANGED <<record, cli, wins, failures, committed, expiries>>

-----------------------------------------------------------------------------
(* Expiry                                                                   *)

\* The clock passes expires_at: the key may be used again from now on.
Expire ==
  /\ record.status # "none" /\ record.expires = "later"
  /\ expiries < MaxExpiries
  /\ expiries' = expiries + 1
  /\ record' = [record EXCEPT !.expires = "past"]
  /\ wins' = {} /\ failures' = {}
  /\ UNCHANGED <<lock, req, cli, committed, crashes>>

\* expire_before selects the record ...
ExpireLoad ==
  /\ record.expires = "past" /\ record.status # "expired"
  /\ ~cli
  /\ cli' = TRUE
  /\ UNCHANGED <<record, lock, req, wins, failures, committed, expiries, crashes>>

\* ... and updates it by id, whatever has happened since.
ExpireFlush ==
  /\ cli
  /\ lock = Nobody
  /\ cli' = FALSE
  /\ record' = [record EXCEPT !.status = "expired"]
  /\ UNCHANGED <<lock, req, wins, failures, committed, expiries, crashes>>

Next ==
  \/ \E r \in Requests :
       \/ Arrive(r) \/ Insert(r) \/ LoadExisting(r) \/ Restart(r)
       \/ HandlerSucceeds(r) \/ HandlerFails(r) \/ Commit(r) \/ RollBack(r) \/ Crash(r)
  \/ Expire \/ ExpireLoad \/ ExpireFlush

Spec == Init /\ [][Next]_vars

-----------------------------------------------------------------------------
\* expires_at has not passed, and no request has opted into retrying a failure.
Alive == expiries = 0 /\ \A r \in RetryFailed : req[r].phase = "new"

CommittedOnce == Cardinality(wins) <= 1

\* "同 key 但 request body 不一致时返回 IDEMPOTENCY_KEY_CONFLICT".
AnswersOwnPayload ==
  \A r \in Requests : req[r].answer # Nobody => Hash[req[r].answer] = Hash[r]

(* While the record lives one execution at most is committed, however many  *)
(* duplicates arrive at once and crash, and its response is returned only   *)
(* to requests with its payload (_insert_processing_record,                 *)
(* _handle_existing).                                                       *)
ExactWhileAlive == Alive => CommittedOnce /\ AnswersOwnPayload

(* A handler that has failed is not executed again without opt-in ("handler *)
(* 抛错时 guard 会把记录标记为 failed，默认不自动重试"), when the callers of the *)
(* executions that failed commit the mark and no process has died.          *)
NoSilentRetryWhenCaught ==
  [][\A r \in Requests :
       Alive /\ crashes = 0 /\ failures \subseteq Catching
         /\ req[r].phase # "handler" /\ req'[r].phase = "handler"
       => failures = {}]_vars

(* No client is given the response of an execution that was rolled back,    *)
(* through crashes, restarts, expiry and the operator's command.            *)
AnswersCommitted ==
  \A r \in Requests : req[r].answer # Nobody => req[r].answer \in committed
=============================================================================
