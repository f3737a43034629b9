-------------------------------- MODULE Audit --------------------------------
(***************************************************************************)
(* The audit log of one tenant (platform_apps/audit): records chained by   *)
(* hash_prev, written inside the transactions of other requests, next to   *)
(* retention runs and exports.  Statements see what is committed (READ     *)
(* COMMITTED); created_at is now(), the start of the transaction.          *)
(*                                                                         *)
(* A record's hash is a name; a record that was tampered with is one whose *)
(* stored hash is not that of its columns.  Its id is random.              *)
(***************************************************************************)
EXTENDS Naturals, FiniteSets, SequencesExt

CONSTANTS
  Recorders,   \* requests that write audit records
  Exporters,   \* requests that export the log
  Retainers,   \* requests that apply a retention
  ProcessOf,   \* the process that serves each request
  Provider,    \* whether AuditService was given a LockProvider
  EarlyStart,  \* whether a transaction may have begun before its first record
  PerRequest,  \* most records of one transaction
  Ids,         \* identifiers of records (and their hashes)
  ExportIds,
  Nobody       \* no lock holder, no hash_prev

VARIABLES
  log,      \* audit_logs, as committed
  clock,    \* database clock, advanced by each transaction that starts
  locks,    \* _AUDIT_CHAIN_LOCKS: the holder in each process
  chain,    \* the distributed lock's holder
  exports,  \* audit_export_records, as committed
  files,    \* export files of the sink
  txs,      \* each request
  plain     \* history: each record so far was the first statement of its transaction and
            \* its only record, and nothing was deleted

auditVars == <<log, clock, locks, chain, exports, files, txs, plain>>

Requests == Recorders \union Exporters \union Retainers
Processes == {ProcessOf[r] : r \in Requests}
NoTx == [at |-> "idle", start |-> 0, prev |-> Nobody, own |-> {}, read |-> {},
         export |-> Nobody, lines |-> <<>>]

InitWith(logs) ==
  /\ log \in logs
  /\ clock = 0
  /\ locks = [p \in Processes |-> Nobody]
  /\ chain = Nobody
  /\ exports = {}
  /\ files = {}
  /\ txs = [r \in Requests |-> NoTx]
  /\ plain = (log = {})

Init == InitWith({{}})

At(r, place) == txs[r].at = place
Notes(r, tx) == txs' = [txs EXCEPT ![r] = tx]
Goes(r, place) == Notes(r, [txs[r] EXCEPT !.at = place])

-----------------------------------------------------------------------------
(* AuditService.record.                                                    *)

\* The request's own work starts the transaction before anything is audited.
Begins(r) ==
  /\ EarlyStart /\ At(r, "idle")
  /\ clock' = clock + 1
  /\ Notes(r, [txs[r] EXCEPT !.at = "open", !.start = clock + 1])
  /\ plain' = FALSE
  /\ UNCHANGED <<log, locks, chain, exports, files>>

\* The process's lock for the chain; a session that holds it goes on.
\* Mutant: the lock is not waited for.
_acquire_audit_chain_lock_None(r) ==
  /\ At(r, "idle") \/ At(r, "open")
  /\ locks' = [locks EXCEPT ![ProcessOf[r]] = r]
  /\ Goes(r, "locked")
  /\ UNCHANGED <<log, clock, chain, exports, files, plain>>

_acquire_audit_chain_lock(r) ==
  /\ At(r, "idle") \/ At(r, "open")
  /\ locks[ProcessOf[r]] = Nobody
  /\ locks' = [locks EXCEPT ![ProcessOf[r]] = r]
  /\ Goes(r, "locked")
  /\ UNCHANGED <<log, clock, chain, exports, files, plain>>

\* require_acquire does not wait: LOCK_NOT_ACQUIRED ends the request.
_acquire_distributed_audit_chain_lock(r) ==
  /\ At(r, "locked")
  /\ IF ~Provider THEN Goes(r, "held") /\ UNCHANGED <<locks, chain>>
     ELSE IF chain = Nobody THEN chain' = r /\ Goes(r, "held") /\ UNCHANGED locks
     ELSE /\ locks' = [locks EXCEPT ![ProcessOf[r]] = Nobody]
          /\ Goes(r, "done")
          /\ UNCHANGED chain
  /\ UNCHANGED <<log, clock, exports, files, plain>>

\* ORDER BY created_at DESC, id DESC LIMIT 1: ids are random.
_latest_hash(r) ==
  LET seen == log \union txs[r].own
      last == {a \in seen : \A b \in seen :
                 b.created < a.created \/ (b.created = a.created /\ b.id <= a.id)}
  IN  IF last = {} THEN Nobody ELSE (CHOOSE a \in last : TRUE).hash

ReadsLatest(r) ==
  /\ At(r, "held") /\ Cardinality(txs[r].own) < PerRequest
  /\ LET starts == txs[r].start = 0 IN
       /\ clock' = IF starts THEN clock + 1 ELSE clock
       /\ Notes(r, [txs[r] EXCEPT !.at = "read", !.prev = _latest_hash(r),
                                  !.start = IF starts THEN clock + 1 ELSE @])
  /\ plain' = (plain /\ txs[r].own = {})
  /\ UNCHANGED <<log, locks, chain, exports, files>>

Inserts(r) ==
  /\ At(r, "read")
  /\ \E id \in Ids :
       /\ \A a \in log \union UNION {txs[q].own : q \in Recorders} : a.id # id
       /\ Notes(r, [txs[r] EXCEPT !.at = "held", !.prev = Nobody,
                      !.own = @ \union {[id |-> id, hash |-> id, prev |-> txs[r].prev,
                                         created |-> txs[r].start, intact |-> TRUE]}])
  /\ UNCHANGED <<log, clock, locks, chain, exports, files, plain>>

\* after_transaction_end: the local lock is released, the release of the
\* distributed one is left to a task of its own.
EndsTransaction(r, committed) ==
  /\ log' = log \union committed
  /\ locks' = [locks EXCEPT ![ProcessOf[r]] = IF @ = r THEN Nobody ELSE @]
  /\ Notes(r, [txs[r] EXCEPT !.at = IF chain = r THEN "release" ELSE "done", !.own = {}])
  /\ UNCHANGED <<clock, chain, exports, files, plain>>

Commits(r) == At(r, "held") /\ txs[r].own # {} /\ EndsTransaction(r, txs[r].own)
RollsBack(r) == txs[r].at \in {"open", "held", "read"} /\ EndsTransaction(r, {})

ReleasesDistributed(r) ==
  /\ At(r, "release")
  /\ chain' = Nobody
  /\ Goes(r, "done")
  /\ UNCHANGED <<log, clock, locks, exports, files, plain>>

-----------------------------------------------------------------------------
(* Verification and export.                                                *)

Hashes(logs) == {a.hash : a \in logs}
Roots(logs) == {a \in logs : a.prev = Nobody}
Children(logs, hash) == {a \in logs : a.prev = hash}

Longer(logs, lines) ==
  LET next == Children(logs, Last(lines).hash)
  IN  IF Cardinality(next) = 1 /\ next \cap Range(lines) = {} THEN lines \o SetToSeq(next) ELSE lines

\* From the root, as long as there is exactly one child that is not visited yet.
Walk(logs) ==
  LET root == CHOOSE a \in Roots(logs) : TRUE
      walk[n \in 1 .. Cardinality(logs)] ==
        IF n = 1 THEN <<root>>
        ELSE Longer(logs, walk[n - 1])
  IN  walk[Cardinality(logs)]

Errors(logs) ==
  {"hash_mismatch" : a \in {b \in logs : ~b.intact}}
  \union {"duplicate_hash" : a \in {b \in logs : \E c \in logs \ {b} : c.hash = b.hash}}
  \union {"missing_prev" : a \in {b \in logs : b.prev \notin Hashes(logs) \union {Nobody}}}
  \union {"branch" : h \in {h \in Hashes(logs) : Cardinality(Children(logs, h)) > 1}}
  \union (IF Cardinality(Roots(logs)) # 1 THEN {"invalid_root_count"} ELSE {})

\* Mutant: the walk is not compared with the number of records.
_verify_hash_chain_NoWalk(logs) == IF logs = {} THEN {} ELSE Errors(logs)

_verify_hash_chain(logs) ==
  IF logs = {} THEN {}
  ELSE IF Cardinality(Roots(logs)) # 1 THEN Errors(logs)
  ELSE Errors(logs) \union
       (IF Cardinality(Hashes(Range(Walk(logs)))) # Cardinality(logs)
        THEN {"disconnected_chain"} ELSE {})

\* Of a verified chain, where every record has one child at most.
_order_valid_hash_chain(logs) == IF logs = {} THEN <<>> ELSE Walk(logs)

\* One SELECT; a chain with errors is refused.
ExportReads(r, id) ==
  /\ At(r, "idle")
  /\ IF _verify_hash_chain(log) # {}
     THEN Notes(r, [txs[r] EXCEPT !.at = "invalid", !.read = log])
     ELSE Notes(r, [txs[r] EXCEPT !.at = "insert", !.export = id, !.read = log,
                                  !.lines = _order_valid_hash_chain(log)])
  /\ UNCHANGED <<log, clock, locks, chain, exports, files, plain>>

\* The pending row waits for another transaction with its key, and conflicts
\* with a committed one.
ExportInserts(r) ==
  /\ At(r, "insert")
  /\ ~ \E q \in Exporters : txs[q].at \in {"write", "written"} /\ txs[q].export = txs[r].export
  /\ Goes(r, IF txs[r].export \in exports THEN "done" ELSE "write")
  /\ UNCHANGED <<log, clock, locks, chain, exports, files, plain>>

\* open(..., "xb"): a file left by a transaction that rolled back conflicts,
\* and rolls the failed record back with it.
SinkWrites(r) ==
  /\ At(r, "write")
  /\ IF \E f \in files : f.export = txs[r].export
     THEN Goes(r, "done") /\ UNCHANGED files
     ELSE /\ files' = files \union {[export |-> txs[r].export, lines |-> txs[r].lines]}
          /\ Goes(r, "written")
  /\ UNCHANGED <<log, clock, locks, chain, exports, plain>>

ExportCommits(r) ==
  /\ At(r, "written")
  /\ exports' = exports \union {txs[r].export}
  /\ Goes(r, "done")
  /\ UNCHANGED <<log, clock, locks, chain, files, plain>>

ExportRollsBack(r) ==
  /\ txs[r].at \in {"insert", "write", "written"}
  /\ Goes(r, "done")
  /\ UNCHANGED <<log, clock, locks, chain, exports, files, plain>>

-----------------------------------------------------------------------------
(* AuditRetentionService.apply_policy: without the chain lock.             *)

\* Everything, or nothing, of what the SELECT returned may be deleted.
RetentionReads(r, cutoff) ==
  LET expired == {a \in log : a.created < cutoff} IN
    /\ At(r, "idle") /\ expired # {}
    /\ Notes(r, [txs[r] EXCEPT !.at = IF expired = log THEN "retain" ELSE "done",
                               !.read = expired])
    /\ UNCHANGED <<log, clock, locks, chain, exports, files, plain>>

RetentionDeletes(r) ==
  /\ At(r, "retain")
  /\ log' = log \ txs[r].read
  /\ Goes(r, "done")
  /\ plain' = FALSE
  /\ UNCHANGED <<clock, locks, chain, exports, files>>

RequestStep(r) ==
  \/ /\ r \in Recorders
     /\ \/ Begins(r) \/ _acquire_audit_chain_lock(r)
        \/ _acquire_distributed_audit_chain_lock(r)
        \/ ReadsLatest(r) \/ Inserts(r) \/ Commits(r) \/ RollsBack(r)
        \/ ReleasesDistributed(r)
  \/ /\ r \in Exporters
     /\ \/ \E id \in ExportIds : ExportReads(r, id)
        \/ ExportInserts(r) \/ SinkWrites(r) \/ ExportCommits(r) \/ ExportRollsBack(r)
  \/ /\ r \in Retainers
     /\ \/ \E cutoff \in 1 .. clock + 1 : RetentionReads(r, cutoff)
        \/ RetentionDeletes(r)

Next == \E r \in Requests : RequestStep(r)

Spec == Init /\ [][Next]_auditVars

-----------------------------------------------------------------------------
(* Reference: some order of the records in which each names the one before. *)
IsOrdered(lines) ==
  \A i \in DOMAIN lines :
    /\ lines[i].intact
    /\ lines[i].prev = (IF i = 1 THEN Nobody ELSE lines[i - 1].hash)
    /\ \A j \in 1 .. i - 1 : lines[j].hash # lines[i].hash

IsChain(logs) == \E lines \in SetToSeqs(logs) : IsOrdered(lines)

(* The committed log is one chain (core claim of platform-audit.md: writes  *)
(* are serialised so that no two records follow the same one).             *)
OneChain == IsChain(log)

\* One process, or a lock provider, serves the recorders.
Together == Provider \/ \A r, q \in Recorders : ProcessOf[r] = ProcessOf[q]

(* The log forks only for cause: while each record is the first statement   *)
(* and the only record of its transaction, nothing is deleted, and one      *)
(* process or a shared lock serves the recorders, it is one chain.          *)
OneChainWhilePlain == plain /\ Together => OneChain

(* An export holds all records of the log it read, in the order of their    *)
(* chain, and is refused only when there is no such order (export_logs,     *)
(* _verify_hash_chain, _order_valid_hash_chain); what a committed export    *)
(* row names is such a file, whoever else exports or rolls back.            *)
ExportsWholeChains ==
  /\ \A r \in DOMAIN txs :
       /\ At(r, "invalid") => ~IsChain(txs[r].read)
       /\ At(r, "insert") => IsOrdered(txs[r].lines) /\ Range(txs[r].lines) = txs[r].read
                             /\ Len(txs[r].lines) = Cardinality(txs[r].read)
  /\ \A e \in exports : \E f \in files : f.export = e /\ IsOrdered(f.lines)
=============================================================================
