-------------------------------- MODULE Files --------------------------------
(***************************************************************************)
(* File rows, stored objects and upload quotas (platform_apps/files, the S3 *)
(* provider of core/storage).  An object is written and removed, and a     *)
(* quota reserved and released, at the moment of the call; a row is        *)
(* committed, or rolled back, at the end of the request.  A request may be *)
(* abandoned (a crash, or an error that rolls it back) between any two.    *)
(* The usage store may be in memory, where a reservation or a release is   *)
(* one step, or in the database, where each statement is a step (Quota     *)
(* models the stores for every caller).                                    *)
(*                                                                         *)
(* A file is named by the request that created it and its place in the     *)
(* batch; its object key is derived from its id, so it is the same name.   *)
(***************************************************************************)
EXTENDS Naturals, Sequences, FiniteSets

CONSTANTS
  Requests,
  TenantOf,   \* [Requests -> tenants]: the tenant of the request's context
  BatchSize,  \* most files of one batch
  Metrics,    \* the metrics of upload_quota_rules, in order, each once
  Size,       \* bytes of a file
  Limit,      \* limit of every rule
  Retention   \* delete_retention_seconds > 0

VARIABLES
  rows,     \* file_objects, as committed
  objects,  \* object keys the bucket holds
  uploads,  \* open multipart uploads of the bucket, by object key
  store,    \* the usage store: "memory" or "database"
  counters, \* rules of a tenant that have a counter
  used,     \* its value
  lost,     \* history: counters with an unbooked grant, or a reservation overwritten
  reqs      \* what each request has done so far

usageVars == <<store, counters, used, lost>>
fileVars == <<rows, objects, uploads, usageVars, reqs>>

FileIds == Requests \X (1 .. BatchSize)
Rules == 1 .. Len(Metrics)

\* QuotaRule.key_for: a rule counts for each tenant.
UsageKeys == Rules \X {TenantOf[r] : r \in Requests}

NoRow == [status |-> "none", version |-> 0, expired |-> FALSE]
NoRequest == [at |-> "idle", file |-> <<>>, batch |-> 0, reserved |-> 0, read |-> 0,
              flushed |-> {}, loaded |-> {}, removed |-> {}]

Init ==
  /\ rows = [f \in FileIds |-> NoRow]
  /\ objects = {}
  /\ uploads = {}
  /\ store \in {"memory", "database"}
  /\ counters = {} /\ used = [key \in UsageKeys |-> 0] /\ lost = {}
  /\ reqs = [r \in Requests |-> NoRequest]

At(r, place) == reqs[r].at = place
Notes(r, req) == reqs' = [reqs EXCEPT ![r] = req]
Goes(r, place) == Notes(r, [reqs[r] EXCEPT !.at = place])

\* A request that created no file may be followed by another of the same name.
Ends(r) ==
  IF reqs[r].flushed = {} /\ reqs[r].batch = 0 THEN Notes(r, NoRequest) ELSE Goes(r, "done")

\* Permission file:<action> in the request's tenant is assumed here: what is
\* left is the tenant of the row; the routes pass the row's own owner.
_assert_file_access(r, f) == TenantOf[f[1]] = TenantOf[r]

_load_available_file(r, f) == rows[f].status = "available" /\ _assert_file_access(r, f)
_load_uploading_file(r, f) == rows[f].status = "uploading" /\ _assert_file_access(r, f)

\* A loaded row is written back by its primary key, with the version it had.
Written(loaded, status, expired) ==
  [f \in FileIds |->
     IF \E old \in loaded : old.file = f
     THEN [status |-> status, expired |-> expired,
           version |-> (CHOOSE old \in loaded : old.file = f).version + 1]
     ELSE rows[f]]

Load(r, place, files) ==
  Notes(r, [NoRequest EXCEPT !.at = place,
              !.loaded = {[file |-> f, version |-> rows[f].version] : f \in files}])
TheLoaded(r) == (CHOOSE old \in reqs[r].loaded : TRUE).file

-----------------------------------------------------------------------------
(* upload_bytes and upload_batch_bytes.                                    *)

\* A batch of n files; each is validated and scanned before it is counted.
upload_batch_bytes(r, n) ==
  /\ At(r, "idle")
  /\ Notes(r, [NoRequest EXCEPT !.at = "reserve", !.file = <<r, 1>>, !.batch = n])
  /\ UNCHANGED <<rows, objects, uploads, usageVars>>

\* The next file is invalid or infected: the batch is rolled back, and what
\* its earlier files reserved stays reserved.
UploadRefused(r) ==
  /\ At(r, "reserve") /\ reqs[r].reserved = 0
  /\ Ends(r)
  /\ UNCHANGED <<rows, objects, uploads, usageVars>>

QuotaAmount(k) == IF Metrics[k] = "storage_bytes" THEN Size ELSE 1
Less(n, amount) == IF n < amount THEN 0 ELSE n - amount

\* The rule to reserve, or to release, next.
NextRule(r) == reqs[r].reserved + 1
LastRule(r) == reqs[r].reserved
Key(r, k) == <<k, TenantOf[r]>>

Reserving(r) == At(r, "reserve") /\ NextRule(r) \in Rules
Fits(r) == used[Key(r, NextRule(r))] + QuotaAmount(NextRule(r)) <= Limit

\* The reservation under the next rule is granted, or that under the last ends.
Grants(r) == Notes(r, [reqs[r] EXCEPT !.at = "reserve", !.reserved = NextRule(r)])
Released(r) == Notes(r, [reqs[r] EXCEPT !.at = "release", !.reserved = LastRule(r) - 1])

Books(r) ==
  /\ used' = [used EXCEPT ![Key(r, NextRule(r))] = @ + QuotaAmount(NextRule(r))]
  /\ counters' = counters \union {Key(r, NextRule(r))}
  /\ Grants(r)
  /\ UNCHANGED <<store, lost>>

\* In memory at once; in the database an UPDATE of the counter's row where it fits.
_reserve_upload_quotas(r) ==
  /\ Reserving(r) /\ Fits(r)
  /\ store = "database" => Key(r, NextRule(r)) \in counters
  /\ Books(r)
  /\ UNCHANGED <<rows, objects, uploads>>

\* The UPDATE finds no row, and a SELECT and an INSERT follow ...
ReserveMisses(r) ==
  /\ store = "database" /\ Reserving(r) /\ Fits(r) /\ Key(r, NextRule(r)) \notin counters
  /\ Goes(r, "missing")
  /\ UNCHANGED <<rows, objects, uploads, usageVars>>

ReserveInserts(r) ==
  /\ At(r, "missing") /\ Key(r, NextRule(r)) \notin counters
  /\ Books(r)
  /\ UNCHANGED <<rows, objects, uploads>>

\* ... unless another request has inserted it: the SELECT finds it and reserve
\* gives up, or the INSERT fails and the UPDATE is tried again.
ReserveIsLate(r) ==
  /\ At(r, "missing") /\ Key(r, NextRule(r)) \in counters
  /\ Goes(r, "refused") \/ Goes(r, "reserve")
  /\ UNCHANGED <<rows, objects, uploads, usageVars>>

\* The rules reserved before the one that is refused are released.
\* Mutant: the refused rule is released too.
QuotaRefuses_All(r) ==
  /\ Reserving(r) /\ ~Fits(r)
  /\ Notes(r, [reqs[r] EXCEPT !.at = "release", !.reserved = NextRule(r)])
  /\ UNCHANGED <<rows, objects, uploads, usageVars>>

QuotaRefuses(r) ==
  /\ Reserving(r) /\ ~Fits(r)
  /\ Goes(r, IF store = "memory" THEN "release" ELSE "refused")
  /\ UNCHANGED <<rows, objects, uploads, usageVars>>

\* require_reserve tests a decision made of the usage as it is by now.
\* Mutant: it is not made again after the store has refused.
require_reserve_Ignored(r) ==
  /\ At(r, "refused")
  /\ Grants(r)
  /\ UNCHANGED <<rows, objects, uploads, usageVars>>

require_reserve(r) ==
  /\ At(r, "refused")
  /\ IF Fits(r)
     THEN Grants(r) /\ lost' = lost \union {Key(r, NextRule(r))}
     ELSE Goes(r, "release") /\ UNCHANGED lost
  /\ UNCHANGED <<rows, objects, uploads, store, counters, used>>

put_file(r) ==
  /\ At(r, "reserve") /\ reqs[r].reserved = Len(Metrics)
  /\ objects' = objects \union {reqs[r].file}
  /\ Goes(r, "stored")
  /\ UNCHANGED <<rows, uploads, usageVars>>

\* The INSERT is flushed; the next file of the batch, or the commit, follows.
Flushes(r) ==
  /\ At(r, "stored")
  /\ LET n == reqs[r].file[2] IN
       Notes(r, [reqs[r] EXCEPT
                   !.at = IF n < reqs[r].batch THEN "reserve" ELSE "upload",
                   !.file = IF n < reqs[r].batch THEN <<r, n + 1>> ELSE <<>>,
                   !.reserved = 0, !.flushed = @ \union {<<r, n>>}])
  /\ UNCHANGED <<rows, objects, uploads, usageVars>>

\* put_file or the flush raises.
StoreFails(r) ==
  /\ \/ At(r, "reserve") /\ reqs[r].reserved = Len(Metrics)
     \/ At(r, "stored")
  /\ Goes(r, "release")
  /\ UNCHANGED <<rows, objects, uploads, usageVars>>

\* In reverse order, of the failing file only: what the earlier files of the
\* batch reserved stays reserved although their rows are rolled back.
_release_upload_quotas(r) ==
  /\ store = "memory" /\ At(r, "release") /\ LastRule(r) \in Rules
  /\ used' = [used EXCEPT ![Key(r, LastRule(r))] = Less(@, QuotaAmount(LastRule(r)))]
  /\ Released(r)
  /\ UNCHANGED <<rows, objects, uploads, store, counters, lost>>

\* In the database the row is read ...
ReleaseReads(r) ==
  /\ store = "database" /\ At(r, "release") /\ LastRule(r) \in Rules
  /\ Notes(r, [reqs[r] EXCEPT !.at = "write", !.read = used[Key(r, LastRule(r))]])
  /\ UNCHANGED <<rows, objects, uploads, usageVars>>

\* ... and written, over what was reserved in between.
\* Mutant: the whole counter is given back.
ReleaseWrites_Zero(r) ==
  LET key == Key(r, LastRule(r)) IN
    /\ At(r, "write")
    /\ used' = [used EXCEPT ![key] = 0]
    /\ lost' = IF used[key] > reqs[r].read THEN lost \union {key} ELSE lost
    /\ Released(r)
    /\ UNCHANGED <<rows, objects, uploads, store, counters>>

ReleaseWrites(r) ==
  LET key == Key(r, LastRule(r)) IN
    /\ At(r, "write")
    /\ used' = [used EXCEPT ![key] = Less(reqs[r].read, QuotaAmount(LastRule(r)))]
    /\ lost' = IF used[key] > reqs[r].read THEN lost \union {key} ELSE lost
    /\ Released(r)
    /\ UNCHANGED <<rows, objects, uploads, store, counters>>

UploadCommits(r) ==
  /\ At(r, "upload")
  /\ rows' = [f \in FileIds |->
                IF f \in reqs[r].flushed
                THEN [status |-> "available", version |-> 1, expired |-> FALSE] ELSE rows[f]]
  /\ Ends(r)
  /\ UNCHANGED <<objects, uploads, usageVars>>

-----------------------------------------------------------------------------
(* Uploads by the client: no quota, no scan.                               *)

\* The row, then a URL to PUT the object to; the row stays "uploading".
create_presigned_upload(r) ==
  /\ At(r, "idle")
  /\ Notes(r, [NoRequest EXCEPT !.at = "initiated", !.flushed = {<<r, 1>>}])
  /\ UNCHANGED <<rows, objects, uploads, usageVars>>

ClientPuts(f) ==
  /\ rows[f].status # "none" /\ f \notin uploads
  /\ At(f[1], "presigned")
  /\ objects' = objects \union {f}
  /\ UNCHANGED <<rows, uploads, usageVars, reqs>>

initiate_multipart_upload(r) ==
  /\ At(r, "idle")
  /\ uploads' = uploads \union {<<r, 1>>}
  /\ Notes(r, [NoRequest EXCEPT !.at = "initiated", !.flushed = {<<r, 1>>}])
  /\ UNCHANGED <<rows, objects, usageVars>>

InitiateCommits(r) ==
  /\ At(r, "initiated")
  /\ rows' = [rows EXCEPT ![<<r, 1>>] =
                [status |-> "uploading", version |-> 1, expired |-> FALSE]]
  /\ Goes(r, IF <<r, 1>> \in uploads THEN "multipart" ELSE "presigned")
  /\ UNCHANGED <<objects, uploads, usageVars>>

CompleteLoads(r, f) ==
  /\ At(r, "idle")
  /\ _load_uploading_file(r, f)
  /\ Load(r, "complete", {f})
  /\ UNCHANGED <<rows, objects, uploads, usageVars>>

\* The bucket assembles the parts once; a second completion is an error.
\* Mutant: an upload that is gone is taken for complete.
CompleteStores_Again(r) ==
  /\ At(r, "complete")
  /\ objects' = IF TheLoaded(r) \in uploads
                THEN objects \union {TheLoaded(r)} ELSE objects
  /\ uploads' = uploads \ {TheLoaded(r)}
  /\ Goes(r, "completed")
  /\ UNCHANGED <<rows, usageVars>>

CompleteStores(r) ==
  /\ At(r, "complete")
  /\ TheLoaded(r) \in uploads
  /\ objects' = objects \union {TheLoaded(r)}
  /\ uploads' = uploads \ {TheLoaded(r)}
  /\ Goes(r, "completed")
  /\ UNCHANGED <<rows, usageVars>>

CompleteCommits(r) ==
  /\ At(r, "completed")
  /\ rows' = Written(reqs[r].loaded, "available", rows[TheLoaded(r)].expired)
  /\ Ends(r)
  /\ UNCHANGED <<objects, uploads, usageVars>>

-----------------------------------------------------------------------------
(* Reading, deleting, purging.                                             *)

DownloadLoads(r, f) ==
  /\ At(r, "idle")
  /\ _load_available_file(r, f)
  /\ Load(r, "download", {f})
  /\ UNCHANGED <<rows, objects, uploads, usageVars>>

DownloadAnswers(r) ==
  /\ At(r, "download")  \* NOT_FOUND unless TheLoaded(r) \in objects
  /\ Ends(r)
  /\ UNCHANGED <<rows, objects, uploads, usageVars>>

DeleteLoads(r, f) ==
  /\ At(r, "idle")
  /\ _load_available_file(r, f)
  /\ Load(r, "delete", {f})
  /\ UNCHANGED <<rows, objects, uploads, usageVars>>

\* Without retention the object is removed before the row's change commits.
\* Mutant: with retention too.
DeleteRemoves_Always(r) ==
  /\ At(r, "delete")
  /\ objects' = objects \ {TheLoaded(r)}
  /\ Goes(r, "deleted")
  /\ UNCHANGED <<rows, uploads, usageVars>>

DeleteRemoves(r) ==
  /\ At(r, "delete")
  /\ objects' = IF Retention THEN objects ELSE objects \ {TheLoaded(r)}
  /\ Goes(r, "deleted")
  /\ UNCHANGED <<rows, uploads, usageVars>>

DeleteCommits(r) ==
  /\ At(r, "deleted")
  /\ rows' = Written(reqs[r].loaded, "deleted", ~Retention)
  /\ Ends(r)
  /\ UNCHANGED <<objects, uploads, usageVars>>

RetentionEnds(f) ==
  /\ rows[f].status = "deleted" /\ ~rows[f].expired
  /\ rows' = [rows EXCEPT ![f].expired = TRUE]
  /\ UNCHANGED <<objects, uploads, usageVars, reqs>>

PurgeSelects(r) ==
  LET due == {f \in FileIds : rows[f].status = "deleted" /\ rows[f].expired
                              /\ _assert_file_access(r, f)} IN
    /\ At(r, "idle") /\ due # {}
    /\ Load(r, "purge", due)
    /\ UNCHANGED <<rows, objects, uploads, usageVars>>

PurgeRemoves(r) ==
  \E old \in reqs[r].loaded :
    /\ At(r, "purge") /\ old.file \notin reqs[r].removed
    /\ objects' = objects \ {old.file}
    /\ Notes(r, [reqs[r] EXCEPT !.removed = @ \union {old.file}])
    /\ UNCHANGED <<rows, uploads, usageVars>>

PurgeCommits(r) ==
  /\ At(r, "purge") /\ \A old \in reqs[r].loaded : old.file \in reqs[r].removed
  /\ rows' = Written(reqs[r].loaded, "purged", TRUE)
  /\ Ends(r)
  /\ UNCHANGED <<objects, uploads, usageVars>>

\* The process dies, or an error leaves the unit of work: no row is written.
RollsBack(r) ==
  /\ reqs[r].at \notin {"idle", "done", "multipart", "presigned"}
  /\ Ends(r)
  /\ UNCHANGED <<rows, objects, uploads, usageVars>>

RequestStep(r) ==
  \/ \E n \in 1 .. BatchSize : upload_batch_bytes(r, n)
  \/ UploadRefused(r) \/ put_file(r) \/ StoreFails(r) \/ Flushes(r) \/ UploadCommits(r)
  \/ _reserve_upload_quotas(r) \/ ReserveMisses(r) \/ ReserveInserts(r) \/ ReserveIsLate(r)
  \/ QuotaRefuses(r) \/ require_reserve(r)
  \/ _release_upload_quotas(r) \/ ReleaseReads(r) \/ ReleaseWrites(r)
  \/ create_presigned_upload(r) \/ initiate_multipart_upload(r) \/ InitiateCommits(r)
  \/ CompleteStores(r) \/ CompleteCommits(r)
  \/ DownloadAnswers(r) \/ DeleteRemoves(r) \/ DeleteCommits(r)
  \/ PurgeSelects(r) \/ PurgeRemoves(r) \/ PurgeCommits(r)
  \/ RollsBack(r)
  \/ \E f \in FileIds : CompleteLoads(r, f) \/ DownloadLoads(r, f) \/ DeleteLoads(r, f)

Next ==
  \/ \E r \in Requests : RequestStep(r)
  \/ \E f \in FileIds : ClientPuts(f) \/ RetentionEnds(f)

Spec == Init /\ [][Next]_fileVars

-----------------------------------------------------------------------------
(* With a retention every available row has its object, whatever requests  *)
(* run together or die half way: the object is stored before the row       *)
(* commits (upload_bytes, complete_multipart_upload) and only purged when  *)
(* the committed row says so (delete_file, purge_deleted_files).  Without  *)
(* a retention a deletion that rolls back leaves a row without an object.  *)
AvailableHasObject ==
  Retention => \A f \in FileIds : rows[f].status = "available" => f \in objects

(* What upload_bytes stored and kept is counted, in every rule, for the     *)
(* tenant it belongs to and whatever fails around it; the counters may     *)
(* count more, for files whose request was rolled back or whose file was   *)
(* deleted.  With the memory store that is always so; with the database    *)
(* store until a reservation that was refused is granted after all         *)
(* (require_reserve), or one is overwritten by a release that had read the *)
(* row before (DatabaseQuotaUsageStore.release): nothing else loses usage. *)
StoredIsCounted ==
  \A k \in Rules, t \in {TenantOf[r] : r \in Requests} :
    store = "memory" \/ <<k, t>> \notin lost =>
      QuotaAmount(k) * Cardinality({f \in FileIds : TenantOf[f[1]] = t /\ rows[f].status = "available"
                                      /\ f \in reqs[f[1]].flushed /\ reqs[f[1]].batch > 0})
        <= used[<<k, t>>]

(* Both: a file that is there has its object, and is counted.               *)
ObjectsAccountedFor == AvailableHasObject /\ StoredIsCounted
=============================================================================
