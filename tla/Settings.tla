------------------------------- MODULE Settings ------------------------------
(***************************************************************************)
(* The values of one setting (platform_apps/settings): a row per scope, its *)
(* revisions, and requests that change, reset and resolve it.  A change    *)
(* loads the row, decides, and is written and committed later; the columns *)
(* that differ from what was loaded are written back by primary key.       *)
(***************************************************************************)
EXTENDS Naturals, FiniteSets

CONSTANTS
  Requests,    \* each request makes one change, or resolves once
  Tenants,     \* scope_id of tenant scopes
  Values,      \* values that may be sent
  Refs,        \* secret references that may be sent
  MaxVersion,  \* bound: version of a row
  Null

VARIABLES
  spec,       \* SettingSpec: runtime_mutable, scopes, sensitive, secret_ref_only
  rows,       \* setting_values by scope
  revisions,  \* setting_revisions; history: the expected_version of the change
  reqs,
  raced       \* history: the scopes where a change began while another was under way

settingVars == <<spec, rows, revisions, reqs, raced>>

Scopes == {"platform"} \union Tenants
NoRow == [status |-> "none", value |-> Null, ref |-> Null, version |-> 0]
NoReq == [at |-> "idle", scope |-> Null, value |-> Null, ref |-> Null, expected |-> Null,
          loaded |-> NoRow, answer |-> Null]
Specs == [mutable : BOOLEAN, tenant : BOOLEAN, sensitive : BOOLEAN, ref_only : BOOLEAN]

Init ==
  /\ spec \in Specs
  /\ rows = [s \in Scopes |-> NoRow]
  /\ revisions = {}
  /\ reqs = [r \in Requests |-> NoReq]
  /\ raced = {}

At(r, place) == reqs[r].at = place
Notes(r, req) == reqs' = [reqs EXCEPT ![r] = req]
Ends(r) == Notes(r, [NoReq EXCEPT !.at = "done"])

_assert_setting_mutable == spec.mutable
_assert_scope_allowed(scope) == scope = "platform" \/ spec.tenant

\* What is stored of a value and a reference that were sent.
_validated_setting_value(value, ref) ==
  IF spec.ref_only THEN ref # Null ELSE value # Null
Stored(value) == IF spec.ref_only THEN Null ELSE value

\* The dry run of a change makes the same checks.
validate(scope, value, ref) ==
  _assert_setting_mutable /\ _assert_scope_allowed(scope) /\ _validated_setting_value(value, ref)

\* Without an expected_version anything goes.
_assert_expected_version(row, expected) == expected = Null \/ expected = row.version

\* r begins its change.
Changing(req, scope) == req.at \in {"upsert", "reset"} /\ req.scope = scope
Begins(r, req) ==
  /\ Notes(r, req)
  /\ raced' = IF \E q \in Requests : Changing(reqs[q], req.scope) THEN raced \union {req.scope}
              ELSE raced

\* _current_value: deleted rows too.
upsert(r, scope, value, ref, expected) ==
  /\ At(r, "idle")
  /\ validate(scope, value, ref)
  /\ _assert_expected_version(rows[scope], expected)
  /\ rows[scope].version < MaxVersion
  /\ Begins(r, [NoReq EXCEPT !.at = "upsert", !.scope = scope, !.value = Stored(value),
                  !.ref = ref, !.expected = expected, !.loaded = rows[scope]])
  /\ UNCHANGED <<spec, rows, revisions>>

\* _active_value: a row that is not deleted.
reset(r, scope, expected) ==
  /\ At(r, "idle")
  /\ _assert_setting_mutable /\ _assert_scope_allowed(scope)
  /\ rows[scope].status = "active" /\ rows[scope].version < MaxVersion
  /\ _assert_expected_version(rows[scope], expected)
  /\ Begins(r, [NoReq EXCEPT !.at = "reset", !.scope = scope, !.expected = expected,
                  !.loaded = rows[scope]])
  /\ UNCHANGED <<spec, rows, revisions>>

\* A column whose new value equals the loaded one is not in the UPDATE.
Updated(loaded, new, now) == IF new = loaded THEN now ELSE new

Changed(r, status) ==
  LET q == reqs[r]
      now == rows[q.scope]
  IN  [status |-> Updated(q.loaded.status, status, now.status),
       value |-> Updated(q.loaded.value, q.value, now.value),
       ref |-> Updated(q.loaded.ref, q.ref, now.ref),
       version |-> q.loaded.version + 1]

\* Mutant: the old value is read after it was replaced.
_add_revision_Late(r) ==
  revisions' = revisions \union
    {[by |-> r, scope |-> reqs[r].scope, version |-> reqs[r].loaded.version + 1,
      old |-> reqs[r].value, new |-> reqs[r].value, expected |-> reqs[r].expected]}

_add_revision(r) ==
  revisions' = revisions \union
    {[by |-> r, scope |-> reqs[r].scope, version |-> reqs[r].loaded.version + 1,
      old |-> reqs[r].loaded.value, new |-> reqs[r].value, expected |-> reqs[r].expected]}

\* The INSERT conflicts with a row that appeared since
\* (uq_setting_values_module_key_scope).
\* Mutant: no unique constraint.
InsertConflicts_Never(r) == FALSE

InsertConflicts(r) ==
  reqs[r].loaded.status = "none" /\ rows[reqs[r].scope].status # "none"

\* With the event and the audit record of the same transaction.
UpsertCommits(r) ==
  /\ At(r, "upsert") /\ ~InsertConflicts(r)
  /\ rows' = [rows EXCEPT ![reqs[r].scope] = Changed(r, "active")]
  /\ _add_revision(r)
  /\ Ends(r)
  /\ UNCHANGED <<spec, raced>>

ResetCommits(r) ==
  /\ At(r, "reset")
  /\ rows' = [rows EXCEPT ![reqs[r].scope] = Changed(r, "deleted")]
  /\ _add_revision(r)
  /\ Ends(r)
  /\ UNCHANGED <<spec, raced>>

\* The conflict, an error of the event or the audit record, a crash.
RollsBack(r) ==
  /\ At(r, "upsert") \/ At(r, "reset")
  /\ Ends(r)
  /\ UNCHANGED <<spec, rows, revisions, raced>>

_serialize_setting_value(value, ref) ==
  IF spec.sensitive \/ spec.ref_only
  THEN IF value # Null \/ ref # Null THEN "redacted" ELSE Null
  ELSE value

_resolved_from_row(scope) ==
  [source |-> IF scope = "platform" THEN "platform" ELSE "tenant", version |-> rows[scope].version,
   value |-> _serialize_setting_value(rows[scope].value, rows[scope].ref)]

\* The tenant's row first, then the platform's, then the default.
ResolveTenant(r, scope) ==
  /\ At(r, "idle")
  /\ Notes(r, IF scope # "platform" /\ spec.tenant /\ rows[scope].status = "active"
              THEN [NoReq EXCEPT !.at = "answered", !.scope = scope,
                                 !.answer = _resolved_from_row(scope)]
              ELSE [NoReq EXCEPT !.at = "resolve", !.scope = scope])
  /\ UNCHANGED <<spec, rows, revisions, raced>>

ResolvePlatform(r) ==
  /\ At(r, "resolve")
  /\ Notes(r, [reqs[r] EXCEPT !.at = "answered",
                 !.answer = IF rows["platform"].status = "active"
                            THEN _resolved_from_row("platform")
                            ELSE [source |-> "default", version |-> 0, value |-> Null]])
  /\ UNCHANGED <<spec, rows, revisions, raced>>

RequestStep(r) ==
  \/ \E scope \in Scopes, value \in Values \union {Null},
        ref \in Refs \union {Null}, expected \in {Null} \union (0 .. MaxVersion) : upsert(r, scope, value, ref, expected)
  \/ \E scope \in Scopes, expected \in {Null} \union (0 .. MaxVersion) : reset(r, scope, expected)
  \/ UpsertCommits(r) \/ ResetCommits(r) \/ RollsBack(r)
  \/ \E scope \in Scopes : ResolveTenant(r, scope)
  \/ ResolvePlatform(r)

Next == \E r \in Requests : RequestStep(r)

Spec == Init /\ [][Next]_settingVars

-----------------------------------------------------------------------------
(* Of concurrent first changes of a scope only one is kept.  Where no       *)
(* change began while another of its scope was under way, the revisions are *)
(* numbered without a gap, each starts from the value the one before left,  *)
(* and the last left the row's value (upsert, reset, _add_revision), which  *)
(* is also what resolve answers with that version.                          *)
HistoryExplainsValue ==
  \A s \in Scopes :
    LET revs == {v \in revisions : v.scope = s}
        Rev(n) == CHOOSE v \in revs : v.version = n
    IN  /\ Cardinality({v \in revs : v.version = 1}) = IF rows[s].status = "none" THEN 0 ELSE 1
        /\ s \notin raced =>
             /\ {v.version : v \in revs} = 1 .. rows[s].version
             /\ Cardinality(revs) = rows[s].version
             /\ rows[s].version > 0 => Rev(rows[s].version).new = rows[s].value
             /\ \A n \in 1 .. rows[s].version :
                  Rev(n).old = IF n = 1 THEN Null ELSE Rev(n - 1).new
             /\ \A r \in Requests :
                  LET q == reqs[r] IN
                    At(r, "answered") /\ q.answer.version > 0
                      /\ s = (IF q.answer.source = "tenant" THEN q.scope ELSE "platform")
                    => q.answer.value \in {"redacted", Rev(q.answer.version).new}

(* platform-settings.md: expected_version is optimistic concurrency, so two *)
(* changes that expected the same version are never both committed.         *)
ExpectedOnce ==
  \A v, w \in revisions :
    v.scope = w.scope /\ v.expected = w.expected /\ v.expected # Null => v = w
=============================================================================
