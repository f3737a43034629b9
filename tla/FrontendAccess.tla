--------------------------- MODULE FrontendAccess ---------------------------
(***************************************************************************)
(* The access map of a frontend (platform_apps/access/services.py): each   *)
(* access key of a client is mapped to an expression over permissions, and *)
(* a user is told which keys are open to them, together with an            *)
(* access_revision to cache the answer by.  One client and one user, whose *)
(* projected policies other components change.                             *)
(*                                                                         *)
(* A change is one transaction: a SELECT, checks, an INSERT or an UPDATE   *)
(* by id of the columns that changed, a revision row and an audit record.  *)
(* An answer is two SELECTs: the mappings, then the policies.              *)
(***************************************************************************)
EXTENDS Naturals, Sequences

CONSTANTS
  Requests,
  Keys,            \* access keys
  Registered,      \* permissions of the registry, by evaluation scope
  Trees,           \* expressions, well formed or not, and their parts
  Expressions,     \* those that requests send
  Serial,          \* changes come one after the other
  MaxVersion,      \* bound on the changes of a mapping
  MaxProjections,  \* bound on the changes of the user's policies
  Null

VARIABLES
  mappings,     \* frontend_access_mappings, as committed
  revisions,    \* frontend_access_mapping_revisions of each key, in order
  policies,     \* projected_policies: <<scope, permission>> the user is allowed
  projections,  \* how often these have changed
  calls,        \* each request
  cached        \* what the frontend keeps: the last answer with a new revision

frontendVars == <<mappings, revisions, policies, projections, calls, cached>>

Scopes == {"tenant", "platform"}
Statuses == {"active", "disabled", "deprecated"}
Grants == UNION {{<<s, p>> : p \in Registered[s]} : s \in Scopes}

NoMapping == [scope |-> "tenant", expression |-> Null, status |-> "disabled", version |-> 0]
Idle == [at |-> "idle"]

Init ==
  /\ mappings = [k \in Keys |-> NoMapping]
  /\ revisions = [k \in Keys |-> <<>>]
  /\ policies = {}
  /\ projections = 0
  /\ calls = [r \in Requests |-> Idle]
  /\ cached = Null

At(r, place) == calls[r].at = place
Notes(r, call) == calls' = [calls EXCEPT ![r] = call]

-----------------------------------------------------------------------------
(* Expressions: a permission, or `all' or `any' of a list of expressions.  *)
(* A tree is finite, so the code's recursion over it comes to what holds of *)
(* a set of trees that contains the parts of its members.                  *)

Composed(e) == e.op \in {"all", "any"}

\* Mutant: the list may be empty.
_normalize_expression_Empty(e) ==
  \E accepted \in SUBSET Trees :
    e \in accepted /\ \A d \in accepted : Composed(d) => d.parts \subseteq accepted

\* Whether the expression is accepted: no list in it is empty.
_normalize_expression(e) ==
  \E accepted \in SUBSET Trees :
    /\ e \in accepted
    /\ \A d \in accepted : Composed(d) => d.parts # {} /\ d.parts \subseteq accepted

\* The pairs of the permissions an expression reaches.
_expression_permission_pairs(e) ==
  {d.pair : d \in {d \in Trees :
     /\ d.op = "permission"
     /\ \A reached \in SUBSET Trees :
          e \in reached /\ (\A c \in reached : c.parts \subseteq reached) => d \in reached}}

\* Mutant: any permission will do.
Evaluates_Any(open, allowed) ==
  \A d \in Trees :
    d \in open <=> \/ d.op = "permission" /\ allowed # {}
                   \/ d.op = "all" /\ d.parts \subseteq open
                   \/ d.op = "any" /\ d.parts \intersect open # {}

\* The trees in `open' are those that are true when `allowed' is permitted.
Evaluates(open, allowed) ==
  \A d \in Trees :
    d \in open <=> \/ d.op = "permission" /\ d.pair \in allowed
                   \/ d.op = "all" /\ d.parts \subseteq open
                   \/ d.op = "any" /\ d.parts \intersect open # {}

_evaluate_expression(e, allowed) ==
  \E open \in SUBSET Trees : e \in open /\ Evaluates(open, allowed)

\* Mutant: the registry is asked in any scope.
validate_frontend_access_expression_AnyScope(e, scope) ==
  /\ _normalize_expression(e)
  /\ _expression_permission_pairs(e) \subseteq UNION {Registered[s] : s \in Scopes}

validate_frontend_access_expression(e, scope) ==
  /\ _normalize_expression(e)
  /\ _expression_permission_pairs(e) \subseteq Registered[scope]

-----------------------------------------------------------------------------
(* FrontendAccessConfigService.                                            *)

Changing(r) == calls[r].at \in {"create", "update"}
MayChange(r) == At(r, "idle") /\ (Serial => \A q \in Requests : ~Changing(q))

create_mapping(r, k) ==
  /\ MayChange(r)
  /\ mappings[k] = NoMapping
  /\ \E scope \in Scopes, e \in Expressions :
       /\ validate_frontend_access_expression(e, scope)
       /\ Notes(r, [at |-> "create", key |-> k, read |-> NoMapping,
                    row |-> [scope |-> scope, expression |-> e, status |-> "active", version |-> 1]])
  /\ UNCHANGED <<mappings, revisions, policies, projections, cached>>

Given(new, old) == IF new = Null THEN old ELSE new

\* Mutant: a request that gives a status keeps the version.
Updated_SameVersion(mapping, scope, e, status) ==
  [scope |-> Given(scope, mapping.scope), expression |-> Given(e, mapping.expression),
   status |-> Given(status, mapping.status),
   version |-> IF status = Null THEN mapping.version + 1 ELSE mapping.version]

\* The mapping with what the request gives (Null: nothing) and the next version.
Updated(mapping, scope, e, status) ==
  [scope |-> Given(scope, mapping.scope), expression |-> Given(e, mapping.expression),
   status |-> Given(status, mapping.status), version |-> mapping.version + 1]

\* disable_mapping is the update that gives the status "disabled" only.
update_mapping(r, k) ==
  /\ MayChange(r)
  /\ mappings[k] # NoMapping /\ mappings[k].version < MaxVersion
  /\ \E scope \in Scopes \union {Null}, e \in Expressions \union {Null}, status \in Statuses \union {Null} :
       LET row == Updated(mappings[k], scope, e, status) IN
       /\ (scope # Null \/ e # Null) => validate_frontend_access_expression(row.expression, row.scope)
       /\ Notes(r, [at |-> "update", key |-> k, read |-> mappings[k], row |-> row])
  /\ UNCHANGED <<mappings, revisions, policies, projections, cached>>

\* The INSERT meets uq_frontend_access_client_key.
Conflicts(r) == At(r, "create") /\ mappings[calls[r].key] # NoMapping

\* The columns of `to' that differ from those the session has loaded.
Written(from, to, committed) ==
  [c \in DOMAIN committed |-> IF to[c] = from[c] THEN committed[c] ELSE to[c]]

\* _add_revision: what the new row is, without its scope.
Revision(row) == [expression |-> row.expression, status |-> row.status, version |-> row.version]

\* flush, _add_revision, _audit and the commit.
ChangeCommits(r) ==
  LET call == calls[r] IN
  /\ Changing(r) /\ ~Conflicts(r)
  /\ mappings' = [mappings EXCEPT ![call.key] = Written(call.read, call.row, @)]
  /\ revisions' = [revisions EXCEPT ![call.key] = Append(@, Revision(call.row))]
  /\ Notes(r, Idle)
  /\ UNCHANGED <<policies, projections, cached>>

\* The constraint, or any other error.
ChangeFails(r) ==
  /\ Changing(r)
  /\ Notes(r, Idle)
  /\ UNCHANGED <<mappings, revisions, policies, projections, cached>>

-----------------------------------------------------------------------------
(* FrontendAccessEvaluationService.                                        *)

\* The sets of a request with or without a tenant.
_permission_sets(tenant) ==
  [s \in Scopes |-> {p \in Registered[s] : <<s, p>> \in policies /\ (s = "tenant" => tenant)}]

_evaluate_mapping(mapping, sets, tenant) ==
  /\ mapping.status = "active"
  /\ mapping.scope = "tenant" => tenant
  /\ _evaluate_expression(mapping.expression, sets[mapping.scope])

\* The digest stands for what it is computed from.
_frontend_access_revision(read, sets) ==
  [mappings |-> [k \in {k \in Keys : read[k] # NoMapping} |->
                   [scope |-> read[k].scope, status |-> read[k].status, version |-> read[k].version]],
   permissions |-> sets]

\* evaluate_all and check: _mappings.
EvaluateReads(r) ==
  /\ At(r, "idle")
  /\ \E tenant \in BOOLEAN : Notes(r, [at |-> "evaluate", tenant |-> tenant, read |-> mappings])
  /\ UNCHANGED <<mappings, revisions, policies, projections, cached>>

\* The policies are read, and `asked' (for evaluate_all the mapped keys) answered.
Answer(call, asked) ==
  LET sets == _permission_sets(call.tenant) IN
  [revision |-> _frontend_access_revision(call.read, sets),
   access |-> [k \in asked |-> call.read[k] # NoMapping /\ _evaluate_mapping(call.read[k], sets, call.tenant)]]

EvaluateAnswers(r) ==
  /\ At(r, "evaluate")
  /\ \E asked \in SUBSET Keys :
       Notes(r, [at |-> "answered", read |-> calls[r].read, answer |-> Answer(calls[r], asked)])
  /\ UNCHANGED <<mappings, revisions, policies, projections, cached>>

\* What `new' says, and `old' of the keys `new' says nothing of.
Updates(new, old) ==
  [k \in DOMAIN new \union DOMAIN old |-> IF k \in DOMAIN new THEN new[k] ELSE old[k]]

\* The frontend replaces what it keeps when the revision is another one.
Receives(r) ==
  /\ At(r, "answered")
  /\ cached' = IF cached # Null /\ cached.revision = calls[r].answer.revision
                 THEN [cached EXCEPT !.access = Updates(calls[r].answer.access, @)]
                 ELSE calls[r].answer
  /\ Notes(r, Idle)
  /\ UNCHANGED <<mappings, revisions, policies, projections>>

-----------------------------------------------------------------------------
\* PolicyProjector: a permission is granted or revoked.
Projects ==
  /\ projections < MaxProjections
  /\ projections' = projections + 1
  /\ \E g \in Grants :
       policies' = IF g \in policies THEN policies \ {g} ELSE policies \union {g}
  /\ UNCHANGED <<mappings, revisions, calls, cached>>

RequestStep(r) ==
  \/ \E k \in Keys : create_mapping(r, k) \/ update_mapping(r, k)
  \/ ChangeCommits(r) \/ ChangeFails(r)
  \/ EvaluateReads(r) \/ EvaluateAnswers(r) \/ Receives(r)

Next == Projects \/ \E r \in Requests : RequestStep(r)

Spec == Init /\ [][Next]_frontendVars

-----------------------------------------------------------------------------
(* Two answers with one access_revision agree on every key both tell of,   *)
(* so a frontend may cache by it (04-frontend-access-design.md lines 387   *)
(* and 390), whatever is changed between their reads, with or without a    *)
(* tenant, although the digest contains no expression and no tenant.       *)
(* Needs changes that follow each other: of two that race, both write the  *)
(* same version (README, divergences).                                     *)
AccessRevisionTells ==
  \A r \in Requests :
    At(r, "answered") /\ cached # Null /\ cached.revision = calls[r].answer.revision =>
      \A k \in DOMAIN cached.access \intersect DOMAIN calls[r].answer.access :
        cached.access[k] = calls[r].answer.access[k]

(* A key is open only to a user with a permission that the expression      *)
(* names, among those of the mapping's scope (_evaluate_mapping), and where *)
(* changes follow each other the registry knows every permission it names  *)
(* in that scope, also after a change of the scope alone                   *)
(* (validate_frontend_access_expression).                                  *)
OpenIsPermitted ==
  \A r \in Requests :
    At(r, "answered") =>
      \A k \in DOMAIN calls[r].answer.access : calls[r].answer.access[k] =>
        LET mapping == calls[r].read[k]
            named   == _expression_permission_pairs(mapping.expression)
        IN /\ named \intersect calls[r].answer.revision.permissions[mapping.scope] # {}
           /\ Serial => named \subseteq Registered[mapping.scope]
=============================================================================
