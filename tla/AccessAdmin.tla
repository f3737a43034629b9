----------------------------- MODULE AccessAdmin -----------------------------
(***************************************************************************)
(* The platform domain of the roles: role templates and platform           *)
(* administrators (platform_apps/access/services.py), and the operator's   *)
(* command that makes the first of them (bootstrap.py).  The grants of a   *)
(* tenant are in Permissions.                                              *)
(*                                                                         *)
(* Every request is one transaction, whose SELECTs see what is committed   *)
(* (READ COMMITTED); its INSERTs and UPDATEs wait for the transactions     *)
(* that hold the same unique keys and fail when those have committed.      *)
(* Their rows become visible together, at the commit.                      *)
(***************************************************************************)
EXTENDS Naturals, FiniteSets

CONSTANTS
  Requests,
  Users,         \* users who may become administrators
  FirstAdmins,   \* those bootstrap commands name
  Registered,    \* platform permissions of the registry
  Created,       \* ids of templates that requests create (uuid4)
  Names,         \* names of templates
  MaxVersion,    \* bound on the changes of a template
  Null

VARIABLES
  templates,    \* role_templates, as committed
  grants,       \* role_grants of the platform domain: <<user, template>>
  policies,     \* projected_policies of the platform domain: <<grant, permission>>
  events,       \* role_grant_changed events in the outbox
  txs,          \* each request
  bootstrapped  \* history: the grants that bootstrap commands have made

adminVars == <<templates, grants, policies, events, txs, bootstrapped>>

PlatformAdmin == "platform-admin"     \* DEFAULT_PLATFORM_ADMIN_TEMPLATE_ID
TemplateIds == Created \union {PlatformAdmin}
NoTemplate == [scope |-> Null, name |-> Null, version |-> 0, permissions |-> {}]
Idle == [at |-> "idle"]

Init ==
  /\ templates = [t \in TemplateIds |-> NoTemplate]
  /\ grants = {}
  /\ policies = {}
  /\ events = {}
  /\ txs = [r \in Requests |-> Idle]
  /\ bootstrapped = {}

At(r, place) == txs[r].at = place
Notes(r, tx) == txs' = [txs EXCEPT ![r] = tx]
UnchangedRows == UNCHANGED <<templates, grants, policies, events, bootstrapped>>

\* An error ends the transaction with nothing written.
Fails(r) == ~At(r, "idle") /\ Notes(r, Idle) /\ UnchangedRows

\* The routes' platform permissions: the caller has a projected policy.
Authorized == policies # {}

-----------------------------------------------------------------------------
(* RoleTemplateService: templates of the platform scope.                   *)

\* Duplicates are dropped; something unregistered, or nothing, is refused.
_validate_permissions(permissions) == permissions # {} /\ permissions \subseteq Registered

\* uq_role_templates_scope_name_version.
SameIdentity(row, other) ==
  row.scope = other.scope /\ row.name = other.name /\ row.version = other.version

_template_by_identity(row) == {t \in TemplateIds : SameIdentity(row, templates[t])}

create_template(r) ==
  /\ At(r, "idle") /\ Authorized
  /\ \E t \in Created, name \in Names, version \in 1..MaxVersion, permissions \in SUBSET Registered :
       LET row == [scope |-> "platform", name |-> name, version |-> version, permissions |-> permissions] IN
       /\ templates[t] = NoTemplate
       /\ _validate_permissions(permissions)
       /\ _template_by_identity(row) = {}
       /\ Notes(r, [at |-> "template", id |-> t, read |-> NoTemplate, row |-> row])
  /\ UnchangedRows

\* A name, permissions, or both (Null: not given); permissions count a version.
update_template(r) ==
  /\ At(r, "idle") /\ Authorized
  /\ \E t \in TemplateIds, name \in Names \union {Null}, permissions \in SUBSET Registered \union {Null} :
       LET read == templates[t]
           named == [read EXCEPT !.name = IF name = Null THEN @ ELSE name]
           row == IF permissions = Null THEN named
                  ELSE [named EXCEPT !.permissions = permissions, !.version = @ + 1]
       IN  /\ read # NoTemplate /\ row.version <= MaxVersion
           /\ permissions # Null => _validate_permissions(permissions)
           /\ Notes(r, [at |-> "template", id |-> t, read |-> read, row |-> row])
  /\ UnchangedRows

\* The columns of `to' that differ from those the session has loaded.
Written(from, to, committed) ==
  [c \in DOMAIN committed |-> IF to[c] = from[c] THEN committed[c] ELSE to[c]]

TemplateCommits(r) ==
  LET id == txs[r].id
      row == Written(txs[r].read, txs[r].row, templates[id])
  IN  /\ At(r, "template")
      /\ txs[r].read = NoTemplate => templates[id] = NoTemplate
      /\ _template_by_identity(row) \subseteq {id}
      /\ templates' = [templates EXCEPT ![id] = row]
      /\ Notes(r, Idle)
      /\ UNCHANGED <<grants, policies, events, bootstrapped>>

-----------------------------------------------------------------------------
(* PlatformAdminService.                                                   *)

grant_platform_admin(r) ==
  /\ At(r, "idle") /\ Authorized
  /\ \E u \in Users, t \in TemplateIds :
       /\ templates[t] # NoTemplate
       /\ Notes(r, [at |-> "grant", grant |-> <<u, t>>])
  /\ UnchangedRows

\* The grant is there: it is the answer.
GrantExists(r) ==
  /\ At(r, "grant")
  /\ txs[r].grant \in grants
  /\ Notes(r, Idle)
  /\ UnchangedRows

\* It is not: INSERT, event and audit record.
GrantInserts(r) ==
  /\ At(r, "grant")
  /\ txs[r].grant \notin grants
  /\ Notes(r, [at |-> "granting", grant |-> txs[r].grant])
  /\ UnchangedRows

GrantCommits(r) ==
  /\ At(r, "granting")
  /\ txs[r].grant \notin grants       \* uq_role_grants_tenant_subject_role
  /\ grants' = grants \union {txs[r].grant}
  /\ events' = events \union {txs[r].grant}
  /\ Notes(r, Idle)
  /\ UNCHANGED <<templates, policies, bootstrapped>>

-----------------------------------------------------------------------------
\* PolicyProjector.handle_role_grant_changed of a live grant, from the outbox.
Projected(grant, row) == {<<grant, p>> : p \in row.permissions \intersect Registered}

Projects(grant) ==
  /\ grant \in events
  /\ events' = events \ {grant}
  /\ policies' = {policy \in policies : policy[1] # grant} \union Projected(grant, templates[grant[2]])
  /\ UNCHANGED <<templates, grants, txs, bootstrapped>>

-----------------------------------------------------------------------------
(* PlatformAdminBootstrapService.                                          *)

\* No grant in the platform domain.
BootstrapCounts(r, u) ==
  /\ At(r, "idle")
  /\ grants = {}
  /\ Notes(r, [at |-> "counted", user |-> u])
  /\ UnchangedRows

\* _role_template: the template with the default id, or a new one with every
\* platform permission.
BootstrapReadsTemplate(r) ==
  LET old == templates[PlatformAdmin]
      row == IF old # NoTemplate THEN old
             ELSE [scope |-> "platform", name |-> PlatformAdmin, version |-> 1, permissions |-> Registered]
  IN  /\ At(r, "counted")
      /\ _validate_permissions(row.permissions)
      /\ Notes(r, [at |-> "bootstrapping", user |-> txs[r].user, read |-> old, row |-> row])
      /\ UnchangedRows

\* Mutant: there is no unique key on role_grants.
BootstrapInserts_Duplicate(r) ==
  txs[r].read = NoTemplate =>
    templates[PlatformAdmin] = NoTemplate /\ _template_by_identity(txs[r].row) = {}

\* The new template and the grant meet no row with the same key.
BootstrapInserts(r) ==
  /\ txs[r].read = NoTemplate =>
       templates[PlatformAdmin] = NoTemplate /\ _template_by_identity(txs[r].row) = {}
  /\ <<txs[r].user, PlatformAdmin>> \notin grants

\* project_grant in the same transaction, without an event.
BootstrapCommits(r) ==
  LET grant == <<txs[r].user, PlatformAdmin>> IN
  /\ At(r, "bootstrapping")
  /\ BootstrapInserts(r)
  /\ templates' = IF txs[r].read = NoTemplate
                    THEN [templates EXCEPT ![PlatformAdmin] = txs[r].row] ELSE templates
  /\ grants' = grants \union {grant}
  /\ policies' = policies \union Projected(grant, txs[r].row)
  /\ bootstrapped' = bootstrapped \union {r}
  /\ Notes(r, Idle)
  /\ UNCHANGED events

RequestStep(r) ==
  \/ create_template(r) \/ update_template(r) \/ TemplateCommits(r)
  \/ grant_platform_admin(r) \/ GrantExists(r) \/ GrantInserts(r) \/ GrantCommits(r)
  \/ \E u \in FirstAdmins : BootstrapCounts(r, u)
  \/ BootstrapReadsTemplate(r) \/ BootstrapCommits(r)
  \/ Fails(r)

Next ==
  \/ \E r \in Requests : RequestStep(r)
  \/ \E grant \in grants : Projects(grant)

Spec == Init /\ [][Next]_adminVars

-----------------------------------------------------------------------------
(* Runs of the bootstrap command that name one user (an operator repeats   *)
(* it, or two do) make one administrator, once: the first run's check      *)
(* cannot keep the second out, the unique keys do (core-cli.md line 76:    *)
(* only while the platform domain has no grant).  Runs that name different *)
(* users can each make one (README, divergences).                          *)
BootstrapOnce == Cardinality(FirstAdmins) = 1 => Cardinality(bootstrapped) <= 1

(* The administrator a bootstrap has made can act at once, without a       *)
(* dispatcher: the grant's rules are projected in its transaction.         *)
FirstAdminCanAct ==
  bootstrapped # {} => \E u \in FirstAdmins, p \in Registered : <<<<u, PlatformAdmin>>, p>> \in policies
=============================================================================
