------------------------------ MODULE Tenancy -------------------------------
(***************************************************************************)
(* Tenants, memberships and invitations (platform_apps/tenants) and the    *)
(* tenant life cycle with its deletion workflow (core/tenancy/services).   *)
(* An operator is a request or a maintenance job, made of the reads of its *)
(* unit of work and its commit; an ORM row is written by id, with the      *)
(* columns that changed, whatever another transaction wrote since it was   *)
(* loaded.  An invitation is named by the operator that issued it.         *)
(* Sessions belong to Accounts; the revocation hook writes them.           *)
(***************************************************************************)
EXTENDS Naturals, Sequences, FiniteSets, TenantPolicy

CONSTANTS
  Operators,
  Users,
  Tenants,
  Statuses,     \* statuses a membership may be given; any non-blank string is one
  Null,
  MaxFailures   \* how many deletion steps may fail (bound)

VARIABLES
  tenants,      \* the tenants table: status, "none" before it is provisioned
  members,      \* tenant_members: status, "none" without a row
  invitations,  \* tenant_invitations
  granted,      \* role grants made by accepted invitations
  records,      \* tenant_lifecycle_step_records of the delete workflow: status, "none" without a row
  sessions,     \* user_sessions (Accounts)
  ops,          \* what each operator has loaded
  cleaned,      \* cleanup hooks that ran to their end, of each tenant
  failures,     \* deletion steps that failed so far
  overlapped,   \* history: an operator acted while another was in the middle of a call
  together,     \* history: tenants of which two deletion runs were under way at once
  repeated,     \* history: deletion steps executed when on record as succeeded
  direct        \* history: tenants that finish_delete_tenant closed without the workflow

tenancyVars ==
  <<tenants, members, invitations, granted, records, ops, cleaned, failures,
    overlapped, together, repeated, direct>>

_DELETE_STEPS ==
  <<"mark_deleting", "cancel_tasks", "cleanup_business_data", "cleanup_files", "finish">>
Hooks == {"cancel_tasks", "cleanup_business_data", "cleanup_files"}

Closed == {"archived", "deleted"}

NoInvitation == [status |-> "none", tenant |-> Null, email |-> Null, role |-> FALSE,
                 expired |-> FALSE, accepted_by |-> Null]
Idle == [at |-> "idle", tenant |-> Null, user |-> Null, status |-> "none", loaded |-> "none",
         target |-> "none", invitation |-> Null, seen |-> {}, done |-> <<>>, ran |-> {},
         outcome |-> "none"]

\* A tenant is not provisioned yet, or active with every user in it.
Init ==
  /\ tenants \in [Tenants -> {"none", "active"}]
  /\ members = [t \in Tenants |-> [u \in Users |-> tenants[t]]]
  /\ invitations = [o \in Operators |-> NoInvitation]
  /\ granted = {}
  /\ records = [t \in Tenants |-> [i \in 1..Len(_DELETE_STEPS) |-> "none"]]
  /\ ops = [o \in Operators |-> Idle]
  /\ cleaned = [t \in Tenants |-> {}]
  /\ failures = 0
  /\ overlapped = FALSE
  /\ together = {} /\ repeated = {} /\ direct = {}

At(o, place) == ops[o].at = place
Notes(o, op) == ops' = [ops EXCEPT ![o] = op]
Leaves(o) == Notes(o, Idle)

-----------------------------------------------------------------------------
(* Provisioning and the gate of every tenant route.                        *)

\* provision_tenant: the row goes from provisioning to active in one commit,
\* with the owner's membership; an existing id or code is an integrity error.
provision_tenant(o, t, owner) ==
  /\ At(o, "idle")
  /\ tenants[t] = "none"
  /\ validate_tenant_transition("provisioning", "active")
  /\ tenants' = [tenants EXCEPT ![t] = "active"]
  /\ members' = [members EXCEPT ![t][owner] = "active"]
  /\ UNCHANGED <<invitations, granted, records, sessions, ops, cleaned, failures>>

\* DatabaseTenantContextResolver.resolve for a route that writes.
resolve(o, t, u) ==
  /\ At(o, "idle")
  /\ members[t][u] = "active"
  /\ is_tenant_operation_allowed(tenants[t], "write", {})
  /\ Notes(o, [Idle EXCEPT !.at = "entered", !.tenant = t])
  /\ UNCHANGED <<tenants, members, invitations, granted, records, sessions, cleaned, failures>>

-----------------------------------------------------------------------------
(* Memberships.                                                            *)

\* create_member, update_member_status: the row is loaded (create_member
\* also wants the tenant active and may find no row) ...
create_member(o, u, status) ==
  /\ At(o, "entered")
  /\ tenants[ops[o].tenant] = "active"
  /\ Notes(o, [ops[o] EXCEPT !.at = "member", !.user = u, !.target = status,
                             !.status = members[ops[o].tenant][u]])
  /\ UNCHANGED <<tenants, members, invitations, granted, records, sessions, cleaned, failures>>

update_member_status(o, u, status) ==
  /\ At(o, "entered")
  /\ members[ops[o].tenant][u] # "none"
  /\ Notes(o, [ops[o] EXCEPT !.at = "member", !.user = u, !.target = status,
                             !.status = members[ops[o].tenant][u]])
  /\ UNCHANGED <<tenants, members, invitations, granted, records, sessions, cleaned, failures>>

\* A row inserted since then breaks uq_tenant_members_tenant_user.
InsertConflicts(o) == ops[o].status = "none" /\ members[ops[o].tenant][ops[o].user] # "none"

\* ... and flushed; the ORM writes the column only when the loaded value changes.
MemberWritten(o, status) ==
  IF ops[o].status = status THEN members
  ELSE [members EXCEPT ![ops[o].tenant][ops[o].user] = status]

MemberCommits(o) ==
  /\ At(o, "member")
  /\ members' = IF InsertConflicts(o) THEN members ELSE MemberWritten(o, ops[o].target)
  /\ Leaves(o)
  /\ UNCHANGED <<tenants, invitations, granted, records, sessions, cleaned, failures>>

-----------------------------------------------------------------------------
(* Invitations.                                                            *)

\* issue_invitation: the tenant must be active and hold no pending,
\* unexpired invitation for the e-mail; nothing unique backs the SELECT.
issue_invitation(o, email, role) ==
  /\ At(o, "entered") /\ invitations[o] = NoInvitation
  /\ tenants[ops[o].tenant] = "active"
  /\ \A p \in Operators : LET i == invitations[p] IN
       ~(i.tenant = ops[o].tenant /\ i.email = email /\ i.status = "pending" /\ ~i.expired)
  /\ Notes(o, [ops[o] EXCEPT !.at = "issue", !.user = email, !.invitation = role])
  /\ UNCHANGED <<tenants, members, invitations, granted, records, sessions, cleaned, failures>>

IssueCommits(o) ==
  /\ At(o, "issue")
  /\ invitations' = [invitations EXCEPT ![o] =
       [NoInvitation EXCEPT !.status = "pending", !.tenant = ops[o].tenant,
                            !.email = ops[o].user, !.role = ops[o].invitation]]
  /\ Leaves(o)
  /\ UNCHANGED <<tenants, members, granted, records, sessions, cleaned, failures>>

Expires(i) ==
  /\ invitations[i].status = "pending" /\ ~invitations[i].expired
  /\ invitations' = [invitations EXCEPT ![i].expired = TRUE]
  /\ UNCHANGED <<tenants, members, granted, records, sessions, ops, cleaned, failures>>

\* accept_invitation: the pending row by its token, and the membership row.
\* The e-mail is the one the caller sends.  An expired invitation is refused,
\* and the status "expired" it was given is rolled back with the refusal.
accept_invitation(o, i, u) ==
  /\ At(o, "idle")
  /\ invitations[i].status = "pending" /\ ~invitations[i].expired
  /\ Notes(o, [Idle EXCEPT !.at = "accept", !.tenant = invitations[i].tenant, !.user = u,
                           !.invitation = i, !.status = members[invitations[i].tenant][u]])
  /\ UNCHANGED <<tenants, members, invitations, granted, records, sessions, cleaned, failures>>

\* _activate_member, _grant_initial_role, then the invitation, by id.
AcceptCommits(o) ==
  /\ At(o, "accept")
  /\ IF InsertConflicts(o)
     THEN UNCHANGED <<members, granted, invitations>>
     ELSE /\ members' = MemberWritten(o, "active")
          /\ granted' = IF invitations[ops[o].invitation].role
                        THEN granted \union {<<ops[o].tenant, ops[o].user>>} ELSE granted
          /\ invitations' = [invitations EXCEPT ![ops[o].invitation].status = "accepted",
                                                ![ops[o].invitation].accepted_by = ops[o].user]
  /\ Leaves(o)
  /\ UNCHANGED <<tenants, records, sessions, cleaned, failures>>

\* Mutant: any invitation of the tenant can be revoked.
revoke_invitation_Any(o, i) ==
  /\ At(o, "entered")
  /\ invitations[i].tenant = ops[o].tenant
  /\ Notes(o, [ops[o] EXCEPT !.at = "revoke", !.invitation = i])
  /\ UNCHANGED <<tenants, members, invitations, granted, records, sessions, cleaned, failures>>

\* revoke_invitation, of a row get_invitation loaded.
revoke_invitation(o, i) ==
  /\ At(o, "entered")
  /\ invitations[i].tenant = ops[o].tenant /\ invitations[i].status = "pending"
  /\ Notes(o, [ops[o] EXCEPT !.at = "revoke", !.invitation = i])
  /\ UNCHANGED <<tenants, members, invitations, granted, records, sessions, cleaned, failures>>

RevokeCommits(o) ==
  /\ At(o, "revoke")
  /\ invitations' = [invitations EXCEPT ![ops[o].invitation].status = "revoked"]
  /\ Leaves(o)
  /\ UNCHANGED <<tenants, members, granted, records, sessions, cleaned, failures>>

-----------------------------------------------------------------------------
(* Suspension, reactivation and deletion without the workflow.             *)

TenantSessions(t) ==
  {s \in DOMAIN sessions : sessions[s].tenant = t /\ sessions[s].status = "active"}

\* revoke_tenant_sessions_for_lifecycle, by the ids it selected.
SessionsRevoked(ids) ==
  [s \in DOMAIN sessions |-> IF s \in ids THEN [sessions[s] EXCEPT !.status = "revoked"]
                                          ELSE sessions[s]]

\* Mutant: the loaded status is not validated.
_transition_Any(o, t, current, target, seen) ==
  /\ current # "none"
  /\ Notes(o, [Idle EXCEPT !.at = "transition", !.tenant = t, !.target = target, !.seen = seen])
  /\ UNCHANGED <<tenants, members, invitations, granted, records, sessions, cleaned, failures>>

\* _transition: validated against the status of the loaded row ...
_transition(o, t, current, target, seen) ==
  /\ current # "none" /\ validate_tenant_transition(current, target)
  /\ Notes(o, [Idle EXCEPT !.at = "transition", !.tenant = t, !.target = target, !.seen = seen])
  /\ UNCHANGED <<tenants, members, invitations, granted, records, sessions, cleaned, failures>>

suspend_tenant(o, t) ==
  At(o, "idle") /\ _transition(o, t, tenants[t], "suspended", TenantSessions(t))

reactivate_tenant(o, t) == At(o, "idle") /\ _transition(o, t, tenants[t], "active", {})

begin_delete_tenant(o, t) ==
  At(o, "idle") /\ _transition(o, t, tenants[t], "deleting", TenantSessions(t))

\* Of a row as it was loaded, or as begin_delete_tenant left it in the same unit of work.
finish_delete_tenant(o, t, target) ==
  \/ At(o, "idle") /\ _transition(o, t, tenants[t], target, {})
  \/ At(o, "transition") /\ ops[o].tenant = t /\ _transition(o, t, ops[o].target, target, ops[o].seen)

-----------------------------------------------------------------------------
(* TenantDeletionOrchestrator.run: all steps in one transaction, in which  *)
(* each record is read when its step comes, and written when the step has  *)
(* been executed.  A row that was written is locked until the transaction  *)
(* ends; nothing is locked before.                                         *)

DeleteBegins(o, t, target) ==
  /\ At(o, "idle")
  /\ tenants[t] # "none"
  /\ Notes(o, [Idle EXCEPT !.at = "delete", !.tenant = t, !.target = target,
                           !.status = tenants[t], !.loaded = tenants[t]])
  /\ UNCHANGED <<tenants, members, invitations, granted, records, sessions, cleaned, failures>>

Runs(o) == ops[o].at \in {"delete", "step", "flush", "failed"}
Index(o) == Len(ops[o].done) + 1
Step(o) == _DELETE_STEPS[Index(o)]
Loaded(o) == records[ops[o].tenant][Index(o)]

OtherRuns(o) == {p \in Operators \ {o} : Runs(p) /\ ops[p].tenant = ops[o].tenant}
RecordHeld(o) == \E p \in OtherRuns(o) : Index(o) \in ops[p].ran
TenantHeld(o) == \E p \in OtherRuns(o) : ops[p].status # ops[p].loaded

\* _transition, written by id.
TransitionCommits(o) ==
  /\ At(o, "transition") /\ ~TenantHeld(o)
  /\ tenants' = [tenants EXCEPT ![ops[o].tenant] = ops[o].target]
  /\ sessions' = SessionsRevoked(ops[o].seen)
  /\ Leaves(o)
  /\ UNCHANGED <<members, invitations, granted, records, cleaned, failures>>

\* A step that is on record as succeeded is not executed again.
SkipStep(o) ==
  /\ At(o, "delete") /\ Index(o) <= Len(_DELETE_STEPS)
  /\ Loaded(o) = "succeeded"
  /\ Notes(o, [ops[o] EXCEPT !.done = Append(@, "succeeded")])
  /\ UNCHANGED <<tenants, members, invitations, granted, records, sessions, cleaned, failures>>

\* Mutant: a step is executed whatever its record says.
LoadStep_Again(o) ==
  /\ At(o, "delete") /\ Index(o) <= Len(_DELETE_STEPS)
  /\ Loaded(o) = "none" => ~RecordHeld(o)
  /\ Notes(o, [ops[o] EXCEPT !.at = "step",
                 !.ran = IF Loaded(o) = "none" THEN @ \union {Index(o)} ELSE @])
  /\ UNCHANGED <<tenants, members, invitations, granted, records, sessions, cleaned, failures>>

\* _step_record: a record that is missing is inserted; the INSERT waits for
\* another run's of the same record, and breaks the key if that one commits
\* (DeleteRollsBack).
LoadStep(o) ==
  /\ At(o, "delete") /\ Index(o) <= Len(_DELETE_STEPS)
  /\ Loaded(o) # "succeeded" /\ (Loaded(o) = "none" => ~RecordHeld(o))
  /\ Notes(o, [ops[o] EXCEPT !.at = "step",
                 !.ran = IF Loaded(o) = "none" THEN @ \union {Index(o)} ELSE @])
  /\ UNCHANGED <<tenants, members, invitations, granted, records, sessions, cleaned, failures>>

\* _mark_deleting and _finish: the status of the loaded row decides, and its
\* UPDATE waits for another transaction's.
Closing(o) == IF Step(o) = "finish" THEN ops[o].target ELSE "deleting"
Closes(o) == ops[o].status # Closing(o)
MayClose(o) == validate_tenant_transition(ops[o].status, Closing(o)) /\ ~TenantHeld(o)
Revokes(o) == IF Step(o) = "mark_deleting" THEN TenantSessions(ops[o].tenant) ELSE ops[o].seen

ExecuteTransition(o) ==
  /\ At(o, "step") /\ Step(o) \notin Hooks
  /\ IF Closes(o)
     THEN MayClose(o) /\ Notes(o, [ops[o] EXCEPT !.at = "flush", !.outcome = "succeeded",
                                     !.status = Closing(o), !.seen = Revokes(o)])
     ELSE Notes(o, [ops[o] EXCEPT !.at = "flush", !.outcome = "succeeded"])
  /\ UNCHANGED <<tenants, members, invitations, granted, records, sessions, cleaned, failures>>

\* _cancel_tasks writes in the transaction; what a hook of
\* _invoke_cleanup_hook did outside the database stays done.
ExecuteHook(o) ==
  /\ At(o, "step") /\ Step(o) \in Hooks
  /\ cleaned' = IF Step(o) = "cancel_tasks" THEN cleaned
                ELSE [cleaned EXCEPT ![ops[o].tenant] = @ \union {Step(o)}]
  /\ Notes(o, [ops[o] EXCEPT !.at = "flush", !.outcome = "succeeded"])
  /\ UNCHANGED <<tenants, members, invitations, granted, records, sessions, failures>>

\* A hook fails, or the transition is refused, or what begin_delete_tenant or
\* finish_delete_tenant does after it has set the status: the revocation of
\* the sessions, the event or the audit.
StepFails(o) ==
  /\ At(o, "step")
  /\ failures < MaxFailures
  /\ failures' = failures + 1
  /\ LET op == [ops[o] EXCEPT !.at = "flush", !.outcome = "failed"] IN
       \/ /\ Step(o) \in Hooks \/ (Closes(o) /\ ~validate_tenant_transition(ops[o].status, Closing(o)))
          /\ Notes(o, op)
       \/ /\ Step(o) \notin Hooks /\ Closes(o) /\ MayClose(o)
          /\ \E seen \in {ops[o].seen, Revokes(o)} :
               Notes(o, [op EXCEPT !.status = Closing(o), !.seen = seen])
  /\ UNCHANGED <<tenants, members, invitations, granted, records, sessions, cleaned>>

\* Mutant: the failure is recorded and the workflow goes on.
StepFlushes_GoesOn(o) ==
  /\ At(o, "flush") /\ ~RecordHeld(o)
  /\ Notes(o, [ops[o] EXCEPT !.at = "delete", !.done = Append(@, ops[o].outcome),
                 !.ran = @ \union {Index(o)}, !.outcome = "none"])
  /\ UNCHANGED <<tenants, members, invitations, granted, records, sessions, cleaned, failures>>

\* _mark_step_succeeded, or _mark_step_failed and the error for the caller:
\* the UPDATE waits for another run's.
StepFlushes(o) ==
  /\ At(o, "flush") /\ ~RecordHeld(o)
  /\ Notes(o, [ops[o] EXCEPT !.at = IF ops[o].outcome = "failed" THEN "failed" ELSE "delete",
                 !.done = Append(@, ops[o].outcome), !.ran = @ \union {Index(o)},
                 !.outcome = "none"])
  /\ UNCHANGED <<tenants, members, invitations, granted, records, sessions, cleaned, failures>>

\* Mutant: the UPDATE writes every column.
Recorded_All(o, committed) ==
  [i \in DOMAIN committed |-> IF i \in ops[o].ran THEN ops[o].done[i] ELSE committed[i]]

\* An UPDATE names the columns that changed: a step that failed again was
\* loaded as failed, so its status is left out.
Recorded(o, committed) ==
  [i \in DOMAIN committed |->
     IF i \in ops[o].ran /\ (ops[o].done[i] = "failed" => committed[i] = "none")
     THEN ops[o].done[i] ELSE committed[i]]

\* The caller's commit: after the last step; or, if it keeps the session in
\* spite of the error, after a failed step or an audit that failed.
DeleteCommits(o) ==
  /\ At(o, "failed") \/ (At(o, "delete") /\ ops[o].done # <<>>)
  /\ LET t == ops[o].tenant
     IN /\ records' = [records EXCEPT ![t] = Recorded(o, @)]
        /\ tenants' = IF ops[o].status = ops[o].loaded THEN tenants
                      ELSE [tenants EXCEPT ![t] = ops[o].status]
        /\ cleaned' = IF 2 \in ops[o].ran /\ ops[o].done[2] = "succeeded"
                      THEN [cleaned EXCEPT ![t] = @ \union {"cancel_tasks"}] ELSE cleaned
  /\ sessions' = SessionsRevoked(ops[o].seen)
  /\ Leaves(o)
  /\ UNCHANGED <<members, invitations, granted, failures>>

\* unit_of_work rolls back on the error; so does a crash before the commit.
DeleteRollsBack(o) ==
  /\ Runs(o)
  /\ Leaves(o)
  /\ UNCHANGED <<tenants, members, invitations, granted, records, sessions, cleaned, failures>>

-----------------------------------------------------------------------------
OperatorStep(o) ==
  \/ \E t \in Tenants, u \in Users :
       \/ provision_tenant(o, t, u)
       \/ resolve(o, t, u)
  \/ \E u \in Users, status \in Statuses :
       \/ create_member(o, u, status)
       \/ update_member_status(o, u, status)
  \/ MemberCommits(o)
  \/ \E u \in Users, role \in BOOLEAN : issue_invitation(o, u, role)
  \/ IssueCommits(o)
  \/ \E i \in Operators, u \in Users : accept_invitation(o, i, u)
  \/ AcceptCommits(o)
  \/ \E i \in Operators : revoke_invitation(o, i)
  \/ RevokeCommits(o)
  \/ \E t \in Tenants : suspend_tenant(o, t) \/ reactivate_tenant(o, t) \/ begin_delete_tenant(o, t)
  \/ \E t \in Tenants, target \in Closed : finish_delete_tenant(o, t, target)
  \/ TransitionCommits(o)
  \/ \E t \in Tenants, target \in Closed : DeleteBegins(o, t, target)
  \/ SkipStep(o)
  \/ LoadStep(o)
  \/ ExecuteTransition(o)
  \/ ExecuteHook(o)
  \/ StepFails(o)
  \/ StepFlushes(o)
  \/ DeleteCommits(o)
  \/ DeleteRollsBack(o)

Among(P) == overlapped' = (overlapped \/ \E p \in P : ops[p] # Idle)

\* The other history variables.
Recalls(o) ==
  /\ together' = together \union
       {t \in Tenants : \E p, q \in Operators : /\ p # q /\ Runs(p)' /\ Runs(q)'
                                               /\ ops'[p].tenant = t /\ ops'[q].tenant = t}
  /\ repeated' = IF At(o, "step") /\ ops'[o].at = "flush" /\ Loaded(o) = "succeeded"
                 THEN repeated \union {<<ops[o].tenant, Step(o)>>} ELSE repeated
  /\ direct' = IF At(o, "transition") /\ ops'[o] = Idle /\ ops[o].target \in Closed
                  /\ tenants[ops[o].tenant] \notin Closed
               THEN direct \union {ops[o].tenant} ELSE direct

Next ==
  \/ \E o \in Operators : OperatorStep(o) /\ Among(Operators \ {o}) /\ Recalls(o)
  \/ \E i \in Operators : Expires(i) /\ Among(Operators) /\ UNCHANGED <<together, repeated, direct>>

\* Whatever else writes the sessions (Accounts).
Spec == Init /\ [][Next]_tenancyVars

-----------------------------------------------------------------------------
(* The deletion workflow, with failing steps, callers that commit or roll   *)
(* back, crashes and retries, overlapping ones included, records its steps  *)
(* in their order, each after successes only; a hook is on record as        *)
(* succeeded only when what it does was done; and unless                    *)
(* finish_delete_tenant is called without it, a tenant is archived or       *)
(* deleted only when every step before finish is on record as succeeded     *)
(* (finish itself may be on record as failed: it sets the status before it  *)
(* publishes and audits).  Retries that do not overlap skip what succeeded. *)
DeletionInOrder ==
  \A t \in Tenants :
    /\ \A i, j \in DOMAIN records[t] :
         i < j /\ records[t][j] # "none" => records[t][i] = "succeeded"
    /\ \A i \in DOMAIN records[t] :
         records[t][i] = "succeeded" /\ _DELETE_STEPS[i] \in Hooks
           => _DELETE_STEPS[i] \in cleaned[t]
    /\ tenants[t] \in Closed /\ t \notin direct
         => \A i \in 1 .. Len(_DELETE_STEPS) - 1 : records[t][i] = "succeeded"
    /\ \A step \in Hooks : <<t, step>> \in repeated => t \in together

(* As long as operators act one at a time: a tenant's status only goes      *)
(* where the transition table allows, deletion is final and goes through    *)
(* deleting; an invitation is accepted, revoked or expired once and for     *)
(* good, and by one user; no e-mail has two open invitations of one tenant. *)
LegalStep ==
  /\ \A t \in Tenants :
       \/ tenants'[t] = tenants[t]
       \/ tenants[t] = "none" /\ tenants'[t] = "active"
       \/ validate_tenant_transition(tenants[t], tenants'[t])
       \/ validate_tenant_transition(tenants[t], "deleting") /\ tenants'[t] \in {"archived", "deleted"}
  /\ \A i \in Operators :
       /\ invitations[i].status \in {"accepted", "revoked"} => invitations'[i] = invitations[i]
       /\ invitations[i].expired => invitations'[i].status # "accepted"
  /\ \A i, j \in Operators :
       LET a == invitations'[i]  b == invitations'[j] IN
       a.status = "pending" /\ ~a.expired /\ b.status = "pending" /\ ~b.expired
         /\ a.tenant = b.tenant /\ a.email = b.email  =>  i = j
LegalHistory == [][~overlapped' => LegalStep]_tenancyVars

(* A cleanup that succeeded is not executed again: what                     *)
(* docs/modules/platform-tenant-lifecycle.md (line 114) says of the next    *)
(* run after a failure.                                                     *)
SucceededNotRepeated == \A t \in Tenants, step \in Hooks : <<t, step>> \notin repeated
=============================================================================
