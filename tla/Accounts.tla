------------------------------ MODULE Accounts ------------------------------
(***************************************************************************)
(* Users, sessions, tokens and external identities (platform_apps/accounts, *)
(* core/auth).  A request is a sequence of short steps: each database read *)
(* sees what is committed at its moment (READ COMMITTED), what it writes   *)
(* becomes visible at the commit of its unit of work, and other requests   *)
(* run in between.  A request that is refused writes nothing: the raised   *)
(* error rolls its unit of work back, with the audit row and the           *)
(* account.login_failed event of a refused login in it.                    *)
(*                                                                         *)
(* A session, and an external auth state, is named by the request that     *)
(* created it; each user also has a session from before the behaviour      *)
(* starts, named by the user.  The tenant tables belong to Tenancy.        *)
(***************************************************************************)
EXTENDS Naturals, FiniteSets, TenantPolicy

CONSTANTS
  Requests,  \* HTTP requests, each of which is made once
  Users,     \* user ids (and e-mail addresses: uq_users_email)
  Admins,    \* users whose grants allow user.manage and session.revoke
  Tenants,
  Subjects,  \* provider subjects
  Passwords,
  Null       \* None

VARIABLES
  users,       \* the users and user_credentials tables
  sessions,    \* user_sessions
  tokens,      \* the newest bearer token of each session
  identities,  \* external_identities: the user a subject is bound to
  states,      \* MemoryExternalAuthStateStore._states
  calls,       \* what each request has read so far
  tenants,     \* status of each tenant (Tenancy)
  members      \* status of each membership (Tenancy)

accountVars == <<users, sessions, tokens, identities, states, calls>>

SessionIds == Users \union Requests

NoSession == [status |-> "none", user |-> Null, tenant |-> Null, version |-> 0]
NoCall == [at |-> "idle", session |-> Null, user |-> Null, tenant |-> Null, version |-> 0,
           subject |-> Null, state |-> Null, seen |-> {}]

Init ==
  /\ users = [u \in Users |-> [status |-> "active", version |-> 1,
                               password |-> CHOOSE p \in Passwords : TRUE]]
  /\ sessions = [s \in SessionIds |->
                   IF s \in Users
                   THEN [status |-> "active", user |-> s, tenant |-> Null, version |-> 1]
                   ELSE NoSession]
  /\ tokens = [s \in SessionIds |-> IF s \in Users THEN "live" ELSE "none"]
  /\ identities = [q \in Subjects |-> Null]
  /\ states = {}
  /\ calls = [r \in Requests |-> NoCall]

At(r, place) == calls[r].at = place
Notes(r, call) == calls' = [calls EXCEPT ![r] = call]
Goes(r, place) == Notes(r, [calls[r] EXCEPT !.at = place])

-----------------------------------------------------------------------------
(* Logging in.                                                             *)

\* authenticate_local_login: the user by e-mail, active, and the password;
\* create_session's _get_user finds the same loaded object.
LoginReads(r, u, p, t) ==
  /\ At(r, "idle")
  /\ users[u].status = "active"
  /\ users[u].password = p
  /\ Notes(r, [NoCall EXCEPT !.at = IF t = Null THEN "login_insert" ELSE "login_tenant",
                             !.user = u, !.tenant = t, !.version = users[u].version])
  /\ UNCHANGED <<users, sessions, tokens, identities, states>>

\* external_authorize: a state and a nonce are issued, the browser goes away.
external_authorize(r, t) ==
  /\ At(r, "idle")
  /\ states' = states \union {r}
  /\ Notes(r, [NoCall EXCEPT !.at = "authorized", !.tenant = t])
  /\ UNCHANGED <<users, sessions, tokens, identities>>

\* The state outlives its ttl_seconds; it stays in the dictionary.
StateExpires(q) ==
  /\ At(q, "authorized") /\ q \in states
  /\ Goes(q, "expired")
  /\ UNCHANGED <<users, sessions, tokens, identities, states>>

\* external_callback up to the token exchange: consume pops the state before
\* anything is checked, so a second callback does not find it.
\* Mutant: the state is looked up and left in the dictionary.
Consumes_Peeks(q) == q \in states /\ UNCHANGED states

Consumes(q) == states' = states \ {q}
external_callback(r, q) ==
  /\ At(r, "idle")
  /\ q \in states
  /\ Consumes(q)
  /\ Notes(r, [NoCall EXCEPT !.at = IF At(q, "expired") THEN "refused" ELSE "exchanged",
                             !.tenant = calls[q].tenant, !.state = q])
  /\ UNCHANGED <<users, sessions, tokens, identities>>

\* handle_callback has verified an ID token for the subject; then
\* authenticate_external_login finds the identity and its user.
ExternalReads(r, subject) ==
  /\ At(r, "exchanged")
  /\ LET u == identities[subject] IN
       /\ u # Null /\ users[u].status = "active"
       /\ Notes(r, [calls[r] EXCEPT
                      !.at = IF calls[r].tenant = Null THEN "login_insert" ELSE "login_tenant",
                      !.user = u, !.subject = subject, !.version = users[u].version])
  /\ UNCHANGED <<users, sessions, tokens, identities, states>>

_assert_tenant_login_allowed(r) ==
  /\ members[calls[r].tenant][calls[r].user] = "active"
  /\ is_tenant_operation_allowed(tenants[calls[r].tenant], "login", {})

LoginTenant(r) ==
  /\ At(r, "login_tenant")
  /\ _assert_tenant_login_allowed(r)
  /\ Goes(r, "login_insert")
  /\ UNCHANGED <<users, sessions, tokens, identities, states>>

\* Mutant: the version is read again at the INSERT.
LoginInserts_ReadsAgain(r) ==
  /\ At(r, "login_insert")
  /\ sessions' = [sessions EXCEPT ![r] = [status |-> "active", user |-> calls[r].user,
                    tenant |-> calls[r].tenant, version |-> users[calls[r].user].version]]
  /\ tokens' = [tokens EXCEPT ![r] = "live"]
  /\ Goes(r, "logged_in")
  /\ UNCHANGED <<users, identities, states>>

\* create_session: INSERT and commit; _login_read issues the token.
LoginInserts(r) ==
  /\ At(r, "login_insert")
  /\ sessions' = [sessions EXCEPT ![r] = [status |-> "active", user |-> calls[r].user,
                    tenant |-> calls[r].tenant, version |-> calls[r].version]]
  /\ tokens' = [tokens EXCEPT ![r] = "live"]
  /\ Goes(r, "logged_in")
  /\ UNCHANGED <<users, identities, states>>

\* Wrong password, inactive user, unbound subject, no membership, closed tenant.
LoginRefused(r) ==
  /\ \/ At(r, "login_tenant") /\ ~_assert_tenant_login_allowed(r)
     \/ At(r, "exchanged") /\ \E q \in Subjects :
          identities[q] # Null => users[identities[q]].status # "active"
  /\ Goes(r, "refused")
  /\ UNCHANGED <<users, sessions, tokens, identities, states>>

-----------------------------------------------------------------------------
(* Every other route first goes through DatabaseRequestSecurityPipeline.   *)

TokenExpires(s) ==
  /\ tokens[s] = "live"
  /\ tokens' = [tokens EXCEPT ![s] = "expired"]
  /\ UNCHANGED <<users, sessions, identities, states, calls>>

\* AuthSessionValidator.authenticate: what the loaded rows must say.
Accepts(session, user) ==
  /\ session.status = "active"
  /\ user.status = "active"
  /\ user.version = session.version

\* verify_token, then load_principal reads the session's row ...
Presents(r, s) ==
  /\ At(r, "idle")
  /\ tokens[s] = "live"
  /\ Notes(r, [NoCall EXCEPT !.at = "presented", !.session = s, !.user = sessions[s].user,
                             !.tenant = sessions[s].tenant, !.version = sessions[s].version,
                             !.seen = {sessions[s].status}])
  /\ UNCHANGED <<users, sessions, tokens, identities, states>>

\* ... and the user's.
Authenticates(r) ==
  /\ At(r, "presented")
  /\ LET read == [status |-> IF calls[r].seen = {"active"} THEN "active" ELSE "revoked",
                  version |-> calls[r].version]
     IN Notes(r, [calls[r] EXCEPT
                    !.at = IF Accepts(read, users[calls[r].user]) THEN "in" ELSE "refused",
                    !.seen = {}])
  /\ UNCHANGED <<users, sessions, tokens, identities, states>>

-----------------------------------------------------------------------------
(* The current user's own routes.                                          *)

\* refresh_session_token loads both rows again and issues the same claims.
refresh_token(r) ==
  /\ At(r, "in")
  /\ Accepts(sessions[calls[r].session], users[calls[r].user])
  /\ tokens' = [tokens EXCEPT ![calls[r].session] = "live"]
  /\ Goes(r, "done")
  /\ UNCHANGED <<users, sessions, identities, states>>

\* logout, revoke_my_session: a session of the caller, if it is still active.
revoke_own_session(r, s) ==
  /\ At(r, "in")
  /\ sessions[s].user = calls[r].user /\ sessions[s].status = "active"
  /\ sessions' = [sessions EXCEPT ![s].status = "revoked"]
  /\ Goes(r, "done")
  /\ UNCHANGED <<users, tokens, identities, states>>

\* reset_local_password: sessions and token_version stay as they are.
reset_local_password(r, current, new) ==
  /\ At(r, "in")
  /\ users[calls[r].user].password = current
  /\ users' = [users EXCEPT ![calls[r].user].password = new]
  /\ Goes(r, "done")
  /\ UNCHANGED <<sessions, tokens, identities, states>>

\* bind_external_identity: SELECT by provider and subject ...
BindReads(r, subject) ==
  /\ At(r, "in")
  /\ Notes(r, [calls[r] EXCEPT !.subject = subject,
                 !.at = IF identities[subject] = Null THEN "bind_insert" ELSE "done"])
  /\ UNCHANGED <<users, sessions, tokens, identities, states>>

\* Mutant: the subject is bound to the last one who asks.
BindInserts_Overwrites(r) ==
  /\ At(r, "bind_insert")
  /\ identities' = [identities EXCEPT ![calls[r].subject] = calls[r].user]
  /\ Goes(r, "done")
  /\ UNCHANGED <<users, sessions, tokens, states>>

\* ... and INSERT, which uq_external_identities_provider_subject may refuse.
BindInserts(r) ==
  /\ At(r, "bind_insert")
  /\ IF identities[calls[r].subject] = Null
     THEN identities' = [identities EXCEPT ![calls[r].subject] = calls[r].user]
     ELSE UNCHANGED identities
  /\ Goes(r, "done")
  /\ UNCHANGED <<users, sessions, tokens, states>>

-----------------------------------------------------------------------------
(* Platform administration, with the decision the route's permission gave. *)

_assert_accounts_mutation_authorized(r) == calls[r].user \in Admins

ActiveSessions(u) == {s \in SessionIds : sessions[s].status = "active" /\ sessions[s].user = u}
Revoked(ids) == [s \in SessionIds |-> IF s \in ids THEN [sessions[s] EXCEPT !.status = "revoked"]
                                                   ELSE sessions[s]]

\* disable_user loads the user (calls[r].version: the token_version it saw) ...
DisableLoads(r, u) ==
  /\ At(r, "in") /\ _assert_accounts_mutation_authorized(r)
  /\ Notes(r, [calls[r] EXCEPT !.at = "disable_select", !.user = u,
                 !.version = IF users[u].status = "active" THEN users[u].version ELSE 0])
  /\ UNCHANGED <<users, sessions, tokens, identities, states>>

\* ... selects the user's active sessions (revoke_user_sessions starts here) ...
RevokeSelects(r, u) ==
  /\ \/ At(r, "disable_select") /\ calls[r].user = u
     \/ At(r, "in") /\ _assert_accounts_mutation_authorized(r)
  /\ Notes(r, [calls[r] EXCEPT !.at = IF At(r, "in") THEN "revoke_commit" ELSE "disable_commit",
                               !.seen = ActiveSessions(u)])
  /\ UNCHANGED <<users, sessions, tokens, identities, states>>

\* ... and writes them by id.
RevokeCommits(r) ==
  /\ At(r, "revoke_commit")
  /\ sessions' = Revoked(calls[r].seen)
  /\ Goes(r, "done")
  /\ UNCHANGED <<users, tokens, identities, states>>

\* Mutant: revoking the sessions is thought to be enough.
DisableCommits_SameVersion(r) ==
  /\ At(r, "disable_commit")
  /\ users' = IF calls[r].version = 0 THEN users
              ELSE [users EXCEPT ![calls[r].user].status = "disabled"]
  /\ sessions' = Revoked(calls[r].seen)
  /\ Goes(r, "done")
  /\ UNCHANGED <<tokens, identities, states>>

\* The user's row, unless it was loaded disabled: status and token_version + 1.
DisableCommits(r) ==
  /\ At(r, "disable_commit")
  /\ users' = IF calls[r].version = 0 THEN users
              ELSE [users EXCEPT ![calls[r].user].status = "disabled",
                                 ![calls[r].user].version = calls[r].version + 1]
  /\ sessions' = Revoked(calls[r].seen)
  /\ Goes(r, "done")
  /\ UNCHANGED <<tokens, identities, states>>

-----------------------------------------------------------------------------
Step(r) ==
  \/ \E u \in Users, p \in Passwords, t \in Tenants \union {Null} : LoginReads(r, u, p, t)
  \/ \E t \in Tenants \union {Null} : external_authorize(r, t)
  \/ StateExpires(r)
  \/ \E q \in Requests : external_callback(r, q)
  \/ \E subject \in Subjects : ExternalReads(r, subject)
  \/ LoginTenant(r)
  \/ LoginInserts(r)
  \/ LoginRefused(r)
  \/ \E s \in SessionIds : Presents(r, s)
  \/ Authenticates(r)
  \/ refresh_token(r)
  \/ \E s \in SessionIds : revoke_own_session(r, s)
  \/ \E current, new \in Passwords : reset_local_password(r, current, new)
  \/ \E subject \in Subjects : BindReads(r, subject)
  \/ BindInserts(r)
  \/ \E u \in Users : DisableLoads(r, u)
  \/ \E u \in Users : RevokeSelects(r, u)
  \/ RevokeCommits(r)
  \/ DisableCommits(r)

Next ==
  /\ \/ \E r \in Requests : Step(r)
     \/ \E s \in SessionIds : TokenExpires(s)
  /\ UNCHANGED <<tenants, members>>

Spec == Init /\ [][Next]_<<accountVars, tenants, members>>

-----------------------------------------------------------------------------
(* Once disable_user has committed, everything that was issued to the user  *)
(* or is still being issued carries an older token_version than the user's  *)
(* row: the sessions, those the revocation did not find included; a login   *)
(* that read the user while active and has yet to insert its session; and   *)
(* the requests that have read a session, be it to be let in or to refresh  *)
(* its token.  So the comparison of versions keeps them out (session.py     *)
(* lines 37-40, accounts/services.py lines 219-222) even where a session's  *)
(* row was left active.                                                     *)
DisabledStaysOut ==
  \A u \in Users : users[u].status = "disabled" =>
    /\ \A s \in SessionIds :
         sessions[s].user = u /\ sessions[s].status # "none" => sessions[s].version < users[u].version
    /\ \A r \in Requests :
         calls[r].user = u /\ calls[r].at \in {"login_tenant", "login_insert", "presented", "in"}
           => calls[r].version < users[u].version

(* An external auth state admits at most one callback, however many times  *)
(* the browser or a retry delivers it (consume pops before it checks).      *)
CallbackOnce ==
  \A r, q \in Requests :
    calls[r].state # Null /\ calls[r].state = calls[q].state => r = q

(* A provider subject stays bound to the user it was first bound to, also   *)
(* when two users bind it at the same time (bind_external_identity).        *)
BoundForGood ==
  [][\A q \in Subjects : identities[q] # Null => identities'[q] = identities[q]]_identities

(* Both.                                                                    *)
IdentitiesHold == []CallbackOnce /\ BoundForGood
=============================================================================
