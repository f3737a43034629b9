------------------------- MODULE RouteAuthorization -------------------------
(***************************************************************************)
(* One HTTP request through the security of its router: the bearer token's *)
(* session, the tenant of the session, the permissions the router declares *)
(* (core/base/routers, core/auth/request_security, core/tenancy/resolver), *)
(* and the decision its handler hands to the service, which asserts it     *)
(* again (core/permissions/decisions).  Each step is a database session of *)
(* its own, and administrators act in between.  The routes are those of    *)
(* the platform apps; routes of one router that treat tenant and decision  *)
(* alike are one route here.                                               *)
(***************************************************************************)
EXTENDS FiniteSets, Naturals, TenantPolicy

CONSTANTS
  Home,        \* the tenant of the session
  Elsewhere,   \* another tenant
  MaxChanges   \* what administrators change during the request (bound)

VARIABLES
  facts,  \* what the database says of the caller
  seen,   \* history: what it said since the request began
  req

routeVars == <<facts, seen, req>>

PLATFORM_TENANT_ID == "__platform__"

-----------------------------------------------------------------------------
(* Routers: _build_route_security_policy of create_router's arguments.     *)

Router(public, tenant_required, permissions, scope, operation) ==
  [public |-> public, auth_required |-> ~public, tenant_required |-> tenant_required,
   permissions |-> permissions, permission_scope |-> scope, tenant_operation |-> operation]

\* A platform router resolves no tenant, and its tenant_operation is not read.
Platform(resource, action) == Router(FALSE, FALSE, {<<resource, action>>}, "platform", "read")
Tenant(resource, action, operation) == Router(FALSE, TRUE, {<<resource, action>>}, "tenant", operation)
Public == Router(TRUE, FALSE, {}, "none", "read")
Authenticated == Router(FALSE, FALSE, {}, "none", "read")
Member == Router(FALSE, TRUE, {}, "none", "read")

\* A handler takes its tenant from the context, from the path, or not at all;
\* needs are what its service asserts of the decision it is handed.
Route(router, tenant, needs) == [router |-> router, tenant |-> tenant, needs |-> needs]
Need(resource, actions, platform) ==
  [resource |-> resource, actions |-> actions, platform |-> platform, handed |-> TRUE, again |-> FALSE]

\* access/router.
catalog_routes == {Route(Platform("access.permission", "read"), "none", {})}
template_routes ==
  {Route(Platform("access.role_template", action), "none", {}) : action \in {"read", "manage"}}
platform_admin_routes ==
  {Route(Platform("access.platform_admin", "manage"), "none",
         {Need("access.platform_admin", {"manage"}, "also")})}

_assert_role_grant_mutation_authorized(mutation) ==
  Need("role_grant", {"manage", mutation}, "also")
grant_routes ==
  {Route(Tenant("role_grant", "read", "read"), "context", {})}
  \union {Route(Tenant("role_grant", mutation, "write"), "context",
                {_assert_role_grant_mutation_authorized(mutation)}) :
            mutation \in {"grant", "revoke"}}

effective_routes ==
  {Route(Platform("access.effective", "read"), "none", {}), Route(Member, "context", {})}
reconcile_routes == {Route(Platform("access.reconcile", "manage"), "none", {})}
frontend_config_routes ==
  {Route(Platform("access.frontend_config", action), "none", {}) : action \in {"read", "manage"}}
my_access_routes == {Route(Authenticated, "none", {})}

access_routes ==
  catalog_routes \union template_routes \union platform_admin_routes \union grant_routes
    \union effective_routes \union reconcile_routes \union frontend_config_routes
    \union my_access_routes

\* accounts/router.
_assert_accounts_mutation_authorized(resource, mutation) ==
  Need(resource, {"manage", mutation}, "only")

login_routes == {Route(Public, "none", {})}
me_routes == {Route(Authenticated, "none", {})}
user_routes ==
  {Route(Platform("user", "manage"), "none", {}),
   Route(Platform("user", "manage"), "none",
         {_assert_accounts_mutation_authorized("user", "disable")}),
   Route(Platform("session", "revoke"), "none",
         {_assert_accounts_mutation_authorized("session", "revoke")})}

account_routes == login_routes \union me_routes \union user_routes

\* tenants/router.
_assert_member_authorized(actions) == Need("tenant_member", actions, "also")
member_routes ==
  {Route(Tenant("tenant_member", "read", "read"), from,
         {_assert_member_authorized({"read", "manage"})}) : from \in {"path", "context"}}
  \union {Route(Tenant("tenant_member", "manage", "write"), from,
                {_assert_member_authorized({"manage"})}) : from \in {"path", "context"}}

_assert_invitation_mutation_authorized(mutation) ==
  Need("tenant_invitation", {"manage", mutation}, "also")

\* The handler of an invitation hands no decision for its initial role.
_assert_role_grant_authorized == [Need("role_grant", {"manage", "grant"}, "also") EXCEPT !.handed = FALSE]

invitation_routes ==
  {Route(Tenant("tenant_invitation", mutation, "write"), from,
         {_assert_invitation_mutation_authorized(mutation)}) :
     mutation \in {"invite", "revoke"}, from \in {"path", "context"}}
  \union {Route(Tenant("tenant_invitation", "invite", "write"), from,
                {_assert_invitation_mutation_authorized("invite"), _assert_role_grant_authorized}) :
            from \in {"path", "context"}}
accept_routes == {Route(Authenticated, "none", {})}

provision_routes ==
  {Route(Platform("tenant", "manage"), "none", {}),
   Route(Platform("tenant", "manage"), "none", {Need("tenant", {"manage", "provision"}, "only")})}

\* Mutant: members are managed with the permission of the readers' router.
tenant_routes_Read ==
  {Route(Tenant("tenant_member", "read", "write"), "path", {_assert_member_authorized({"manage"})})}

tenant_routes ==
  provision_routes \union member_routes \union invitation_routes \union accept_routes

\* settings/router.
definition_routes == {Route(Platform("settings.definition", "read"), "none", {})}
value_read_routes == {Route(Platform("settings.value", "read"), "none", {})}
value_manage_routes == {Route(Platform("settings.value", "manage"), "none", {})}
tenant_value_routes ==
  {Route(Tenant("settings.tenant", "read", "read"), "context", {}),
   Route(Tenant("settings.tenant", "manage", "write"), "context", {})}

setting_routes ==
  definition_routes \union value_read_routes \union value_manage_routes \union tenant_value_routes

\* audit/router.
log_routes == {Route(Platform("audit_log", "read"), "none", {})}
export_routes == {Route(Platform("audit_log", "export"), "none", {})}
audit_routes == log_routes \union export_routes

\* files/router.  FileService authorizes once more, on the session of the handler.
FileRoute(action, operation) ==
  Route(Tenant("file", action, operation), "context",
        {[Need("file", {action}, "also") EXCEPT !.again = TRUE]})

upload_routes == {FileRoute("upload", "write")}
download_routes == {FileRoute("download", "read")}
delete_routes == {FileRoute("delete", "write")}
file_routes == upload_routes \union download_routes \union delete_routes

Routes ==
  access_routes \union account_routes \union tenant_routes
    \union setting_routes \union audit_routes \union file_routes

-----------------------------------------------------------------------------
Domains == {PLATFORM_TENANT_ID, Home, Elsewhere}

\* The caller's session, membership of Home, the status of Home, and where
\* each declared permission of the route has an allowing policy.
Facts == [session : BOOLEAN, member : BOOLEAN, status : {"active", "suspended", "deleting"},
          policies : SUBSET Domains]

NoDecision == [allowed |-> FALSE, tenant |-> "none", resource |-> "none", action |-> "none"]

\* pipeline: an installed app declares auth_session_store.  A session of an
\* account that chose no tenant at login has none.
Requests ==
  {r \in [at : {"received"}, route : Routes, pipeline : BOOLEAN, header : BOOLEAN,
          session_tenant : {Home, "none"}, path : {Home, Elsewhere}, user : {FALSE},
          tenant : {"none"}, decision : {NoDecision}] :
     r.route.tenant = "path" \/ r.path = Home}

Init == facts \in Facts /\ seen = {facts} /\ req \in Requests

At(place) == req.at = place
Goes(place) == req' = [req EXCEPT !.at = place]
policy == req.route.router
\* Every error is an answer; nothing of the request is kept.
Refuse == Goes("refused") /\ UNCHANGED <<facts, seen>>

\* authenticate: see Accounts!Accepts.  Without a token, or with a bad one,
\* the caller has no session.
Authenticates ==
  /\ At("received") /\ req.pipeline /\ policy.auth_required
  /\ facts.session
  /\ Goes("authenticated")
  /\ UNCHANGED <<facts, seen>>

AuthenticationFails ==
  /\ At("received") /\ req.pipeline /\ policy.auth_required
  /\ ~facts.session
  /\ Refuse

\* Public routes have no dependency; without a pipeline there is no resolver.
SkipsResolver ==
  /\ At("received") /\ (policy.public \/ ~req.pipeline)
  /\ Goes("resolved")
  /\ UNCHANGED <<facts, seen>>

_requires_tenant_resolution ==
  policy.tenant_required \/ (policy.permissions # {} /\ policy.permission_scope # "platform")

\* The tenant of the token is the session's; a header is not allowed to choose.
MayEnterTenant ==
  /\ ~req.header
  /\ req.session_tenant # "none"
  /\ facts.member
  /\ is_tenant_operation_allowed(facts.status, policy.tenant_operation, {})

ResolvesTenant ==
  /\ At("authenticated") /\ _requires_tenant_resolution
  /\ MayEnterTenant
  /\ req' = [req EXCEPT !.at = "resolved", !.user = TRUE, !.tenant = req.session_tenant]
  /\ UNCHANGED <<facts, seen>>

TenantFails ==
  /\ At("authenticated") /\ _requires_tenant_resolution
  /\ ~MayEnterTenant
  /\ Refuse

_bind_authenticated_user ==
  /\ At("authenticated") /\ ~_requires_tenant_resolution
  /\ req' = [req EXCEPT !.at = "resolved", !.user = TRUE, !.tenant = req.session_tenant]
  /\ UNCHANGED <<facts, seen>>

\* enforce_route_security, up to the authorizer.
Enforced ==
  /\ policy.auth_required => req.user
  /\ policy.tenant_required => req.tenant # "none"
  /\ policy.permissions # {} => req.pipeline

\* The domain a declared permission is looked up in.
Domain == IF policy.permission_scope = "platform" THEN PLATFORM_TENANT_ID ELSE req.tenant

\* authorize: each router declares at most one permission.
Authorizes ==
  /\ At("resolved") /\ Enforced /\ policy.permissions # {}
  /\ Domain \in facts.policies
  /\ \E p \in policy.permissions :
       req' = [req EXCEPT !.at = "authorized",
                 !.decision = [allowed |-> TRUE, tenant |-> Domain, resource |-> p[1], action |-> p[2]]]
  /\ UNCHANGED <<facts, seen>>

NothingToAuthorize ==
  /\ At("resolved") /\ Enforced /\ policy.permissions = {}
  /\ Goes("authorized")
  /\ UNCHANGED <<facts, seen>>

EnforcementFails ==
  /\ At("resolved")
  /\ ~Enforced \/ (policy.permissions # {} /\ Domain \notin facts.policies)
  /\ Refuse

\* What the handler's service works on.
Target ==
  CASE req.route.tenant = "context" -> req.tenant
    [] req.route.tenant = "path" -> req.path
    [] req.route.tenant = "none" -> PLATFORM_TENANT_ID

\* Mutant: any tenant's decision will do.
assert_authorization_decision_AnyTenant(need) ==
  LET decision == IF need.handed THEN req.decision ELSE NoDecision IN
  decision.allowed /\ decision.resource = need.resource /\ decision.action \in need.actions

\* need.platform: whether a platform decision is accepted also, or only.
assert_authorization_decision(need) ==
  LET decision == IF need.handed THEN req.decision ELSE NoDecision IN
  /\ decision.allowed
  /\ decision.tenant \in {Target} \union (IF need.platform = "also" THEN {PLATFORM_TENANT_ID} ELSE {})
  /\ decision.resource = need.resource
  /\ decision.action \in need.actions

\* The service's assertions, or the lookup it makes itself.
Satisfied(need) ==
  IF need.again THEN Target \in facts.policies ELSE assert_authorization_decision(need)

\* route_authorization_decision, _request_context and _current_tenant_id hold
\* when the assertions do.
Serves ==
  /\ At("authorized")
  /\ req.route.tenant = "context" => req.tenant # "none"
  /\ \A need \in req.route.needs : Satisfied(need)
  /\ Goes("served")
  /\ UNCHANGED <<facts, seen>>

ServiceFails ==
  /\ At("authorized")
  /\ \/ req.route.tenant = "context" /\ req.tenant = "none"
     \/ \E need \in req.route.needs : ~Satisfied(need)
  /\ Refuse

\* Sessions are revoked, members disabled, tenants suspended and deleted,
\* role grants projected and withdrawn at any time.
Administers ==
  /\ ~At("served") /\ ~At("refused")
  /\ Cardinality(seen) <= MaxChanges
  /\ \/ facts' = [facts EXCEPT !.session = FALSE]
     \/ facts' = [facts EXCEPT !.member = ~@]
     \/ \E s \in {"active", "suspended", "deleting"} : facts' = [facts EXCEPT !.status = s]
     \/ \E d \in Domains : facts' = [facts EXCEPT !.policies =
                                        IF d \in @ THEN @ \ {d} ELSE @ \union {d}]
  /\ seen' = seen \union {facts'}
  /\ UNCHANGED req

Step ==
  \/ Authenticates \/ AuthenticationFails \/ SkipsResolver
  \/ ResolvesTenant \/ TenantFails \/ _bind_authenticated_user
  \/ Authorizes \/ NothingToAuthorize \/ EnforcementFails
  \/ Serves \/ ServiceFails

Next == Step \/ Administers

Spec == Init /\ [][Next]_routeVars

-----------------------------------------------------------------------------
(* A route that is not public only answers a caller whose session was good  *)
(* at some moment of the request; a tenant route only works on the tenant   *)
(* of the session, also when the path names the tenant, with the caller a   *)
(* member and the tenant open for the operation; and the permission the     *)
(* router declares was allowed in the domain of the tenant worked on        *)
(* (resolve, authorize, assert_authorization_decision).                     *)
ServedIsAuthorized ==
  At("served") /\ ~policy.public =>
    /\ req.pipeline
    /\ \E f \in seen : f.session
    /\ req.route.tenant # "none" =>
         /\ Target = Home /\ req.session_tenant = Home
         /\ \E f \in seen : f.member /\ is_tenant_operation_allowed(f.status, policy.tenant_operation, {})
    /\ policy.permissions # {} => \E f \in seen : Target \in f.policies

(* No handler hands its service a decision the service refuses: a request   *)
(* whose caller is all the router asks for, undisturbed, is served.  (An    *)
(* invitation with an initial role never is, _assert_role_grant_authorized.) *)
PermittedIsServed ==
  /\ At("refused") /\ req.pipeline /\ seen = {facts}
  /\ \A need \in req.route.needs : need.handed
  => \/ ~facts.session
     \/ _requires_tenant_resolution /\ ~MayEnterTenant
     \/ policy.permissions # {}
          /\ (IF policy.permission_scope = "platform" THEN PLATFORM_TENANT_ID ELSE Home)
               \notin facts.policies
     \/ req.route.tenant = "path" /\ req.path = Elsewhere

(* Both, of every route.                                                    *)
ServedAsAuthorized == ServedIsAuthorized /\ PermittedIsServed
=============================================================================
