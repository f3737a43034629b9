----------------------------- MODULE MCPlatform -----------------------------
(* What bounds, configures and permits the requests to the platform apps,  *)
(* for TLC: Quota, Files with its upload quotas, Settings, the security of *)
(* the routes, the administration of access (AccessAdmin and               *)
(* FrontendAccess), and the units of work that keep their rows apart.      *)
(* The setting of a behaviour, chosen in its initial state, says which     *)
(* moves and within which bounds.                                          *)
EXTENDS PlatformServices, TLC

CONSTANTS c1, c2, c3

VARIABLE setting

fileState == <<files, objects, uploads, counters, counted, lost, sent>>
settingState == <<spec, values, revisions, changes, raced>>
routeState == <<facts, seen, req>>
adminState == <<templates, grants, policies, events, txs, bootstrapped>>
frontendState == <<mappings, history, allowed, projections, calls, cached>>
accessState == <<adminState, frontendState>>
isolationState == <<row_policies, table, variable, stack, session, raising, last>>
allVars == <<setting, vars, fileState, settingState, routeState, accessState, isolationState>>

-----------------------------------------------------------------------------
\* One client takes two units, the others one.
MCAmount == [c \in Clients |-> IF c = c1 THEN 2 ELSE 1]

\* The second rule is tighter.
MCLimit == [m \in Rules |-> IF m = 1 THEN 3 ELSE 2]

\* Files of two tenants, in batches of two, with room for two under one rule.
MCTenantOf == [r \in Clients |-> IF r = c3 THEN "t2" ELSE "t1"]
MCMetrics == <<"storage_bytes", "files">>

\* Rows of two tenants, and one that is free.
MCOwner == "r1" :> "t1" @@ "r2" :> "t2" @@ "r3" :> Null

\* Two tasks, with less room.
Two == INSTANCE TenantIsolation WITH Rows <- {"r1"}, Owner <- "r1" :> "t1", MaxDepth <- 2

\* Of two permissions one is registered for tenants only.
Permission(p) == [op |-> "permission", pair |-> p, parts |-> {}]
MCExpressions ==
  {Permission("p"),
   [op |-> "any", pair |-> Null, parts |-> {Permission("p"), Permission("q")}],
   [op |-> "all", pair |-> Null, parts |-> {}]}

MCTrees == MCExpressions \union {Permission("q")}
MCScopePermissions == [tenant |-> {"p", "q"}, platform |-> {"p"}]

\* What the route of a request does not look at stays as it is: only a path
\* names the other tenant, and only a resolver enters one.
Relevant(f) ==
  /\ req.route.tenant # "path" => Elsewhere \notin f.policies
  /\ ~req.pipeline \/ ~R!_requires_tenant_resolution => f.member /\ f.status = "active"
  /\ ~req.pipeline => f.session

-----------------------------------------------------------------------------
MCInit ==
  /\ setting \in {"database", "memory", "reserve", "files", "file quotas", "serial", "racing", "routes",
                  "admin", "frontend", "guarded", "unguarded", "two tasks"}
  /\ Init
  /\ store = IF setting \in {"memory", "files"} THEN "memory" ELSE "database"
  /\ rows = IF setting = "reserve" THEN Rules ELSE {}
  /\ F!Init
  /\ \/ setting \in {"serial", "racing"}
     \/ setting \notin {"serial", "racing"} /\ spec = CHOOSE s \in S!Specs : TRUE
  /\ S!Init
  /\ \/ setting = "routes"
     \/ setting # "routes" /\ facts = (CHOOSE f \in R!Facts : TRUE) /\ req = CHOOSE r \in R!Requests : TRUE
  /\ R!Init
  /\ setting = "routes" => Relevant(facts)
  /\ A!Init
  /\ E!Init
  /\ IF setting = "two tasks" THEN Two!Init ELSE I!Init
  /\ row_policies <=> setting # "unguarded"

\* Keys without rows, and with rows until a release has written.  In the
\* database store c2, which takes as much as c3, is the first of the two.
QuotaNext ==
  /\ setting \in {"database", "memory", "reserve"} /\ Next
  /\ setting # "memory" /\ client'[c3].phase # "new" => client'[c2].phase # "new"
  /\ setting = "reserve" => "release" \notin happened'
  /\ UNCHANGED <<fileState, settingState, routeState, accessState, isolationState>>

\* Of two requests that are alike one starts when neither runs.
FirstStarts(first, second, before) == first = "idle" => second = "idle" \/ before # "idle"

\* Files of two tenants, the second's one by one; and, with the usage store of the database, the uploads
\* of two requests of one tenant.
FilesNext ==
  /\ \/ setting = "files" /\ F!Next /\ sent'[c3].batch <= 1
     \/ setting = "file quotas" /\ F!Next /\ sent'[c3].at = "idle"
  /\ FirstStarts(sent'[c1].at, sent'[c2].at, sent[c2].at)
  /\ UNCHANGED <<vars, settingState, routeState, accessState, isolationState>>

\* Changes that follow each other, of the platform and a tenant; and changes
\* that race, of the platform.  Requests are alike: they start in order.
SettingsNext ==
  /\ \/ setting = "serial" /\ S!Next /\ raced' = {}
        /\ \A r \in Clients : changes'[r].scope # "t2"
     \/ setting = "racing" /\ S!Next
        /\ \A r \in Clients : changes'[r].scope \notin Tenants
  /\ changes'[c3].at # "idle" => changes'[c2].at # "idle"
  /\ changes'[c2].at # "idle" => changes'[c1].at # "idle"
  /\ UNCHANGED <<vars, fileState, routeState, accessState, isolationState>>

RoutesNext ==
  /\ setting = "routes" /\ R!Next /\ Relevant(facts')
  /\ UNCHANGED <<vars, fileState, settingState, accessState, isolationState>>

\* Up to two grants at a time.
AccessNext ==
  /\ \/ /\ setting = "admin" /\ A!Next /\ UNCHANGED frontendState
        /\ FirstStarts(txs'[c1].at, txs'[c2].at, txs[c2].at)
        /\ Cardinality(grants') <= 2
     \/ /\ setting = "frontend" /\ E!Next /\ UNCHANGED adminState
        /\ FirstStarts(calls'[c1].at, calls'[c2].at, calls[c2].at)
  /\ UNCHANGED <<vars, fileState, settingState, routeState, isolationState>>

\* One task, with the row policies and without; and two.
IsolationNext ==
  /\ \/ setting = "guarded" /\ I!Next /\ stack'[c2] = <<>>
     \/ setting = "unguarded" /\ I!Next /\ stack'[c2] = <<>> /\ Len(stack'[c1]) <= 2
     \/ setting = "two tasks" /\ Two!Next /\ Len(stack'[c1]) + Len(stack'[c2]) <= 3
  /\ UNCHANGED <<vars, fileState, settingState, routeState, accessState>>

MCNext ==
  /\ UNCHANGED setting
  /\ QuotaNext \/ FilesNext \/ SettingsNext \/ RoutesNext \/ AccessNext \/ IsolationNext

MCSpec == MCInit /\ [][MCNext]_allVars
=============================================================================
