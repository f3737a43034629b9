--------------------------- MODULE PlatformServices --------------------------
(* The services a request to the platform apps goes through and what is     *)
(* proved of them: quotas (Quota), settings (Settings), files with their    *)
(* upload quotas (Files), the security of the routes (RouteAuthorization),  *)
(* the administration of access (AccessAdmin, FrontendAccess) and the units *)
(* of work that keep the rows of tenants apart (TenantIsolation).           *)
EXTENDS Quota, Sequences, FiniteSets

CONSTANTS
  Tenants, Values, Refs, MaxVersion, Null,                \* of Settings
  TenantOf, BatchSize, Metrics, Size, Retention,          \* of Files
  UploadLimit,
  Home, Elsewhere, MaxChanges,                            \* of RouteAuthorization
  Tasks, Connections, Rows, Owner, MaxDepth,              \* of TenantIsolation
  Administrators, AccessVersions,                         \* of AccessAdmin, FrontendAccess
  Users, FirstAdmins, AdminPermissions, Created, Names,   \* of AccessAdmin
  Keys, ScopePermissions, Trees, Expressions,             \* of FrontendAccess
  Serial, MaxProjections

(* The command names one user or a few; an expression is a finite tree of   *)
(* JSON, so of any trees one has no part among them.                        *)
ASSUME FirstAdminsAssumption == IsFiniteSet(FirstAdmins)
ASSUME TreesAssumption == \A some \in (SUBSET Trees) \ {{}} : \E e \in some : e.parts \intersect some = {}

VARIABLES spec, values, revisions, changes, raced,
          files, objects, uploads, counters, counted, lost, sent,
          facts, seen, req,
          row_policies, table, variable, stack, session, raising, last,
          templates, grants, policies, events, txs, bootstrapped,
          mappings, history, allowed, projections, calls, cached

S == INSTANCE Settings WITH Requests <- Clients, rows <- values, reqs <- changes
F == INSTANCE Files WITH Requests <- Clients, Limit <- UploadLimit, rows <- files, used <- counted, reqs <- sent
R == INSTANCE RouteAuthorization
I == INSTANCE TenantIsolation
A == INSTANCE AccessAdmin WITH Requests <- Administrators, Registered <- AdminPermissions,
       MaxVersion <- AccessVersions
E == INSTANCE FrontendAccess WITH Requests <- Administrators, Registered <- ScopePermissions,
       MaxVersion <- AccessVersions, revisions <- history, policies <- allowed

(* Settings!HistoryExplainsValue: every revision starts where the one       *)
(* before ended and the last is the value, unless changes of one scope race *)
(* (upsert, reset, _add_revision).                                          *)
HistoryExplainsValue == S!HistoryExplainsValue

(* Files!AvailableHasObject and StoredIsCounted: an available file has its  *)
(* object, and is counted (the upload, delete and purge flows), unless the  *)
(* database store has lost a reservation.                                   *)
ObjectsAccountedFor == F!ObjectsAccountedFor

(* RouteAuthorization!ServedIsAuthorized and PermittedIsServed: a route     *)
(* serves whom it should, and only them (create_router, require_decision).  *)
ServedAsAuthorized == R!ServedAsAuthorized

(* TenantIsolation!TenantsKeptApart: a task reaches and commits rows of its *)
(* tenant only (the repositories, UnitOfWork, the row policies).            *)
TenantsKeptApart == I!TenantsKeptApart

(* AccessAdmin!BootstrapOnce and FirstAdminCanAct: runs of the command for  *)
(* one user make one administrator, who can act at once.                    *)
(* FrontendAccess!AccessRevisionTells, where the changes of a mapping       *)
(* follow each other, and OpenIsPermitted: what a frontend caches by an     *)
(* access_revision stays true, and an open key is permitted.                *)
AccessAdministered ==
  /\ A!BootstrapOnce /\ A!FirstAdminCanAct
  /\ Serial => E!AccessRevisionTells
  /\ E!OpenIsPermitted
=============================================================================
