# Verification of fastapi-foundation

TLA+ models of the parts of `src/` whose correctness depends on how processes,
requests and nested blocks interleave, fail and follow one another. TLC checks
the models on small instances; TLAPS proves the safety properties the runs check,
all but one, for every value of the constants.

Paths below are relative to `src/src/` (`core/...`, `platform_apps/...`) unless
they begin with `docs/`, which is `src/docs/`.

Contents: 1 the system · 2 the models and the code · 3 the runs · 4 fairness ·
5 the proofs · 6 where code and documentation disagree · 7 what is not modelled ·
8 plan · 9 how to run it.

## 1. The system

A modular monolith on FastAPI and SQLAlchemy (async). Requests, CLI processes
(outbox dispatcher, scheduler, task worker, operator commands) and Celery workers
share one relational database (PostgreSQL, READ COMMITTED), and, when it is
configured, one Redis. **Almost everything a process does is one unit of work**
(`core/db/transactions.py`): a session, one transaction, nested `unit_of_work`
blocks that join the outer one and mark it rollback-only when they fail. A row is
loaded, changed as a Python object and flushed as `UPDATE ... WHERE id = ...`
with the columns that differ from what was loaded; the UPDATE waits for the row
lock and compares nothing with what was loaded unless the code puts a condition
into its WHERE clause. What is not in the database (a stored object, an external
call, a cache entry, a counter in memory) is not rolled back with it. This is
where the hard behaviours of the system come from, and what the models below
have in common.

### Inventory

| component | state | operations | interacts with |
|---|---|---|---|
| outbox (`core/outbox`) | `outbox_events` | add, claim_batch, mark_published, mark_failed, replay_dead_letter, dispatch loop | events' handlers, idempotency, db, mq (publisher) |
| events (`core/events`) | registry of handlers | dispatch, run_event_side_effect, error classification | called by the outbox, keeps idempotency records |
| locks (`core/locks`) | `core_locks` rows, Redis keys and a counter, or a dict | acquire, release, extend, locked | scheduler, migrations, dispatcher, audit |
| tasks (`core/tasks`) | `task_runs`, Celery messages | submit, claim_next_pending, run, retry, recover_stale_running, cancel_for_tenant | scheduler submits; tenancy cancels; quota gate submits |
| idempotency (`core/idempotency`) | `idempotency_records` | claim, mark_succeeded, mark_failed, expire_before, mutation guard | requests, event handlers, side effects |
| scheduler (`core/scheduler`) | `schedule_states`, `schedule_trigger_logs` | plan, trigger, record_result, mark_triggered, mark_skipped_until, run-once | locks, tasks, db |
| quotas (`core/quotas`) | `quota_usage` rows or a dict | check, reserve, require_reserve, release, run_mutation, submit_task | tasks, files |
| db (`core/db`) | the unit of work of a task, the connection pool, a session variable per transaction | unit_of_work, tenant fallback, tenant guard, execute_tenant_scoped, execute_cross_tenant | everything |
| context, base (`core/context`, `core/base`) | the context variable of a task | middleware, background contexts, tenant repository, routers | everything |
| permissions (`core/permissions`) | `role_grants`, Casbin policy rows, decision cache with version keys | grant_role, revoke_role, project, remove projection, reconcile, authorize, assert | outbox events, cache |
| access (`platform_apps/access`) | templates, grants, frontend access mappings with versions | create/update template, grant platform admin, bootstrap, create/update/disable/evaluate mappings | permissions |
| accounts (`platform_apps/accounts`), auth (`core/auth`) | users, sessions, identities, states of external logins | login, callback, bind, authenticate, refresh, revoke, disable_user, reset password | tenancy, audit, outbox |
| tenancy (`core/tenancy`), tenants (`platform_apps/tenants`) | tenant row, members, invitations, deletion steps | provision, suspend, reactivate, delete step by step, invite, accept, revoke, expire | tasks, files, accounts |
| files (`platform_apps/files`), storage (`core/storage`) | file rows, stored objects, multipart uploads | upload, batch, presign, multipart, complete, download, delete, purge | quotas, storage |
| cache (`core/cache`), rate_limit (`core/rate_limit`) | Redis or memory keys, counters | get, set, incr; fixed and sliding window | permissions, middleware |
| settings (`platform_apps/settings`, `core/settings`) | scoped values with versions, revisions | upsert, reset, resolve | audit |
| audit (`platform_apps/audit`) | audit rows chained by hash, export files | record, apply_policy, export_logs | inside callers' transactions; locks |
| migrations (`core/migrations`) | applied revisions | collect, plan, preflight, dry run, apply | locks, Alembic |
| apps, app (`core/apps`, `core/app`), messages, exceptions | registries of a process, runtimes, hooks | validate, order, conformance, create_app, start up, shut down, dispose | everything, at start-up |
| mq (`core/mq`) | an AMQP channel | publish, consume one | outbox publisher |
| admin, operations | registries, heartbeats | read-only routes, readiness | everything |
| config, serialization, security, observability, http_clients, testing, cli | none or process-local | validation, formatting, masking, logging | - |

Hard behaviours and the properties that make the components correct:

- *outbox*: competing dispatchers (the CLI's default `--dispatcher-id` makes them
  share an id), leases that expire while handlers run, crashes between claim and
  mark, one transaction per iteration over a whole batch, replays by operators.
  Correct when one process can complete a claim, failures are counted exactly,
  retries are bounded, a published event was handled by every handler, a handler
  commits once, and every event is eventually settled.
- *locks*: clocks read before the row, expired owners that come back, commands
  that interleave. Correct when there is one live owner, nobody touches a
  successor's lease, and fencing tokens are distinct (better: growing).
- *tasks*: two workers on one row, crash in a handler, a handler that breaks the
  surrounding unit of work, redelivered messages, tenant deletion in between.
  Correct when nothing is left running, a success is final, attempts are neither
  lost nor invented, and every task is settled.
- *idempotency*: duplicates at once, restarts of failed and expired records, a
  crash between handler and commit. Correct when one execution is committed and
  every answer is the response of a committed execution with the same payload.
- *scheduler*: two instances plan the same slots, a slot of several fails, the
  lock is released before the commit, opposite lock orders. Correct when a slot
  fires once, the state never claims an untriggered slot, no slot is passed over,
  and the schedule catches up.
- *quotas*: concurrent reservations on a missing row, read-modify-write
  releases, the second of two reservations refused. Correct when usage is never
  above the limit, nothing runs unbooked and everything is given back.
- *units of work and tenants*: contexts and units nest, for the same tenant,
  others or none; an inner failure is caught further out; a pooled connection
  serves other tenants before and after. Correct when a statement reaches rows of
  its tenant only and a transaction is committed whole or not at all.
- *permissions and access*: a projection that was begun before a revocation and
  ends after it, two dispatchers on one grant, a repair that reads facts and
  projection at different moments, a cache invalidated before the commit, a route
  decided before its handler's transaction, a first administrator made twice, an
  access map that changes between two reads. Correct when a revoked grant keeps
  no projected row and is soon denied, a live one is projected exactly, a served
  request was authorized, and answers with one revision agree.
- *accounts and tenancy*: sessions inserted while the user is disabled, a
  callback delivered twice, invitations accepted, revoked and expired in any
  order, a deletion taken up again after a failure. Correct when a disabled user
  stays out, an identity is bound for good, statuses follow the transition table
  and no deletion step is skipped.
- *files*: the object, the row and the quota change at three different moments.
  Correct when an available row has its object and stored bytes are counted.
- *audit, settings*: histories that several requests extend. Correct when the
  hash chain has no fork, an export is a whole chain, and the revisions of a
  setting explain its value.
- *rate limits, start-up, migrations*: windows and expiring counters; hooks and
  registries that fail half-way or are used twice; a lock whose ttl ends during
  an upgrade, releases applied one after the other. Correct when a rule lets pass
  and denies what it says, hooks nest, and revisions run once, gated and in order.

## 2. The models and the code

| module | models | checked in | proofs |
|---|---|---|---|
| `EventDelivery` | abstract: what the outbox promises about one event at a time | `MCOutbox`, `MCOutboxDispatch` | |
| `Outbox` | `core/outbox/repository.py`, one transaction per call | `MCOutbox` | `OutboxProofs` |
| `OutboxDispatch` | `core/outbox/runtime.py`, `dispatcher.py`, `core/events`, the event part of `core/idempotency`: one transaction per iteration | `MCOutboxDispatch` | `OutboxDispatchProofs` |
| `FencedLock` | abstract: a lease with a fencing token | `MCInfrastructure` | |
| `DatabaseLock`, `RedisLock` | `core/locks/database.py`, `core/locks/redis.py` | `MCInfrastructure` | `InfrastructureProofs` |
| `TaskQueue` | `core/tasks`, the task commands of the CLI, `_cancel_tasks` of tenancy | `MCTaskQueue` | `TaskQueueProofs` |
| `Idempotency` | `core/idempotency/guard.py`, `store.py` | `MCRequests` | `RequestsProofs` |
| `Scheduler` | `core/scheduler` | `MCScheduler` | `SchedulerProofs` |
| `Quota` | `core/quotas` | `MCPlatform`, `MCQuotaGranted` | `PlatformProofs` |
| `Permissions` | `core/permissions/services.py`, `projector.py`, the tenant part of `platform_apps/access` | `MCPermissions` | `PermissionsProofs` |
| `TenantIsolation` | `core/db/transactions.py`, `runtime.py`, `sql.py`, `core/context`, `core/base/repositories.py`, `core/permissions/cross_tenant.py` | `MCPlatform` | `PlatformProofs` |
| `TenantPolicy` | `core/tenancy/lifecycle.py`: operators only | in `Accounts`, `Tenancy`, `RouteAuthorization` | |
| `Accounts` | `platform_apps/accounts`, `core/auth` | `MCRequests` | `RequestsProofs` |
| `Tenancy` | `core/tenancy/services.py`, `platform_apps/tenants` | `MCRequests` | `RequestsProofs` |
| `RouteAuthorization` | `core/base/routers.py`, `core/auth/request_security.py`, `core/tenancy/resolver.py`, `core/permissions/authorization.py`, `decisions.py`, and the routers of five apps | `MCPlatform` | `PlatformProofs` |
| `AccessAdmin`, `FrontendAccess` | `platform_apps/access` | `MCPlatform` | `PlatformProofs` |
| `Files` | `platform_apps/files`, `core/storage` | `MCPlatform` | `PlatformProofs` |
| `Settings` | `platform_apps/settings` | `MCPlatform` | `PlatformProofs` |
| `Audit` | `platform_apps/audit` | `MCInfrastructure`, `MCAuditFork` | `InfrastructureProofs` |
| `PermissionCache` | `core/permissions/cache.py`, `backends.py` | `MCInfrastructure` | `InfrastructureProofs` |
| `RateLimit` | `core/rate_limit`, the counters of `core/cache` | `MCInfrastructure` | `InfrastructureProofs` |
| `AppStartup` | `core/apps`, `core/app`, the registries of `core/messages`, `core/exceptions` | `MCInfrastructure` | |
| `Migrations` | `core/migrations`, `core/cli/migrations.py`, `core/locks/memory.py` | `MCInfrastructure` | |
| `Infrastructure`, `RequestServices`, `PlatformServices` | hosts: no code of their own; each extends one component and instantiates the others of its group | `MCInfrastructure`, `MCRequests`, `MCPlatform` | `InfrastructureProofs`, `RequestsProofs`, `PlatformProofs` |

A host gives the properties of its components one name each. Its MC module and its
proofs module both extend it, so what TLC checks on small constants and what is
proved for all constants is one definition.

`PROJECT.json` maps each definition to its source lines.

**Outbox.** `row` is the committed table, `now` the clock. A call of the
repository first reads the clock (`resolved_now`, kept in `at`), then runs its
statements: `ClaimBegin`, one `TryClaim` per candidate, `ClaimCommit`. An UPDATE
takes the row lock and tests its WHERE clause on the committed row, so a
candidate chosen on old data is tested again. `held` is what a process remembers
of its claims after the commit; `MarkPublished` and `MarkFailed` succeed only
when `claim_version`, `locked_by` and the lease still fit, otherwise
`MarkConflict`. `ReplayLoad`/`ReplayFlush` are separate because the operator's
UPDATE goes by id. `Crash` forgets the memory and rolls back an open claim.
History variables: `failures`, `replays`.

**OutboxDispatch.** The deployed loop holds one unit of work per iteration.
`db` is committed, `draft` what the open transaction sees. An iteration is
`Begin`, `TryClaim`*, `ClaimReturn`, then for every event the handlers in
registration order (`SkipHandler` when its idempotency record has succeeded,
`RunHandler`, `FailHandler`, `BreakSession` for a database error inside a
handler), `MarkEvent` or `MarkConflict`, at last `Commit`. An exception that
leaves the iteration rolls everything back (`RollBack`) and the process ends
and is restarted. `called` counts calls to external systems, which no rollback
takes back, and `expired` the events whose idempotency records have lapsed
(history; what is promised of an event holds while it is not in it). Time is measured in handlers of one event, because what matters is
whether the lease outlives the batch.

**EventDelivery** has a state per event (absent, open, published, dead) and an
attempt counter: an open event is published, or fails with one attempt counted.
`ImplementsDelivery` of `Outbox` and of `OutboxDispatch` maps the rows to it:
every step of either model is a step of the abstract one or a stutter.

**DatabaseLock, RedisLock, FencedLock.** One `lock_key`; one action per SQL
statement, or per Redis command or script, and another for the moment a reply is
read. `handle` is what a client believes. In `FencedLock` a grant happens only
when no lease is live and carries a token larger than any before.

**TaskQueue.** `table` is committed, `proc[p]` holds the object a process has
loaded and changed, `lock` says who has flushed a change and not committed. The
rows flush by id, which is why `Start` compares nothing. `provider` and `loops` are
what was deployed, one of the three task providers and the workers that run; both are
chosen once; `Receive`, `Acknowledge` and `Crash`
model Celery's late acknowledgement and redelivery; `AfterUnitOfWork` and
`HandlerPoisons` a nested unit of work that made the outer one rollback-only;
`CancelLoad`, `CancelUpdate`, `CancelCommit` the deletion of a tenant.
Back-off is kept as a flag (`waiting`) and `BackoffElapsed`.

**Idempotency.** `Insert` waits for an open transaction on the key;
`LoadExisting` reads the record after the conflict and takes one of the code's
branches (answer, conflict, in progress, restart); `Restart` updates by id.
SQLAlchemy writes only columns that differ from the loaded value: `Written`
models that. `ExpireLoad`/`ExpireFlush` are the operator's command. `wins`,
`failures`, `committed` are history.

**Scheduler.** `Plan` computes due slots from the committed `last_planned_at`
(`DueSlots`, `PlannedSlots` by policy and limit); per slot `Acquire`,
`Trigger`, `MarkGet`, `MarkFlush`; `TriggerRaises` is the exception after which
the loop continues with the next slot. The unique constraints of `TaskRun` and
`ScheduleTriggerLog` are in `SlotTaken`; two processes that wait for each other
are resolved by `BreakDeadlock`. `Commit` publishes everything at once, but
the slot's lock is free since `Trigger` returned. `deployed` is the set of instances
that run, chosen once.

**Quota.** The database store: `TryUpdate` (conditional UPDATE), `Select`,
`Insert` (unique conflict: second try), `ReadBack` and `Decide` of
`QuotaService.reserve`, `ReleaseRead`, `ReleaseWrite`; the memory store:
`ReserveInMemory`, `ReleaseInMemory`. `store` says which one is wired in and never
changes. `booked` (history) records for whom usage was really raised, `happened`
whether a row was inserted and whether a release has written to one: the two things
that spoil the books of the database store.

**Permissions.** The successive grants of one role template to one subject.
`grants`, `template` and `policies` are the committed tables, `events` counts each
grant's undelivered events, `proc` holds the one transaction of each process: what
it is doing (`job`), which rows its DELETE has found (`snap`) and which it will
insert (`rules`). Every job goes through the same statements, in the order of the
code: load (`GrantRole`, `RevokeRole`, `HandleEvent`, `RepairBegin`), template
(`LoadTemplate`), comparison (`RepairPlan`), DELETE (`DeleteBegin`, and `DeleteEnd`
when the row locks are free), INSERTs (`Flush`, or `FlushFails` on a unique key),
`Commit`. That a DELETE at READ COMMITTED never sees rows inserted after it has
started is what makes the interleavings interesting. A grant made by accepting an
invitation (`Invited`) is not projected by its own transaction
(`platform_apps/tenants/services.py:534`), one made by an administrator is.
A dispatcher iteration handles one event, a template change is one step, and
waits are for all rows of a statement at once. `started` (history) holds the
dispatchers that have handled an event and the reconcilers that ran: the two
conditions under which handled events leave the right rows, `OneDispatcher` and
`NoRepair`, are read from it.

**TenantIsolation.** A task is a stack of the `with` blocks it is inside:
contexts (`RequestContextMiddleware`, `use_background_context`) and units of work
(`OpensUnit`, `JoinsUnit`), in any order, each for a tenant or none. `session` is
the task's database session with its uncommitted writes and the connection it
took; `variable` is `app.tenant_id` of each connection, which the row policies
read (`Visible`, `FlushRefused`). Statements are those of the tenant repository,
`execute_tenant_scoped` and `execute_cross_tenant`, with any values. The predicate
that `execute_tenant_scoped` wants is only looked for in the text, so a statement
is without it, has it and is restricted by it, or has it and is not (`"named"`,
reaches whatever the session can); only the row policies hold the last kind back. Any code may
raise (`Raises`), any block between may catch (`Catches`), `Leaves` runs the
innermost `__aexit__`. `failed` and `tenant` of a session, and `last`, are
history.

**Accounts.** A request is a sequence of reads and a commit over `users`
(status, password, token version), `sessions`, `identities` and the in-memory
`states` of external logins. `Accepts` is the check of a request's token: session
active, user active, versions equal. A request carries the token version it has
read, which is what a late insert or a session the revocation did not find is later
compared by. `tokens` says which access tokens have
expired. The tables of tenants and members are shared with `Tenancy`.

**Tenancy.** An operator is a request or a maintenance job: it loads
(`suspend_tenant`, `accept_invitation`, ...), decides and writes by id later
(`TransitionCommits`, `AcceptCommits`, ...). `begin_delete_tenant` and
`finish_delete_tenant` may be called directly, alone or one after the other in a unit
of work (`direct` remembers the tenants closed so). The deletion
walks `_DELETE_STEPS`, commits or rolls back as its caller does, and finds the
records of an earlier attempt: a record is read by a plain SELECT when its step
comes (`SkipStep`, `LoadStep`), the step is executed (`ExecuteHook`,
`ExecuteTransition`, `StepFails`), and the record is written by id
(`StepFlushes`). Only written rows are locked, so two runs for one tenant may both
execute a step; `together` and `repeated` (history) remember where that happened.
`cleaned` is what hooks have done outside the database. Invitations are named by who issued them.

**RouteAuthorization.** One request: the router's arguments become a policy
(`create_router`), then `session`, `tenant`, `permission` are read in turn, each in
a session of its own, and the handler hands its service a decision that the
service asserts. `facts` is what administrators change in between, `seen` the
states a request has met. The routes of one router that treat tenant and decision
alike are one element of `Routes`.

**AccessAdmin, FrontendAccess.** Transactions of platform administration and the
bootstrap command, with the unique keys their INSERTs wait for; and the mappings of one
frontend client, changed and read by concurrent requests. Expressions are members of
`Trees` that name their parts; what the code computes by recursion
(`_evaluate_expression`, `_normalize_expression`) is said of a set of trees that
contains the parts of its members, which is the same for finite trees and can be reasoned
about.

**Files.** `rows` are committed, `objects` and `uploads` are the object store's,
`used` is the usage of each quota rule of each tenant; `reqs` holds what a request has
flushed. A reservation or release is one step in the memory store and, in the database
store, the statements of `core/quotas/usage.py` (`_reserve_upload_quotas` the
conditional UPDATE, `ReserveMisses`, `ReserveInserts`, `ReserveIsLate`, then
`require_reserve`; `ReleaseReads`, `ReleaseWrites`). `lost` (history) names the counters
where a refused reservation was granted after all, or a release has overwritten a
reservation. Storage and quota
change when called, rows at the commit (`UploadCommits`, `CompleteCommits`,
`DeleteCommits`, `PurgeCommits`); `StoreFails`, refusals and `RollsBack`, which also
stands for a crash, come between any two. A file is named by its request and its place in the batch.

**Settings.** `rows` and `revisions` per scope; a request loads, decides
(`expected_version`, the definition's scopes and secrecy), writes and commits.
`resolve` reads the tenant's row, then the platform's.

**Audit.** `log` is the committed table of one tenant, a record the name of its hash, of the
previous one and whether it is intact. A transaction takes the process's chain lock and, when
configured, the provider's (`_acquire_audit_chain_lock`), reads the newest hash, inserts,
and keeps the locks until it ends. `_order_valid_hash_chain` is the code's algorithm, a
walk along the links (`Longer` is one turn of its loop); `IsChain` is the reference it
is compared with, by TLC on every small table and by proof on all.

**PermissionCache, RateLimit.** Steps are single commands where the Redis provider can
suspend, whole calls for the memory provider, which never does. A cached decision
keeps the versions it was stored under. `limiter` is the limiter that is wired in and its
rule, chosen once. A counter is a cell of a key and a bucket with
its expiry; `log` is the history of decisions, `raced` whether two increments in Redis
met.

**AppStartup.** `create_app` in its phases: load, validate dependencies, order
(`visit`, compared with the reference `Startable`), conformance, codes and messages into the
registries of the process, runtimes, start-up hooks, shut-down hooks, disposal;
each can fail where the code can raise.

**Migrations.** Operators run `plan`, `dry-run` and `apply` over a release: manifests are
collected and checked (`from_app_registry`), ordered (`plan_migrations`), gated
(`run_preflight`) and executed under the lock `migrations:apply`, whose ttl may
end, in a thread that a cancelled task leaves behind. Alembic's upgrade runs the
missing ancestors of a revision.

Abstractions common to all: identifiers are model values, payloads are equal or
different, time is a counter, wording and logging are absent. Statements of one
transaction that no other process can observe separately are one action.

## 3. The runs

`MaxTime`, `MaxGrants`, `MaxTokens`, `MaxReplays`, `MaxRetries`, `MaxCrashes`,
`MaxExpiries`, `MaxFaults`, `MaxFailures`, `MaxUpdates`, `MaxChanges`, `MaxCalls`,
`MaxDelay`, `MaxCreations`, `MaxCommands`, `MaxProjections`, `MaxVersion`,
`MaxDepth`, `LastMinute` are the bounds of the models; everything
else in a `.cfg` is a parameter of the system. Deadlock is not checked: every
system here may stop when its work is done and its bounds are used up. Most MC
modules choose a *setting* in the initial state, each an `INSTANCE` of a module
with other constants, so that a property is checked where the code promises it
and the hazards are all possible where it should hold regardless. `MCInfrastructure`,
`MCRequests` and `MCPlatform` host several components whose variables move in
their own settings only.

| run | instance | shows |
|---|---|---|
| `outbox` | 2 dispatchers with one id, 2 events, 1 operator, batch 2, lease 1, max_attempts 2, clock 0..3 | the lease protocol keeps one completing holder per claim (`OneCurrentHolder`), counts failures exactly, bounds retries, never takes a live lease, implements `EventDelivery` |
| `dispatch` | 2 dispatchers, 2 handlers, batch 2, lease 2, max_attempts 2; settings *poison* (2 events, a handler of event 2 always breaks the session, waiting uses the lease up, the records of event 1 may expire, no crash or replay) and *live* (1 event, 1 crash, 1 replay, fair) | `HandledOnce`: a published event was handled by every handler; while its records live each handler committed once and a side effect is called again only after its record rolled back. `ImplementsDelivery`: `EventDelivery` is implemented. `AllSettled` |
| `infrastructure` | *database*, *redis*: 3 clients of a lock (ttl 2, clock 0..4, 3 grants; ttl 1, clock 0..3, 3 tokens) | database: one live owner (`MutualExclusion`), `FencedLock` implemented; Redis: only the owner changes a live key (`OthersKeyUntouched`) |
| | *first*, *shared* (2 processes and a lock provider), *late* (transactions begun before their first record, two records each, retention, an export), *exports* (two exports), *any log* (every table of up to 3 rows) | `OneChainWhilePlain`: the chain of a tenant has no fork as long as the run is `plain` (each record was the first statement and the only record of its transaction, nothing was deleted) and one process or a shared lock serves the recorders (`Together`); `ExportsWholeChains`: exports are whole chains, in order, and refused only when there is none |
| | *cache*, *cache in redis*: 2 lookups, 2 projections, ttl 1 | `RevocationTakesHold` |
| | *fixed*, *slides*, *redis fixed*, *redis slides*: up to 4 requests of 3 identities, limits 1 and 2, windows of 2, failing closed or open | `LimitsAsDeclared`: no key passes more often than its rule says, nobody is denied for another's calls; a fixed window is over within Retry-After of a denial, whoever goes on calling, and what is denied afterwards has a full count of calls since |
| | *graph* (every dependency graph of up to 3 apps), *two starts* (one or two apps with codes, messages and verdicts, twice in one process) | `DeployedAsDeclared`: loaded exactly when startable, hooks nest, what an app declared is what the process answers with |
| | *migrations* (one provider, 2 operators, 2 releases, 3 commands), *phases* (a provider each, 8 releases, good and bad, 2 commands) | `DeployedAsDeclared`: upgrades overlap only when a lock lapsed, reported means applied, dependencies and backups first |
| `tasks` | 2 tasks, settings *all* (each provider, 2 workers, nested failure, deletion, 2 retries, 2 crashes), *one* (1 worker), *redelivery* (2 Celery workers), *live* (2 loops, fair) | nothing left running, dead letters earned; `ExecutedWhenDue`: as long as no row is worked on twice at once (`Exclusive`: no deletion, and one loop and one operator, or Celery without a retry) success is final and, outside Celery, attempts are exact; settled by two loops |
| `requests` | *idempotency*: 4 requests with one key, 2 payloads, 1 that retries failures, 2 that commit a failed mark, 2 expiries or crashes | answers are committed (`AnswersCommitted`); while the record lives, one committed execution and own payload only (`ExactWhileAlive`); no silent retry of a failure that was caught (`NoSilentRetryWhenCaught`) |
| | *accounts*: 3 requests, 2 users of one tenant | `DisabledStaysOut` (once a user is disabled, every session, late login, refresh and request under way carries an older token version than his row), `IdentitiesHold` (a callback is answered once, a binding is for good) |
| | *invitations*, *lifecycle* (operators one at a time), *two operators* (which overlap; deletion to one of the two closed statuses, no suspension): 1 tenant, 2 users, 2 failing steps | `LegalHistory` until two operators have overlapped; `DeletionInOrder` always: steps are on record in order, a hook on record as succeeded was done, a tenant that the workflow closed has every step on record, and a hook that succeeded is not executed again unless two runs for the tenant were under way together |
| `scheduler` | 3 processes, 3 minutes, settings *shared* (distributed lock, catch-up), *one* (as deployed), *run_once*, *skip* (fair) | a slot fires once; the state names a fired slot; `OneInOrder`: while one instance runs, no trigger has raised and no lock has outlived its process (`Undisturbed`), nothing is passed over and the state never goes back; two catch up |
| `platform` | *database*, *memory*, *reserve* (rows exist): 3 clients, 2 rules | usage within limits always; `ExactlyBooked`: usage is what was reserved and not released until a release has written, a handler runs with everything reserved until moreover a row was inserted, and in the memory store both hold always and nothing is left |
| | *files*: 3 requests of 2 tenants, batches of 2 (of the second tenant 1), room for 2 files, retention, memory store; *file quotas*: 2 requests of one tenant, database store | `ObjectsAccountedFor`: an available row has its object; what is stored is counted under every rule of its tenant, with the memory store always, with the database store for each counter that is not in `lost` |
| | *serial*, *racing*: 3 like requests, started in order, every definition, the platform's scope and, when *serial*, a tenant's | `HistoryExplainsValue`: the revisions of a scope explain its value unless changes of it raced |
| | *routes*: every route of five apps, every caller (facts a route does not look at are fixed), one change of what he may do | `ServedAsAuthorized`: what is served was authorized, what is permitted is served |
| | *admin* (2 requests, bootstrap of one user, at most 2 grants), *frontend* (2 requests, one access key, expressions over 2 permissions, changes one after the other) | `AccessAdministered`: one first administrator who can act at once; answers with one revision agree; the user of an open key has a permission that its expression names, and it names registered ones only |
| | *guarded* (1 task, blocks 3 deep, 2 tenants, 3 rows, row policies), *unguarded* (2 deep, no row policies), *two tasks* (3 blocks in all, one connection for both) | `TenantsKeptApart`: statements that are restricted to a tenant stay in it, with the row policies every statement and commit of a session does, nested units agree, transactions are whole |
| `permissions` | 2 grants (one by invitation), 2 permissions, settings *change* (1 grant, 2 dispatchers, 1 reconciler, template changes, 1 crash), *repair* (2 grants, the same), *two* (2 administrators, 2 dispatchers), *one* (2 administrators, 1 dispatcher, template changes, 1 crash, fair) | `HandledIsProjected`, in every setting: as long as one dispatcher has handled events and nobody reconciled no row of a revoked grant stays, and until a template changes or somebody reconciles a handled live grant is projected exactly; `RepairExact`: a repair nothing was committed during is exact; `RevocationSettles`, in *one*: revoked rows disappear |
| `tasks_two_workers`, `scheduler_lost`, `quota_granted`, `audit_fork` | minimal instances | the four counterexamples of section 6 |

Why the bounds are enough: a hazard here is a race between at most two processes
plus a third that profits from it (three lock clients, two dispatchers and an
operator, two workers and an operator, two recorders and an export), a lease that
expires at least once and is granted again (`MaxTime` at least twice the lease, or
the lease is 1), a failure that reaches `max_attempts` = 2 (the smallest value at
which a retry and a dead letter differ), one replay after it, and a crash at any
point. Windows, buckets and ttls pass at least twice. Three nested blocks are a
unit, a unit in it and a context or unit around or between; what deeper nesting
could add is settled by the proof. Each property has a mutant in `PROJECT.json`
(a dropped WHERE condition, a swapped order, an off-by-one) that TLC refutes under
the run's own bounds, so none of them is too small for its property to fail.

## 4. Fairness

Four runs use fairness, and only weak fairness, each in the settings named.

- `dispatch`, *live*: of each process's own steps. A dispatcher is a loop under a
  supervisor and is restarted after an exception. `Add`, `Replay`, `Expire` and
  `Crash` are not fair, and crashes are bounded.
- `tasks`, *live*: of each worker's steps, of a client's or operator's
  steps once begun (a request that has begun ends), of the clock (`BackoffElapsed`).
  Submission, retry and crashes are not fair.
- `scheduler`, *run_once* and *skip*: of each instance's steps, of the
  clock, and of the expiry of a dead process's lock (its ttl). The operator is idle.
- `permissions`, *one*: of the dispatcher taking an event of each grant, and
  of the statements of every transaction that has begun. Requests and crashes are
  not fair.

Row-lock waits are disabled actions, so weak fairness does not assume that a
waiting process gets its lock; where the code can wait for ever, the property fails.

## 5. The proofs

Eight modules hold theorems. All hold for every number of processes, rows and
crashes and every value of the other constants under the module's `ASSUME` (types
only). A theorem that needs more states it in its own `ASSUME`; those are listed
here with the theorem.

Where the code promises something only under a condition on what has happened so
far or on what is deployed, the condition is a state predicate over history variables
(`plain`, `raced`, `overlapped`, `expired`, `started`, `happened`, `Alive`,
`Undisturbed`, `Exclusive`) or over what was chosen once (`store`, `provider`, `loops`,
`deployed`, `limiter`), part of the property and of what TLC checks. The theorem then speaks of every behaviour of the specification, and of
each up to the moment the condition ends.

- **`OutboxProofs`**. `TypeCorrect`, `OneCurrentHolderAlways`,
  `AttemptCountAlwaysExact`, `RetryBudgetHolds`, `LiveLeaseSafe`,
  `PublishedStays`, `OutboxImplementsDelivery`. None of the invariants is
  inductive: they rest on what an open claim knows (`ClaimingInv`: it only locks
  eligible rows and has their versions, and two open claims never share a row), on
  what memory knows (`HeldInv`: a claim in memory is never newer than its row,
  and one with the current version knows its attempt count) and on the clock
  (`CallInv`: a call decides on a time of the past). One lemma per action
  preserves the conjunction `IInv`. `PublishedStays` and
  `OutboxImplementsDelivery` assume one operator; with two they are false
  (section 6).
- **`OutboxDispatchProofs`**. `EventsAreHandledOnce` and `DispatchImplementsDelivery`
  (every commit moves each event by one counted attempt). A commit publishes many
  changes at once, so the invariant relates each iteration's `draft` to the
  committed row it claimed (`Attempted`), says that batches of two iterations are
  disjoint, that the handlers before the next one have run for the event at work
  (`Passed`, what `mark_published` rests on), and that a succeeded record tells of
  a run and, while it lives, of every run and call (`Kept`). The current event is the least one of
  a set; that it exists comes from the well-foundedness of `<`.
- **`InfrastructureProofs`**.
  *Database locks*: `TypeCorrect`, `MutualExclusionHolds`, `NewestTokenHolds`,
  `DatabaseLockImplementsFencedLock`. The key is `HandleInv`: a client that believes
  in a live lease is the row's owner with the same token and the row does not expire
  earlier. `MutualExclusionHolds` and `NewestTokenHolds` assume distinct owner tokens (`DistinctOwners`;
  the default is a uuid4); the others do not.
  *Redis locks*: `OthersKeysStay` (an action property; a ttl is a natural number).
  *Decision cache*: `RevocationsTakeHold`, for both providers, from `CacheInv`: an
  entry stored under the current versions was decided when the permission was there, and
  any other entry is unreadable or ends within a ttl and a lookup of the revocation
  (`Durations`: both are natural numbers).
  *Audit*: `LogForksForCause`. A fork needs two records with one predecessor, so
  `AuditInv` says that the log is a sequence, ordered by `created_at` and linked from
  row to row (`LogChained`), and what a transaction under the lock has seen of it
  (`Recording`). `Apart`: requests that record do
  nothing else, and ids can be ordered.
  *Exports*: `ExportsAreWhole`, from any finite table whose hashes are hashes (not
  `Nobody`), tampered ones included. The walk is a function of the step number, so that it
  follows the links and meets every record of a chain is not an induction over data:
  if some step left the chain, a least one would (`NatLessThanWellFounded`), and the step
  before it did not; `ExportInv` carries what was read to the file and the row.
  *Rate limits*: `LimitersKeepTheirRules`, for any requests, identities, limits and windows
  (`Nobody` is not a counter). `StepShape`: until increments race in Redis, a step adds
  to the log nothing, a decision without an increment, or one with it and with the count it
  was made on. `FixedInv` compares the counter of a key with the calls of its lifetime and
  with what passed under each expiry; two expiries are at least a window apart, so that a
  window meets two counters at most (`TwoCounters`); a counter that denied never gets a
  later expiry (`RetryKey`: the counter of a key is one that denied, or begins a window after
  it), so whoever is denied from the end of a counter that denied on has used up the limit
  since (`Retried`). `SlideInv` compares the counter of a
  bucket with the bucket's calls, exactly in memory and from above in Redis, where a call
  also remembers the previous bucket of a moment ago. `Denials`: what was added up are
  distinct calls of the key before the denial. The lemmas about `\div` (`DividedNext`,
  `WindowsApart`, `Weighing`) are proved from the division law alone.
- **`TaskQueueProofs`**. `NeverLeftRunningHolds`, `DeadLetterIsEarned`,
  `DueExecutionsOnly`. Workers overwrite one another, so `attempt_count` is *not* the number of executions;
  it is at most that (`TableBacked`), and what a process holds will be so when it
  commits (`Held`). That is enough for the first two. `DueExecutionsOnly` (an action
  property) needs that the number is exact while `Exclusive`: whoever works on a row is alone
  with it and has loaded what is stored (`ExclusiveInv`), whatever crashes and redeliveries.
- **`RequestsProofs`**.
  *Idempotency*: `AlwaysTyped`, `AnswersAreCommitted` (through `StoredCommitted`),
  `CommittedAtMostOnce` (`AliveInv`: while the record lives and no request that
  retries failures has restarted it, a success, once stored, can neither be restarted
  nor inserted beside, and one request executes at a time because the others wait for
  its lock), `FailuresAreKept` (an action property).
  *Accounts*: `DisabledUsersStayOut` and `IdentitiesAreKept`, from `AccountsInv`: a
  user is disabled once, which takes his row to a token version past that of every session
  and of everything a request has read, also of the sessions that logins under way will
  insert; a consumed state of an external
  login is no longer kept, and one request at most holds it.
  *Tenancy*: `DeletionKeepsOrder`, for runs that overlap as well: each step a run has done
  is either on record as a success, which it skipped, or one it has written itself
  (`StepFine`), a hook it executed is done outside the database whatever its transaction
  comes to (`Executed`), and a run takes a tenant to a closed status only after four
  successes (`ClosesLast`). That a step with a success on record is executed needs a second run
  for the tenant, since a run alone reads its records as they are (`Alone`). `OneOperatorIsLegal` (an action property): until operators
  overlap, what an operator has loaded is what the table holds (`OpLegal`), and open
  invitations have different e-mails (`InvitationsFine`).
- **`SchedulerProofs`**. `AlwaysTyped`, `TriggersAreExact`, `OneTakesAllInOrder`. For the
  second: a slot inserted by an open transaction is neither fired nor inserted by another, and every marked
  slot is fired or in the marking transaction (`MarkedIsDone`). `OneTakesAllInOrder` (an
  action property): the plan of the only instance is the oldest due slots after the state
  it was made on, and they are done in order (`InOrder`), whatever operators trigger and
  however often it crashes.
- **`PlatformProofs`**.
  *Quotas*: `UsedStaysWithinLimit`: although releases lose updates, what
  a release has read was within the limit, and an insert's amount was compared
  with it (`Sound`), and a rule without a row has no usage. `UsageIsExactlyBooked`:
  `Bookings` says which rules each phase of a request has booked and `UsageCounted` that
  the usage of a rule is the cardinality of `Units`, the amounts of the clients that booked
  it, laid side by side; a booking adds a disjoint set and a release removes one. Both
  stores, any clients, amounts and rules.
  *Settings*: `RevisionsExplainValues`, from `SettingsInv`: outside `raced` one request
  changes a scope at a time, and what it has loaded is the row; a scope's revisions
  are numbered without a gap and start where the one before ended. Of several first
  changes, racing or not, the unique key keeps one.
  *Files*: `FilesAreAccountedFor`. `FilesInv` ties every row to what its requests are
  doing (who may still put or delete its object), for `AvailableHasObject`. For
  `StoredIsCounted` the usage of a rule and a tenant is compared with the cardinality of
  `Counted`, the files of the tenant stored or reserved, by one lemma per way the set may
  change (`CountInv`). The comparison holds for a counter that is not in `lost`; with the
  memory store nothing is. `FilesConstants`: sizes and limits are natural numbers.
  *Access*: `FirstAdministratorsHold`, from `AdminInv`: once somebody is bootstrapped, a
  first administrator has the grant, its template keeps some permission and a row of it is
  projected; and runs that name one user meet at the unique key of the grant.
  `AccessMapsHold`, from `FrontInv`: mappings are well formed, every one a request
  has read is in the history, and, where changes follow each other, an answer is
  determined by its revision (`Tells`) and what is mapped names registered permissions
  (`Known`). That an open key shows a permission its expression names is
  `OpenNeedsPermission`: of the true parts of the expression one has no true part, and it is
  a permission. `AccessIsAdministered` is both together.
  `FirstAdminsAssumption`: there are finitely many of them; `TreesAssumption`: no expression
  is part of itself, however deep.
  *Routes*: `RoutesServeAsAuthorized`, over every route of the table, with
  `DistinctTenants` (a session's tenant is not the platform's name). `Shown` is what
  each step of the pipeline has seen hold in a state of this request, `Undisturbed`
  that nobody is refused whom nothing has changed for.
  *Units of work*: `TenantRowsApart` (`ScopedToTenant` and `KeptInSession`),
  `NestedUnitsAgree`, `UnitsAreWhole`, and `TenantsAreKeptApart`, the three together,
  for any depth of nesting, any pool and any tenants (rows are owned by tenants or by nobody).
  The first needs that the variable of a connection is
  the tenant of the session that has it, and none when the connection is idle
  (`ConnectionsOK`: `Released` at the end of every transaction, and no two
  sessions share a connection). `UnitsAreWhole` needs `StackOK`: a session is open
  exactly while there is a unit on the stack, an inner unit is for the tenant of an
  outer one, and the outermost unit, whose end commits, is marked exactly when some
  unit of the session was left by an exception. Least and greatest elements of sets of
  positions come from the well-foundedness of `<`, since a stack has no bound.
- **`PermissionsProofs`**. `OneDispatcherLeavesNoOrphans`. `NoOrphans` is not
  inductive, because the dispatcher may be about to
  insert rows of a grant that is already gone. `Fine` says what every job
  guarantees: a projection holds an event of its grant, and one of at least two
  if the grant is gone; a removal has found every row there is. The revocation's
  commit establishes it by adding its event, and only the dispatcher takes events
  away (`StartedInv`: whoever has not started is idle). It is the proof that the
  revocation's event is needed although the revocation deletes the rows itself.
  `LiveGrantsAreProjected`: a live grant has one event, in one dispatcher's hands
  (`OneEvent`), and every statement about it is about rows of the one template (`Tidy`).
  `HandledGrantsAreProjected` puts both together. `RepairsAreExact` (an action
  property): an undisturbed reconciler's plan is the difference between the facts and
  the projection as they still are (`RepairFine`).

A component that is instantiated by its host is proved about through the instance
(`A!Spec => []...`); its constants are the host's, so they are arbitrary too. The MC
modules let one component move at a time. Theorems about a component are about its
own specification.

What stays with TLC, and why:

- liveness (`AllSettled`, `SettledByTheLoops`, `LatecomersCatchUp`,
  `RevocationSettles`): fairness and ENABLED are out of the prover's reach;
- `DeployedAsDeclared`, the one safety property of a run that no theorem states. It says of
  `AppStartup` and `Migrations` that a depth-first visit with its in-progress marks and a
  topological order compute what a reference definition says of every dependency graph, and
  the lifecycle and migration parts rest on those results. The visits are RECURSIVE operators,
  which cost the provers their SMT backend, and unlike the walk of an audit chain they
  are no function of a step number: their correctness is an induction over the graph. TLC
  compares them with the reference on every graph of up to three apps.

## 6. Where code and documentation disagree

Four are kept as runs whose property TLC refutes.

1. `tasks_two_workers`: `claim_next_pending` (`core/tasks/repository.py:158`)
   selects without a lock and flushes by id. Two workers that select one row both
   execute it, the second after the first has succeeded.
2. `scheduler_lost`: `run_once` continues after a slot that raised
   (`core/scheduler/runtime.py:170`), and the mark of a later slot moves
   `last_planned_at` past it; the policy is to catch up.
3. `quota_granted`: two clients insert the first row of a key; the loser's
   reservation is decided from usage it never raised
   (`core/quotas/provider.py:86`) and its handler runs with nothing reserved.
4. `audit_fork`: `created_at` is the start of the transaction, so the newest record
   by `created_at` need not be the last of the chain
   (`platform_apps/audit/services.py:330`), and two records follow one.

The next table was found with the same modules; the property stays defined next to
the ones that hold. To see one, take the constants given here.

| property | constants | source | documentation |
|---|---|---|---|
| `Outbox!ReplayOnlyDeadLetter` | 1 event, 1 dispatcher, 2 operators, LockSeconds 2, MaxTime 4, MaxReplays 2 | `core/outbox/repository.py:138`: two replays load the dead letter, the second flush overwrites what the retry did | `docs/modules/core-outbox.md:227` |
| `OutboxDispatch!EffectCalledOnce` | 1 dispatcher, 2 events, 1 handler, LeaseUnits 1, no errors | `core/outbox/runtime.py:98`: one lost lease rolls back the records of the whole batch | `core-outbox.md:203` |
| `OutboxDispatch!EventuallySettled` | 1 dispatcher, 2 events, LeaseUnits 4, DbErrors `{<<1,1>>}`, FairSpec | `core/outbox/dispatcher.py:94`: mark_failed runs on the broken session | `core-outbox.md:165,167` |
| `OutboxDispatch!EventuallySettled` | 2 dispatchers, 1 event, 1 handler, LeaseUnits 1, 1 crash, 1 replay | `core/outbox/repository.py:57`: waiting for a row lock uses up the lease | `core-outbox.md:165` |
| `OutboxDispatch!HandlerSucceedsOnce`, counting events in `expired` too | 1 dispatcher, 1 event, 2 handlers, LeaseUnits 4, 1 replay | `core/idempotency/store.py:262`: an expired record is restarted | `core-outbox.md:162` |
| `RedisLock!ImplementsFencedLock` | as `infrastructure`, setting *redis* | `core/locks/redis.py:83`: INCR precedes SET NX, a later grant may carry a smaller token | `core-locks.md:69,75` |
| `TaskQueue!CancelledIsFinal`, `OnlyUnfinishedCancelled` | 1 task, 1 database worker, Deletions | `core/tasks/repository.py:171,258`: loaded rows are flushed by id | `core-tasks.md:86` |
| `TaskQueue!EventuallySettled` | 2 tasks, 1 worker, Nested `{1}`, FairSpec | `core/db/transactions.py:74`: a failed nested block rolls the iteration back, attempts are not counted | `core-tasks.md:84` |
| `TaskQueue!EventuallySettled` | 1 task, 1 Celery worker, FairSpec | `core/tasks/provider.py:396`: the message overtakes the commit and is acknowledged | `core-tasks.md:77` |
| `Idempotency!CommittedOnce` | 3 requests with one hash, 1 expiry | `core/idempotency/store.py:314`: a restart by id after another's restart | `core-idempotency.md:83` |
| `Idempotency!AnswersOwnPayload` | 4 requests, 2 payloads, 1 expiry | `core/idempotency/store.py:306`: an equal column is not written | `core-idempotency.md:80` |
| `Idempotency!NoSilentRetry` | 2 requests, Catching `{}` | `core/idempotency/guard.py:103`: the failed mark is rolled back by the raise | `core-idempotency.md:107` |
| `Scheduler!NeverBack` | 2 instances, LastMinute 4, Cron 1..4, MisfireLimit 3, no shared lock | `core/scheduler/repository.py:208`: the state row was loaded when the iteration began | `core-scheduler.md:98,103` |
| `Quota!UsageExact` | 3 clients, 1 rule, limit 3, all Failing, the database store with its row | `core/quotas/usage.py:136`: release reads and writes in two steps | `core-quotas.md:54,72` |
| `Permissions!NoOrphans` | 1 grant, 1 permission, 1 administrator, 2 dispatchers | `core/permissions/projector.py:89`: a projection begun before the revocation waits for it and inserts after the revocation's event was handled | `core-permission-model.md:22,176` |
| `Permissions!NoOrphans`, `Projected` | 1 grant, 1 permission, 1 administrator, 1 dispatcher, 1 operator | `core/permissions/projector.py:126`: the diff is between grants and policies of different moments | `core-permission-model.md:127` |
| `Tenancy!SucceededNotRepeated` | 2 operators, 1 tenant, MaxFailures 1 | `core/tenancy/services.py:338,499`: a SELECT without a lock; two runs of a deletion both find a step without a success, and the second executes it after the first has committed it | `platform-tenant-lifecycle.md:114` |
| `Tenancy!LegalStep` | 2 operators on one tenant | `core/tenancy/services.py:262`: a suspension decided earlier overwrites deleting | `platform-tenant-lifecycle.md` |
| `Settings!ExpectedOnce` | 2 requests | `platform_apps/settings/services.py:242`: two changes with one `expected_version` both commit | `platform-settings.md:12` |
| `FrontendAccess!AccessRevisionTells` | 2 requests, Serial FALSE | `platform_apps/access/services.py:487`: two racing changes both write version + 1 | `docs/architecture/04-frontend-access-design.md:387,390` |
| `AccessAdmin!BootstrapOnce` without its first condition | 2 requests, 2 FirstAdmins | `platform_apps/access/bootstrap.py:57`: runs for two users both find no grant | `core-cli.md:76`, `core-permissions.md:158` |

Also met while reading and modelling, part by part:

- *accounts*: a failed login's event and audit record are rolled back by the error
  that refuses it (`platform-accounts.md:89`, `core-auth.md:102`).
  `reset_local_password` leaves sessions alone.
- *tenancy, tenants*: "禁止删除最后一个 owner" (`platform-tenant-lifecycle.md:76`) has no
  code. The record of a failed deletion step is rolled back with the step. Two
  concurrent acceptances of one invitation both succeed, a late revocation overwrites
  an acceptance, and accepting looks at no tenant status. Suspension, reactivation
  and deletion have no caller in `src/`. `finish_delete_tenant` called by itself closes a
  tenant that no step of the workflow has touched. An invitation with a role template is
  always refused over HTTP (`platform_apps/tenants/router.py:403`;
  `platform-tenants.md:64`).
- *audit*: retention takes no chain lock, so a concurrent record may keep a
  `hash_prev` that is deleted (`platform-audit.md:111`). An export file is written
  before the commit, so a retry under the same id conflicts with it.
- *settings*: an upsert racing a reset may leave the row deleted; `resolve` may answer a
  default that was never effective, since it reads tenant and platform apart.
- *files*: the quota is never released by a deletion, nor for the earlier files of a
  failed batch; with the database store an upload may be stored uncounted (the defects of
  3. above and of `Quota!UsageExact`); without retention the object goes before the commit; presigned rows
  that are never uploaded stay; a stale delete turns purged back to deleted; a
  suspended tenant downloads over HTTP whatever `allow_suspended_file_download` says
  (`platform-files.md:83`); the router configures neither quota nor scanner.
- *routes*: the `tenant_operation` of a platform router is never read.
- *decision cache*: with the Redis provider `get` returns a string once `incr` has written
  the key (`core/cache/redis.py:76`), so `_version` raises CONFLICT after the first
  invalidation (`core/permissions/cache.py:136`). No application wires the cache in.
- *rate limit*: in Redis two first increments lose one (`core/cache/redis.py:70`), and a
  key that expires between GET and INCRBY becomes permanent; the sliding window's
  Retry-After is too short, since denied attempts count.
- *start-up*: when a start-up hook fails no shut-down hook of the apps already started
  runs; a `dispose` that raises leaves the later runtimes undisposed; catalogs
  registered before a clashing one stay in the process.
- *migrations*: a revision must be among the heads it was run to
  (`core/migrations/alembic_runner.py:50`), so applying again, or a later release of a
  linear chain, fails (`core-migrations.md:208`); `--phase` takes along ancestors of other
  phases that passed no gate (`:207`); `run_preflight` orders without the app graph
  that `migrate plan` prints (`:200`); each command makes its own
  `MemoryLockProvider` (acknowledged at `:206`); a cancelled command
  frees the lock while its thread goes on.
- *tenant isolation*: two sibling units for different tenants inside a unit for none do not conflict,
  and neither sets the session variable (`core-database.md:54`); `execute_cross_tenant` and
  `CrossTenantRepository` never compare `target_tenant_ids`;
  `execute_tenant_scoped` takes an explicit tenant without comparing it with the
  context, and finds its predicate in the text whether or not it restricts the statement
  (`core/db/sql.py:17,48`; `core-tenant-isolation.md:55` asks for a predicate that can be
  verified); a unit whose fallback raises never closes its session.
- *tasks*: whether a task runs for a suspended tenant is decided by a CLI flag of the
  worker (`core/cli/operations.py:111`; `core-tasks.md:82`).

## 7. What is not modelled, and why

Of the modelled components: the injected external publisher and the metrics of
the outbox, task payloads and the handler registry, key and hash computation of
idempotency (equality is kept), cron syntax (a set of minutes), rule parsing and
audit of quotas, `locked()` and `check()`, which only read; list filters, orders and
the read replica of the repositories; password hashing, token signatures and the key
cache of OIDC (a verdict); content scanning, signed URLs, paths and headers of
storage; the single conformance checks and a manifest's own validation (a
verdict); the Casbin matcher, which compares strings. The database is
taken to be PostgreSQL; the SQLite path of the tests serialises writers.

Not modelled: `core/mq` and the RabbitMQ publisher, one publish or one get through
aio-pika, whose outcome is the broker's; admin routes, readiness, heartbeats,
release and smoke checks, which report the state of others; formatting, masking,
logging, argument parsing and configuration; the HTTP client, which is sequential
and keeps no state between calls; the example app. `PROJECT.json` gives the reason
for each. `extend` of the memory lock has no caller, and the cache invalidation
registry has none either.

Known simplifications that hide behaviour: `OutboxDispatch` and `Outbox` take the
optional lock of the dispatcher as not configured; `Permissions` runs one event per
iteration; in `Files` a request dies between two of its steps, and each call of the object store is
one;
`RouteAuthorization` changes facts at most `MaxChanges` times during a request; in
`Audit` the provider's chain lock does not lapse during a transaction (its ttl is 300
seconds).

## 8. Plan

Done: every component that keeps state which steps of two actors can disagree on,
except mq; proofs of every safety and action property of the runs, except
`DeployedAsDeclared`.

Next, in this order:

1. `DeployedAsDeclared` split: with the order of the apps and of the revisions as an
   operator that is only assumed to be one, the parts about hooks, runtimes, locks and gates
   could be proved, and only the two algorithms would stay with TLC.
2. `MessageBus`: the lazily opened connection and channel that concurrent callers
   of `RabbitMqClient` share, acknowledgement before the caller has the message, and what
   a publish says of an exchange without a queue.
3. Composition: `Scheduler` over `DatabaseLock`, `AccessAdmin` over `Permissions` with two
   dispatchers.

Abstract specifications still worth stating: an at-least-once task queue that
`TaskQueue` implements with one worker, and "a schedule is a set of slots, each
fired at most once" for `Scheduler`.

## 9. How to run it

    tlc -workers 2 -config MCOutbox.cfg MCOutbox
    tlapm OutboxProofs.tla

Each run of `PROJECT.json` names its module and its `.cfg`. The longest
(`outbox`, `infrastructure`, `platform`, `scheduler`, `dispatch`, `permissions`) take two to
four minutes each; the others about one or less.
