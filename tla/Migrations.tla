----------------------------- MODULE Migrations ------------------------------
(***************************************************************************)
(* core/migrations and the `core migrate' command: manifests are collected, *)
(* planned and gated, and the plan is executed by Alembic, in a thread,    *)
(* under the lock "migrations:apply" (registry.py, planner.py,             *)
(* preflight.py, runner.py, alembic_runner.py, cli/migrations.py).         *)
(*                                                                         *)
(* The lock is a provider with a ttl, one for all operators or one each    *)
(* (the command makes a MemoryLockProvider of its own).  Alembic and the   *)
(* database are external: an upgrade is one transaction that fails when    *)
(* somebody else has run one of its revisions since it began.              *)
(***************************************************************************)
EXTENDS Naturals, Sequences, FiniteSets, SequencesExt, FiniteSetsExt, Functions

CONSTANTS
  Migrators,        \* operators, each of whom runs one command at a time
  Releases,         \* sequences of apps, as an operator may have them installed
  AppDependencies,  \* AppModule.dependencies of a label
  Down,             \* the revisions an Alembic revision comes directly after
  Phases,           \* the values of --phase
  OneProvider,      \* one lock provider for all, or one each
  MaxCommands,      \* bound: commands run
  Null

VARIABLES
  applied,   \* the revisions in the database
  lock,      \* per provider, the entry of "migrations:apply", or Null
  proc,      \* the command each operator is running
  ran,       \* history: revisions in the order they ran, and on whose behalf
  commands

migrationVars == <<applied, lock, proc, ran, commands>>

Idle == [at |-> "idle", plan |-> <<>>, done |-> <<>>, whole |-> TRUE, backup |-> FALSE, planned |-> TRUE,
         known |-> {}, needs |-> {}, report |-> Null, orphan |-> FALSE, lapsed |-> FALSE]

ProviderOf(p) == IF OneProvider THEN "core_locks" ELSE p

Init ==
  /\ applied = {} /\ ran = <<>> /\ commands = 0
  /\ lock = [k \in {ProviderOf(p) : p \in Migrators} |-> Null]
  /\ proc = [p \in Migrators |-> Idle]

-----------------------------------------------------------------------------
(* What is to be run.                                                      *)

Keys(manifests) == {manifests[i].key : i \in DOMAIN manifests}
Distinct(manifests) == Cardinality(Keys(manifests)) = Len(manifests)

\* MigrationRegistry.from_app_registry: apps that declare no migrations,
\* entries of another label (left out) and duplicates are errors.
from_app_registry(apps) ==
  LET own(app) == SelectSeq(app.migrations, LAMBDA m : m.app = app.label)
      manifests == FlattenSeq([i \in DOMAIN apps |-> own(apps[i])])
  IN [manifests |-> manifests,
      ok |-> /\ \A i \in DOMAIN apps : apps[i].declares /\ own(apps[i]) = apps[i].migrations
             /\ Distinct(manifests)]

\* manifests_by_key: the last one with the key.
Manifest(manifests, key) ==
  manifests[Max({i \in DOMAIN manifests : manifests[i].key = key})]

\* The dependencies of a key: those its manifests name, and, when the app
\* registry is given, every migration of the apps its app depends on.
Graph(manifests, registry) ==
  [k \in Keys(manifests) |->
     {d \in Keys(manifests) :
        \E i \in DOMAIN manifests :
          /\ manifests[i].key = k
          /\ \/ d \in manifests[i].depends_on
             \/ registry /\ Manifest(manifests, d).app \in AppDependencies[manifests[i].app]}]

Sorted(keys) == SetToSortSeq(keys, <)

\* One visit: a key after its dependencies; a key on the path closes a cycle.
RECURSIVE visit(_, _, _, _)
visit(graph, key, path, found) ==
  IF Contains(found.ordered, key) THEN found
  ELSE IF Contains(path, key) THEN [found EXCEPT !.ok = FALSE]
  ELSE LET after == FoldLeft(LAMBDA sofar, d : visit(graph, d, Append(path, key), sofar),
                             found, Sorted(graph[key]))
       IN [after EXCEPT !.ordered = Append(@, key)]

\* Mutant: the keys in their own order.
plan_migrations_ByKey(manifests, registry, only) ==
  [ok |-> TRUE,
   migrations |-> SelectSeq([i \in DOMAIN Sorted(Keys(manifests)) |->
                               Manifest(manifests, Sorted(Keys(manifests))[i])],
                            LAMBDA m : only = "all" \/ m.phase = only)]

plan_migrations(manifests, registry, only) ==
  LET graph == Graph(manifests, registry)
      found == FoldLeft(LAMBDA sofar, key : visit(graph, key, <<>>, sofar),
                        [ordered |-> <<>>, ok |-> TRUE], Sorted(DOMAIN graph))
  IN [ok |-> /\ found.ok /\ Distinct(manifests)
             /\ \A i \in DOMAIN manifests : manifests[i].depends_on \subseteq Keys(manifests),
      migrations |-> SelectSeq([i \in DOMAIN found.ordered |-> Manifest(manifests, found.ordered[i])],
                               LAMBDA m : only = "all" \/ m.phase = only)]

NeedsBackup(m) == m.classification \in {"destructive", "requires_backup_restore"}

\* Mutant: the backup is asked of no migration.
run_preflight_NoBackup(manifests, backup_ready, only) ==
  LET plan == plan_migrations(manifests, FALSE, only)
  IN [ok |-> plan.ok /\ \A i \in DOMAIN plan.migrations : plan.migrations[i].valid, plan |-> plan.migrations]

\* run_preflight: without the app registry; only what is planned is validated.
run_preflight(manifests, backup_ready, only) ==
  LET plan == plan_migrations(manifests, FALSE, only)
  IN [ok |-> plan.ok /\ \A i \in DOMAIN plan.migrations :
                          /\ plan.migrations[i].valid
                          /\ NeedsBackup(plan.migrations[i]) => backup_ready,
      plan |-> plan.migrations]

-----------------------------------------------------------------------------
(* Alembic.                                                                *)

\* A revision with everything below it.
RECURSIVE Below(_)
Below(revision) == {revision} \union UNION {Below(d) : d \in Down[revision]}

Heads(revisions) == {r \in revisions : \A s \in revisions : r \notin Down[s]}

-----------------------------------------------------------------------------
(* The command, up to the lock.                                            *)

Says(ok, done) == [ok |-> ok, applied |-> done]

\* The report of `migrate run' is ok when its stages are; nobody reads an
\* orphan's.
Ends(p, ok, done) ==
  IF proc[p].orphan THEN Idle
  ELSE [Idle EXCEPT !.plan = proc[p].plan, !.report = Says(ok /\ proc[p].planned, done)]

\* `migrate apply' or `migrate run --apply', with an Alembic config and --yes.
\* The lock is not asked for what does not pass the gates.
apply(p) ==
  /\ proc[p].at = "idle" /\ commands < MaxCommands
  /\ commands' = commands + 1
  /\ \E apps \in Releases, only \in {"all"} \union Phases, backup_ready, run \in BOOLEAN :
       LET registry == from_app_registry(apps)
           gate == run_preflight(registry.manifests, backup_ready, only)
           planned == run => registry.ok /\ plan_migrations(registry.manifests, TRUE, only).ok
           begun == [Idle EXCEPT !.plan = gate.plan, !.whole = (only = "all"), !.backup = backup_ready,
                       !.planned = planned,
                       !.known = {registry.manifests[i].revision : i \in DOMAIN registry.manifests}]
       IN proc' = [proc EXCEPT ![p] =
                     IF registry.ok /\ gate.ok
                       THEN [begun EXCEPT !.at = "lock"]
                       ELSE [begun EXCEPT !.report = Says(FALSE, FALSE)]]
  /\ UNCHANGED <<applied, lock, ran>>

\* `migrate dry-run', `migrate run', and `migrate apply' without an Alembic
\* config, which is never ok.
dry_run(p) ==
  /\ proc[p].at = "idle" /\ commands < MaxCommands
  /\ commands' = commands + 1
  /\ \E apps \in Releases, backup_ready, executes \in BOOLEAN :
       LET registry == from_app_registry(apps)
           gate == run_preflight(registry.manifests, backup_ready, "all")
       IN proc' = [proc EXCEPT ![p] =
                     [Idle EXCEPT !.plan = gate.plan,
                                  !.report = Says(~executes /\ registry.ok /\ gate.ok, FALSE)]]
  /\ UNCHANGED <<applied, lock, ran>>

-----------------------------------------------------------------------------
(* The lock provider, for the one key.                                     *)

Working(p) == proc[p].at \in {"upgrade", "upgrading", "verify"}

\* An entry that has not expired; an expired one is purged where it is met.
Held(k) == lock[k] # Null /\ lock[k].live

require_acquire(p) ==
  LET k == ProviderOf(p) IN
  /\ proc[p].at = "lock"
  /\ IF Held(k)
       THEN proc' = [proc EXCEPT ![p] = Ends(p, FALSE, FALSE)] /\ UNCHANGED lock
       ELSE /\ lock' = [lock EXCEPT ![k] = [owner |-> p, live |-> TRUE]]
            /\ proc' = [proc EXCEPT ![p].at = "upgrade"]
  /\ UNCHANGED <<applied, ran, commands>>

\* Mutant: whoever releases empties the key.
Released_Anyones(p) == [lock EXCEPT ![ProviderOf(p)] = Null]

\* release: only the owner's entry.
Released(p) ==
  LET k == ProviderOf(p) IN
  [lock EXCEPT ![k] = IF Held(k) /\ @.owner # p THEN @ ELSE Null]

\* The finally clause of apply_migrations, which has run for an orphan.
Finally(p) == IF proc[p].orphan THEN lock ELSE Released(p)

\* The ttl of 300 seconds passes, whatever its owner is doing.
TtlPasses(k) ==
  /\ Held(k)
  /\ lock' = [lock EXCEPT ![k].live = FALSE]
  /\ proc' = [proc EXCEPT ![lock[k].owner].lapsed = Working(lock[k].owner)]
  /\ UNCHANGED <<applied, ran, commands>>

-----------------------------------------------------------------------------
(* AlembicMigrationExecutor._apply_sync, one migration after the other.    *)

Current(p) == proc[p].plan[Len(proc[p].done) + 1]

\* command.upgrade reads the heads, which it must know.
UpgradeBegins(p) ==
  /\ proc[p].at = "upgrade" /\ Len(proc[p].done) < Len(proc[p].plan)
  /\ applied \subseteq proc[p].known
  /\ Below(Current(p).revision) \subseteq proc[p].known
  /\ proc' = [proc EXCEPT ![p].at = "upgrading", ![p].needs = Below(Current(p).revision) \ applied]
  /\ UNCHANGED <<applied, lock, ran, commands>>

\* What runs with a revision: everything below it that is missing, with
\* what the plan, where it has the revision, says of it.
Steps(p) ==
  LET plan == ToSet(proc[p].plan)
      below(r) == Cardinality(Below(r))
      order == SetToSortSeq(proc[p].needs, LAMBDA r, s : below(r) < below(s))
      planned(r) == {m \in plan : m.revision = r}
  IN [i \in DOMAIN order |->
        [revision |-> order[i], whole |-> proc[p].whole,
         requires |-> {m.revision : m \in {d \in plan : \E n \in planned(order[i]) : d.key \in n.depends_on}},
         unbacked |-> ~proc[p].backup /\ \E n \in planned(order[i]) : NeedsBackup(n)]]

UpgradeCommits(p) ==
  /\ proc[p].at = "upgrading" /\ proc[p].needs \intersect applied = {}
  /\ applied' = applied \union proc[p].needs
  /\ ran' = ran \o Steps(p)
  /\ proc' = [proc EXCEPT ![p].at = "verify", ![p].needs = {}]
  /\ UNCHANGED <<lock, commands>>

\* Mutant: the executor goes on after a migration that failed.
Failing_GoesOn(p) == [proc[p] EXCEPT !.at = "upgrade", !.done = Append(@, Current(p).revision)]

\* The executor returns its error and the runner reports it.
Failing(p) == Ends(p, FALSE, FALSE)

\* A revision nobody knows, DDL that fails, another's upgrade in between, or
\* no connection to read the heads with.
UpgradeFails(p) ==
  /\ Working(p) /\ Len(proc[p].done) < Len(proc[p].plan)
  /\ proc' = [proc EXCEPT ![p] = Failing(p)]
  /\ lock' = IF proc'[p].at = "idle" THEN Finally(p) ELSE lock
  /\ UNCHANGED <<applied, ran, commands>>

\* _current_heads: the revision has to be one of them, not below one.
Verifies(p) ==
  /\ proc[p].at = "verify"
  /\ IF Current(p).revision \in Heads(applied)
       THEN /\ proc' = [proc EXCEPT ![p].at = "upgrade", ![p].done = Append(@, Current(p).revision)]
            /\ UNCHANGED lock
       ELSE /\ proc' = [proc EXCEPT ![p] = Ends(p, FALSE, FALSE)]
            /\ lock' = Finally(p)
  /\ UNCHANGED <<applied, ran, commands>>

-----------------------------------------------------------------------------
(* The end of apply_migrations.                                            *)

\* The executor returns what it has applied; an orphan's result is lost.
Returns(p) ==
  /\ proc[p].at = "upgrade" /\ Len(proc[p].done) = Len(proc[p].plan)
  /\ LET exact == proc[p].done = [i \in DOMAIN proc[p].plan |-> proc[p].plan[i].revision]
     IN proc' = [proc EXCEPT ![p] = Ends(p, exact, exact)]
  /\ lock' = Finally(p)
  /\ UNCHANGED <<applied, ran, commands>>

\* The awaiting task is cancelled: the lock is released at once, and the
\* thread upgrades on.
Cancelled(p) ==
  /\ Working(p) /\ ~proc[p].orphan
  /\ lock' = Finally(p)
  /\ proc' = [proc EXCEPT ![p].orphan = TRUE, ![p].lapsed = TRUE]
  /\ UNCHANGED <<applied, ran, commands>>

\* The process dies; the lock's entry stays until it expires, unless it died
\* with the process.
Crash(p) ==
  /\ proc[p].at # "idle"
  /\ proc' = [proc EXCEPT ![p] = Idle]
  /\ lock' = IF OneProvider THEN lock ELSE [lock EXCEPT ![p] = Null]
  /\ UNCHANGED <<applied, ran, commands>>

-----------------------------------------------------------------------------
MigratorStep(p) ==
  \/ apply(p) \/ dry_run(p) \/ require_acquire(p)
  \/ UpgradeBegins(p) \/ UpgradeCommits(p) \/ UpgradeFails(p) \/ Verifies(p)
  \/ Returns(p) \/ Cancelled(p) \/ Crash(p)

Next ==
  \/ \E p \in Migrators : MigratorStep(p)
  \/ \E k \in DOMAIN lock : TtlPasses(k)

-----------------------------------------------------------------------------
(* Two executors upgrade at once only when the lock of one of them expired  *)
(* or was given up by a cancelled task: nobody's release opens another's    *)
(* key (apply_migrations, release; with a shared provider).                 *)
OneExecutor ==
  OneProvider => \A p, q \in Migrators :
    p # q /\ Working(p) /\ Working(q) => proc[p].lapsed \/ proc[q].lapsed

(* applied = true is reported only of plans whose every revision is in the  *)
(* database (apply_migrations, dry_run_migration_metadata,                  *)
(* apply_migration_metadata).                                               *)
ReportedIsApplied ==
  \A p \in Migrators :
    proc[p].at = "idle" /\ proc[p].report # Null /\ proc[p].report.applied =>
      \A i \in DOMAIN proc[p].plan : proc[p].plan[i].revision \in applied

(* A revision runs after the revisions of its dependencies, across apps,    *)
(* whoever crashed before, unless --phase leaves them out                   *)
(* (plan_migrations).                                                       *)
DependenciesFirst ==
  \A i \in DOMAIN ran :
    ran[i].whole => ran[i].requires \subseteq {ran[j].revision : j \in 1 .. i - 1}

(* A planned migration that needs a backup runs only with one (what Alembic *)
(* takes along below a revision of another phase is not planned)            *)
(* (run_preflight).                                                         *)
BackupFirst == \A i \in DOMAIN ran : ~ran[i].unbacked
=============================================================================
