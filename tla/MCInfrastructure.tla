-------------------------- MODULE MCInfrastructure --------------------------
(* Infrastructure for TLC, and beside it AppStartup and                     *)
(* Migrations: three clients on one lock_key, requests that record, cache   *)
(* and are limited.  The setting of a behaviour, chosen in its initial      *)
(* state, says what moves; where it names no constants of its own, the      *)
(* components have those of the configuration.                              *)
EXTENDS Infrastructure, Sequences, TLC

CONSTANTS c1, c2, c3,          \* clients of the lock
          a1, a2, a3,          \* requests that record
          e1, e2,              \* exports
          t1,                  \* a retention run
          m1, m2               \* operators who migrate

VARIABLES setting,
          phase, installed, modules, codes, messages, hooks, runtimes, creations,
          applied, lock, proc, ran, commands

\* Every caller passes a token of its own (the default is a fresh uuid4).
MCOwnerToken == [c \in {c1, c2, c3} |-> c]

Redis == INSTANCE RedisLock WITH pc <- step, handle <- lease, Ttl <- 1, MaxTime <- 3, MaxTokens <- 3

-----------------------------------------------------------------------------
Auditors == {a1, a2, a3, e1, e2, t1}

\* Of the configuration: one process; each record is the first statement of
\* its transaction and its last record.
MCProcessOf == [r \in Auditors |-> 1]

\* Two processes, with a lock provider.
Shared == INSTANCE Audit WITH Exporters <- {},
            ProcessOf <- [r \in Auditors |-> IF r = a3 THEN 2 ELSE 1], Provider <- TRUE

\* Records late in transactions that make two, retention, an export.
Late == INSTANCE Audit WITH Recorders <- {a1, a2}, Exporters <- {e1}, Retainers <- {t1},
          Provider <- FALSE, EarlyStart <- TRUE, PerRequest <- 2

\* The same with two exports and nothing else.
Exports == INSTANCE Audit WITH Recorders <- {a1}, Exporters <- {e1, e2},
             Provider <- FALSE, EarlyStart <- TRUE, PerRequest <- 2, ExportIds <- {1, 2}

\* A table of up to three rows with any links and hashes, as a reader of the
\* database may find it, is verified and exported.
AnyLog ==
  {{[id |-> i, hash |-> f[i].hash, prev |-> f[i].prev, intact |-> f[i].intact, created |-> 1] :
      i \in DOMAIN f} :
    f \in UNION {[1 .. n -> [hash : 1 .. n, prev : {Nobody} \union (1 .. n), intact : BOOLEAN]] :
                   n \in 1 .. 3}}

-----------------------------------------------------------------------------
CacheMemory == INSTANCE PermissionCache WITH Requests <- Callers, Ttl <- CacheTtl, Null <- Nobody

CacheRedis == INSTANCE PermissionCache WITH Requests <- Callers, Provider <- "redis",
                Ttl <- CacheTtl, MaxTime <- 3, Null <- Nobody

-----------------------------------------------------------------------------
\* Requests 1 and 2 are of one user, 3 of another, 4 is of none.
Users == <<"a", "a", "b", Nobody>>

A_Limiter(provider, sliding, fail_closed, limit) ==
  [provider |-> provider, sliding |-> sliding, fail_closed |-> fail_closed, limit |-> limit, window |-> 2]

LimiterOf ==
  [fixed |-> A_Limiter("memory", FALSE, TRUE, 1), slides |-> A_Limiter("memory", TRUE, TRUE, 2)]
  @@ "redis fixed" :> A_Limiter("redis", FALSE, TRUE, 1)
  @@ "redis slides" :> A_Limiter("redis", TRUE, FALSE, 1)

MCLimiters == {LimiterOf[kind] : kind \in DOMAIN LimiterOf}

\* Of the configuration: fixed windows in memory.
Slides == INSTANCE RateLimit WITH Requests <- {1, 3}, MaxTime <- 5, MaxCalls <- 6,
            log <- decisions, Null <- Nobody

RedisFixed == INSTANCE RateLimit WITH Requests <- {1, 2}, MaxTime <- 3, MaxCalls <- 3,
                log <- decisions, Null <- Nobody

RedisSlides == INSTANCE RateLimit WITH Requests <- {1, 2}, MaxTime <- 2, MaxCalls <- 3,
                 log <- decisions, Null <- Nobody

-----------------------------------------------------------------------------
App(label, dependencies) ==
  [label |-> label, imports |-> TRUE, dependencies |-> dependencies, conforms |-> TRUE,
   compatible |-> TRUE, codes |-> <<>>, messages |-> <<>>]

UpTo(n) == UNION {[1 .. m -> {"a", "b", "c", "gone"}] : m \in 0 .. n}

\* Up to three apps with any dependencies, one of them not installed.
Graphs ==
  {<<>>}
  \union {<<App("a", d)>> : d \in UpTo(1)}
  \union {<<App("a", d), App(label, e)>> : label \in {"a", "b"}, d \in UpTo(1), e \in UpTo(1)}
  \union {<<App("c", d), App("a", e), App("b", f)>> : d \in UpTo(2), e \in UpTo(1), f \in UpTo(2)}

\* One or two apps with codes and messages, twice in one process.
Declaring(label) ==
  {[App(label, <<>>) EXCEPT !.imports = verdict # 1, !.conforms = verdict # 2, !.compatible = verdict # 3,
                            !.codes = c, !.messages = m] :
     verdict \in {0}, c \in {<<>>} \union [{"code"} -> {1, 2}] \union [{"core"} -> {0, 1}],
     m \in {<<>>} \union [{"code"} -> {1, 2}]}
  \union {[App(label, <<>>) EXCEPT !.imports = verdict # 1, !.conforms = verdict # 2,
                                   !.compatible = verdict # 3] : verdict \in 1 .. 3}
Declarations ==
  {<<app>> : app \in Declaring("a")} \union {<<a, b>> : a \in Declaring("a"), b \in Declaring("b")}

CoreCodes == [code \in {"core"} |-> 0]
HooksOf == [label \in {"a", "b", "c"} |-> IF label = "a" THEN 2 ELSE 1]

GraphStart == INSTANCE AppStartup WITH Installations <- Graphs, MaxCreations <- 1,
                Core <- CoreCodes, Hooks <- HooksOf, Null <- Nobody

TwoStarts == INSTANCE AppStartup WITH Installations <- Declarations, MaxCreations <- 2,
               Core <- CoreCodes, Hooks <- HooksOf, Null <- Nobody

-----------------------------------------------------------------------------
Manifest(app, number, revision, kind, depends_on) ==
  [app |-> app, key |-> number, revision |-> revision, phase |-> IF kind = "destructive" THEN "contract" ELSE "expand",
   classification |-> kind, depends_on |-> depends_on, valid |-> TRUE]

A1 == Manifest("a", 11, "a1", "reversible", {})
A2 == Manifest("a", 12, "a2", "destructive", {11})
A3 == Manifest("a", 13, "a3", "reversible", {12, 21})
B1 == Manifest("b", 21, "b1", "forward_only", {11})

Migrating(label, migrations) == [label |-> label, declares |-> TRUE, migrations |-> migrations]

\* A release of one app and the next.
TwoReleases == {<<Migrating("a", <<A1>>)>>, <<Migrating("a", <<A1, A2>>)>>}

\* Two apps, two releases; and duplicate, misplaced, missing, circular,
\* invalid and undeclared migrations.
AnyRelease ==
  {<<Migrating("a", <<A1>>), Migrating("b", <<B1>>)>>,
   <<Migrating("a", <<A1, A2, A3>>), Migrating("b", <<B1>>)>>,
   <<Migrating("a", <<A1, A1>>)>>, <<Migrating("a", <<B1>>)>>, <<Migrating("b", <<B1>>)>>,
   <<Migrating("a", <<[A1 EXCEPT !.depends_on = {21}]>>), Migrating("b", <<B1>>)>>,
   <<Migrating("a", <<[A1 EXCEPT !.valid = FALSE]>>)>>,
   <<[Migrating("a", <<A1>>) EXCEPT !.declares = FALSE]>>}

DownOf == [r \in {"a1", "a2", "a3", "b1"} |->
             IF r = "a2" THEN {"a1"} ELSE IF r = "a3" THEN {"a2"} ELSE {}]
AppDependenciesOf == [l \in {"a", "b"} |-> IF l = "a" THEN {"b"} ELSE {}]

\* One lock provider for all; then one each, a phase and more releases.
Together == INSTANCE Migrations WITH Migrators <- {m1, m2}, Releases <- TwoReleases,
              AppDependencies <- AppDependenciesOf, Down <- DownOf, Phases <- {},
              OneProvider <- TRUE, MaxCommands <- 3, Null <- Nobody

InPhases == INSTANCE Migrations WITH Migrators <- {m1, m2}, Releases <- AnyRelease,
              AppDependencies <- AppDependenciesOf, Down <- DownOf, Phases <- {"contract"},
              OneProvider <- FALSE, MaxCommands <- 2, Null <- Nobody

-----------------------------------------------------------------------------
databaseVars == <<row, pc, at, handle>>
redisVars == <<counter, key, step, fencing, tries, lease>>
auditVars == <<log, clock, locks, chain, exports, files, txs, plain>>
cacheVars == <<allows, versions, entry, writer, lookups, changes, revoked_at>>
rateVars == <<limiter, counters, calls, decisions, raced>>
startVars == <<phase, installed, modules, codes, messages, hooks, runtimes, creations>>
migrationVars == <<applied, lock, proc, ran, commands>>
allVars ==
  <<setting, now, databaseVars, redisVars, auditVars, cacheVars, rateVars, startVars, migrationVars>>

MCInit ==
  /\ setting \in {"database", "redis", "first", "shared", "late", "exports", "any log",
                  "cache", "cache in redis", "fixed", "slides", "redis fixed", "redis slides",
                  "graph", "two starts", "migrations", "phases"}
  /\ Init /\ Redis!Init
  /\ L!Init /\ limiter = LimiterOf[IF setting \in DOMAIN LimiterOf THEN setting ELSE "fixed"]
  /\ CASE setting = "shared" -> Shared!Init
       [] setting = "late" -> Late!Init
       [] setting = "exports" -> Exports!Init
       [] OTHER -> A!InitWith(IF setting = "any log" THEN AnyLog ELSE {{}})
  /\ CASE setting = "graph" -> GraphStart!Init
       [] setting = "two starts" -> TwoStarts!Init
       [] OTHER -> TwoStarts!Init /\ installed = <<App("a", <<>>)>>
  /\ IF setting = "phases" THEN InPhases!Init ELSE Together!Init
  /\ CacheMemory!Init /\ (setting \notin {"cache", "cache in redis"} => allows)

AuditNext ==
  \/ setting = "first" /\ A!Next
  \/ setting = "shared" /\ Shared!Next
  \/ setting = "late" /\ Late!Next
  \/ setting = "exports" /\ Exports!Next
  \/ setting = "any log" /\ A!RequestStep(e1)

CacheNext ==
  \/ setting = "cache" /\ CacheMemory!Next
  \/ setting = "cache in redis" /\ CacheRedis!Next

RateNext ==
  \/ setting = "fixed" /\ L!Next
  \/ setting = "slides" /\ Slides!Next
  \/ setting = "redis fixed" /\ RedisFixed!Next
  \/ setting = "redis slides" /\ RedisSlides!Next

StartNext ==
  \/ setting = "graph" /\ GraphStart!Next
  \/ setting = "two starts" /\ TwoStarts!Next

MigrationNext ==
  \/ setting = "migrations" /\ Together!Next
  \/ setting = "phases" /\ InPhases!Next

MCNext ==
  /\ UNCHANGED setting
  /\ \/ /\ setting = "database" /\ Next
        /\ UNCHANGED <<redisVars, auditVars, cacheVars, rateVars, startVars, migrationVars>>
     \/ /\ setting = "redis" /\ Redis!Next
        /\ UNCHANGED <<databaseVars, auditVars, cacheVars, rateVars, startVars, migrationVars>>
     \/ /\ AuditNext
        /\ UNCHANGED <<now, databaseVars, redisVars, cacheVars, rateVars, startVars, migrationVars>>
     \/ CacheNext /\ UNCHANGED <<databaseVars, redisVars, auditVars, rateVars, startVars, migrationVars>>
     \/ RateNext /\ UNCHANGED <<databaseVars, redisVars, auditVars, cacheVars, startVars, migrationVars>>
     \/ /\ StartNext
        /\ UNCHANGED <<now, databaseVars, redisVars, auditVars, cacheVars, rateVars, migrationVars>>
     \/ /\ MigrationNext
        /\ UNCHANGED <<now, databaseVars, redisVars, auditVars, cacheVars, rateVars, startVars>>

MCSpec == MCInit /\ [][MCNext]_allVars

Symmetry == Permutations({c1, c2, c3})

-----------------------------------------------------------------------------
(* A release is put to work as declared: apps load in order, their hooks    *)
(* nest, and a process answers with their codes and messages (AppStartup);  *)
(* migrations run in order, gated, and reported for what they did, and two  *)
(* executors overlap only for cause (Migrations).                           *)
DeployedAsDeclared ==
  /\ setting \in {"graph", "two starts"} =>
       TwoStarts!LoadedAsDeclared /\ TwoStarts!HooksNested /\ TwoStarts!DeclaredIsServed
  /\ setting = "migrations" => Together!OneExecutor
  /\ setting \in {"migrations", "phases"} =>
       Together!ReportedIsApplied /\ Together!DependenciesFirst /\ Together!BackupFirst
=============================================================================
