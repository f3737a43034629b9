----------------------------- MODULE AppStartup -----------------------------
(***************************************************************************)
(* How a process loads its installed apps and runs (core/apps: module.py,  *)
(* dependencies.py, conformance.py, registry.py; core/app: factory.py,     *)
(* lifecycle.py): conformance, load order, compatibility gates, the        *)
(* process-wide code and message registries, startup hooks, shutdown hooks *)
(* and the disposal of the runtimes.                                       *)
(*                                                                         *)
(* An app is a record; where its static checks look at files, signatures   *)
(* or routes only their verdict is kept ("conforms").  A process may call  *)
(* create_app again, with other apps, in the same interpreter.             *)
(***************************************************************************)
EXTENDS Naturals, Sequences, FiniteSets, SequencesExt, Functions

CONSTANTS
  Installations,  \* sequences of apps that settings.installed_apps may name
  Hooks,          \* lifecycle hooks of an app, per phase
  Core,           \* the error codes of the framework, with their meaning
  MaxCreations,   \* bound: create_app calls of a process
  Null

VARIABLES
  phase,       \* "new", "refused", "loaded", "assembled", "serving", "stopping", "closing", "closed"
  installed,   \* settings.installed_apps of this create_app
  modules,     \* app_registry.modules
  codes,       \* _ERROR_CODES, process-wide
  messages,    \* _DEFAULT_REGISTRY of messages, process-wide, one locale
  hooks,       \* history: lifecycle_diagnostics of this app
  runtimes,    \* the runtimes still to dispose of, in order
  creations

startVars == <<phase, installed, modules, codes, messages, hooks, runtimes, creations>>

Runtimes == <<"rabbitmq", "redis", "database">>

Init ==
  /\ phase = "new" /\ installed \in Installations
  /\ modules = <<>> /\ codes = Core /\ messages = Core
  /\ hooks = <<>> /\ runtimes = Runtimes /\ creations = 1

AppsOf(apps) == {apps[i] : i \in DOMAIN apps}
LabelsOf(apps) == {apps[i].label : i \in DOMAIN apps}
TheApp(apps, label) == apps[CHOOSE i \in DOMAIN apps : apps[i].label = label]

-----------------------------------------------------------------------------
(* validate_app_dependencies.                                              *)

\* One visit: an app follows its dependencies; a label on the path closes a cycle.
RECURSIVE visit(_, _, _, _)
visit(apps, label, path, found) ==
  IF Contains(found.ordered, label) THEN found
  ELSE IF Contains(path, label) THEN [found EXCEPT !.circular = TRUE]
  ELSE LET after == FoldLeft(LAMBDA sofar, dependency :
                               IF dependency \in LabelsOf(apps)
                                 THEN visit(apps, dependency, Append(path, label), sofar) ELSE sofar,
                             found, TheApp(apps, label).dependencies)
       IN [after EXCEPT !.ordered = Append(@, label)]

\* Mutant: an app comes before its dependencies.
_topological_order_Reversed(apps) ==
  LET found == FoldLeft(LAMBDA sofar, app : visit(apps, app.label, <<>>, sofar),
                        [ordered |-> <<>>, circular |-> FALSE], apps)
  IN [found EXCEPT !.ordered = Reverse(@)]

_topological_order(apps) ==
  FoldLeft(LAMBDA sofar, app : visit(apps, app.label, <<>>, sofar),
           [ordered |-> <<>>, circular |-> FALSE], apps)

DuplicateLabels(apps) == \E i, j \in DOMAIN apps : i # j /\ apps[i].label = apps[j].label

MissingDependencies(apps) ==
  \E app \in AppsOf(apps) : \E i \in DOMAIN app.dependencies : app.dependencies[i] \notin LabelsOf(apps)

\* The order, or Null when there are errors.
validate_app_dependencies(apps) ==
  IF DuplicateLabels(apps) \/ MissingDependencies(apps) \/ _topological_order(apps).circular
    THEN Null ELSE _topological_order(apps).ordered

-----------------------------------------------------------------------------
(* The checks of one app, and between apps.                                *)

\* importlib.import_module, validate_app_module.
ValidModule(app) ==
  /\ app.imports
  /\ ~Contains(app.dependencies, app.label)

\* _check_error_code_metadata, _check_message_catalog_metadata: every code
\* of an app has a message, and every message a code (excluded_codes are
\* left out).
MessagesComplete(app) == DOMAIN app.messages = {} \/ DOMAIN app.messages = DOMAIN app.codes

\* Mutant: the codes of the apps are not compared.
CodesDistinct_Unchecked(apps) == TRUE

\* _check_duplicate_app_error_codes, _error_code_gate_errors.
CodesDistinct(apps) ==
  \A a, b \in AppsOf(apps) : a.label # b.label => DOMAIN a.codes \intersect DOMAIN b.codes = {}

check_app(app) == ValidModule(app) /\ app.conforms /\ MessagesComplete(app)

check_apps(apps) ==
  /\ \A app \in AppsOf(apps) : check_app(app)
  /\ validate_app_dependencies(apps) # Null
  /\ CodesDistinct(apps)

\* AppRegistry._compatibility_errors.
Compatible(apps) ==
  /\ \A app \in AppsOf(apps) : app.compatible /\ MessagesComplete(app)
  /\ CodesDistinct(apps)

-----------------------------------------------------------------------------
(* Registration, in load order, in registries that outlive the app.        *)

\* Another entry is under one of the keys.
Clashes(registry, entries) == \E k \in DOMAIN registry \intersect DOMAIN entries : registry[k] # entries[k]

With(registry, entries) ==
  [k \in DOMAIN registry \union DOMAIN entries |-> IF k \in DOMAIN entries THEN entries[k] ELSE registry[k]]

\* Mutant: replace=True.
register_error_codes_Replaces(apps) ==
  [ok |-> TRUE, registry |-> FoldLeft(LAMBDA sofar, app : With(sofar, app.codes), codes, apps)]

\* All or nothing.
register_error_codes(apps) ==
  IF \E app \in AppsOf(apps) : Clashes(codes, app.codes)
    THEN [ok |-> FALSE, registry |-> codes]
    ELSE [ok |-> TRUE, registry |-> FoldLeft(LAMBDA sofar, app : With(sofar, app.codes), codes, apps)]

\* One catalog after the other, up to the first that clashes.
register_message_catalogs(apps) ==
  FoldLeft(LAMBDA sofar, app :
             IF ~sofar.ok \/ Clashes(sofar.registry, app.messages)
               THEN [sofar EXCEPT !.ok = FALSE]
               ELSE [ok |-> TRUE, registry |-> With(sofar.registry, app.messages)],
           [ok |-> TRUE, registry |-> messages], apps)

-----------------------------------------------------------------------------
(* create_app.                                                             *)

Refuses ==
  /\ phase' = "refused"
  /\ UNCHANGED <<installed, modules, hooks, runtimes, creations>>

\* _validate_installed_apps, and load() up to the registration.
Gates(apps) == check_apps(apps) /\ Compatible(apps)

RefusesApps ==
  /\ phase = "new" /\ ~Gates(installed)
  /\ Refuses /\ UNCHANGED <<codes, messages>>

\* load: the codes, then the messages.
load ==
  /\ phase = "new" /\ Gates(installed)
  /\ LET order == [i \in DOMAIN installed |-> TheApp(installed, validate_app_dependencies(installed)[i])]
         coded == register_error_codes(order)
         worded == register_message_catalogs(order)
     IN /\ codes' = coded.registry
        /\ messages' = IF coded.ok THEN worded.registry ELSE messages
        /\ IF coded.ok /\ worded.ok
             THEN /\ modules' = order /\ phase' = "loaded"
                  /\ UNCHANGED <<installed, hooks, runtimes, creations>>
             ELSE Refuses

\* _import_app_models, _assemble_app_runtime_registries, the routers, the
\* request security pipeline: any may refuse a declaration.
Assembles ==
  /\ phase = "loaded" /\ phase' = "assembled"
  /\ UNCHANGED <<installed, modules, codes, messages, hooks, runtimes, creations>>

RefusesDeclaration == phase = "loaded" /\ Refuses /\ UNCHANGED <<codes, messages>>

\* Another create_app of the interpreter, or none.
CreatesAgain ==
  /\ phase \in {"refused", "closed"} /\ creations < MaxCreations
  /\ creations' = creations + 1 /\ phase' = "new"
  /\ installed' \in Installations
  /\ modules' = <<>> /\ hooks' = <<>> /\ runtimes' = Runtimes
  /\ UNCHANGED <<codes, messages>>

-----------------------------------------------------------------------------
(* The lifespan: run_lifecycle_hooks.                                      *)

\* The hooks of a phase, in load order.
InOrder(when) ==
  FlattenSeq([i \in DOMAIN modules |->
    [n \in 1 .. Hooks[modules[i].label] |-> [app |-> modules[i].label, phase |-> when, hook |-> n]]])

\* Mutant: shutdown runs in load order.
Planned_Forward(when) == InOrder(when)

Planned(when) == IF when = "startup" THEN InOrder(when) ELSE Reverse(InOrder(when))

Ran(when) == SelectSeq(hooks, LAMBDA h : h.phase = when)

\* The next hook of the phase, which is awaited and succeeds or raises.
Hook(when, ok) ==
  LET done == Len(Ran(when))
  IN /\ done < Len(Planned(when))
     /\ LET hook == Planned(when)[done + 1]
        IN hooks' = Append(hooks, [app |-> hook.app, phase |-> when, hook |-> hook.hook, ok |-> ok])

Keeps == UNCHANGED <<installed, modules, codes, messages, creations>>

StartupHook ==
  /\ phase = "assembled" /\ Hook("startup", TRUE)
  /\ UNCHANGED <<phase, runtimes>> /\ Keeps

\* The inner try is not entered: no shutdown hook runs.
StartupHookFails ==
  /\ phase = "assembled" /\ Hook("startup", FALSE)
  /\ phase' = "closing" /\ UNCHANGED runtimes /\ Keeps

Serves ==
  /\ phase = "assembled" /\ Len(Ran("startup")) = Len(Planned("startup"))
  /\ phase' = "serving" /\ UNCHANGED <<hooks, runtimes>> /\ Keeps

Stops == phase = "serving" /\ phase' = "stopping" /\ UNCHANGED <<hooks, runtimes>> /\ Keeps

ShutdownHook ==
  /\ phase = "stopping" /\ Hook("shutdown", TRUE)
  /\ UNCHANGED <<phase, runtimes>> /\ Keeps

\* A failure, or the last hook done.
ShutdownEnds ==
  /\ phase = "stopping" /\ phase' = "closing"
  /\ \/ Hook("shutdown", FALSE)
     \/ Len(Ran("shutdown")) = Len(Planned("shutdown")) /\ UNCHANGED hooks
  /\ UNCHANGED runtimes /\ Keeps

\* dispose of the next runtime.
Disposes ==
  /\ phase = "closing" /\ runtimes # <<>>
  /\ runtimes' = Tail(runtimes)
  /\ UNCHANGED <<phase, hooks>> /\ Keeps

\* All are disposed of, or one raised and the rest are left.
Closes ==
  /\ phase = "closing" /\ phase' = "closed"
  /\ UNCHANGED <<hooks, runtimes>> /\ Keeps

Next ==
  \/ RefusesApps \/ load \/ Assembles \/ RefusesDeclaration \/ CreatesAgain
  \/ StartupHook \/ StartupHookFails \/ Serves \/ Stops
  \/ ShutdownHook \/ ShutdownEnds \/ Disposes \/ Closes

-----------------------------------------------------------------------------
DependsOn(a, b) == Contains(TheApp(modules, a).dependencies, b)

(* The installed apps are loaded exactly when they can be started one      *)
(* after the other: every app is there once with everything it depends on, *)
(* and no set of apps waits for itself (dependencies.py against that       *)
(* reference); and they are loaded dependencies first.                     *)
Startable(apps) ==
  /\ Cardinality(LabelsOf(apps)) = Len(apps)
  /\ \A waiting \in SUBSET LabelsOf(apps) :
       waiting # {} => \E a \in waiting : \A d \in Range(TheApp(apps, a).dependencies) :
                         d \in LabelsOf(apps) \ waiting

LoadedAsDeclared ==
  /\ validate_app_dependencies(installed) # Null <=> Startable(installed)
  /\ modules # <<>> =>
       /\ AppsOf(modules) = AppsOf(installed)
       /\ \A i, j \in DOMAIN modules : DependsOn(modules[i].label, modules[j].label) => j < i

(* A hook runs when all that it rests on runs: startup after every startup *)
(* hook of the dependencies, shutdown before any shutdown hook of them and *)
(* only when everything had started, and neither after a runtime is        *)
(* disposed of (docs/modules/core-app-runtime.md line 39).                 *)
HooksNested ==
  \A i \in DOMAIN hooks :
    /\ Len(runtimes) < Len(Runtimes) => phase \in {"closing", "closed"}
    /\ \A d \in {d \in LabelsOf(modules) : DependsOn(hooks[i].app, d)} :
         IF hooks[i].phase = "startup"
           THEN Cardinality({j \in 1 .. i : hooks[j].app = d /\ hooks[j].ok}) = Hooks[d]
           ELSE \A j \in 1 .. i : ~(hooks[j].app = d /\ hooks[j].phase = "shutdown")
    /\ hooks[i].phase = "shutdown" =>
         \A a \in LabelsOf(modules) :
           Cardinality({j \in DOMAIN hooks : hooks[j].app = a /\ hooks[j].phase = "startup" /\ hooks[j].ok})
             = Hooks[a]

(* What an app that runs declared is what the process answers with: no     *)
(* other app, and nothing left by an earlier create_app, has its codes or  *)
(* messages; the framework's own are never replaced.                       *)
DeclaredIsServed ==
  /\ \A k \in DOMAIN Core : codes[k] = Core[k] /\ messages[k] = Core[k]
  /\ modules # <<>> => \A app \in AppsOf(modules) :
                         /\ \A k \in DOMAIN app.codes : codes[k] = app.codes[k]
                         /\ \A k \in DOMAIN app.messages : messages[k] = app.messages[k]
=============================================================================
