------------------------------- MODULE Quota --------------------------------
(***************************************************************************)
(* QuotaMutationGate (core/quotas/gate.py) over QuotaService and the two   *)
(* usage stores: clients that reserve an amount under several rules in     *)
(* turn, run a mutation, and release what they reserved when the mutation  *)
(* fails or, later, when the resource is given back.                       *)
(*                                                                         *)
(* Each operation of DatabaseQuotaUsageStore is a session of its own.      *)
(* reserve is a conditional UPDATE; release reads the row and writes it.   *)
(* The memory store runs without a suspension.                             *)
(***************************************************************************)
EXTENDS Integers, FiniteSets

CONSTANTS
  Clients,     \* callers of run_mutation, submit_task
  Amount,      \* what each reserves under every rule
  NRules,      \* the rules, in the order of the reservations
  Limit,       \* the limit of each rule
  Failing,     \* clients whose handler may raise
  Returning,   \* clients that give the resource back
  MaxCrashes   \* bound: crashes

Rules == 1..NRules

ASSUME QuotaAssumption ==
  /\ Amount \in [Clients -> Nat \ {0}]
  /\ NRules \in Nat \ {0}
  /\ Limit \in [Rules -> Nat]
  /\ Failing \subseteq Clients /\ Returning \subseteq Clients
  /\ MaxCrashes \in Nat

VARIABLES
  store,     \* the usage store that is wired in: "memory" or "database"
  rows,      \* rules that have a quota_usage row, some from the start
  used,      \* its `used'
  client,    \* where each client is: its rule, attempt and the row it has read
  booked,    \* history: rules whose usage was really raised for each client
  crashes,
  happened   \* history: whether a row was inserted, a release written to one

vars == <<store, rows, used, client, booked, crashes, happened>>

Phases == {"new", "update", "select", "insert", "readback", "refused", "handler", "holding",
           "release", "write", "done", "dead"}

\* rule: the current one; tried: attempts of reserve; read: `used' as read by release.
Client == [phase : Phases, rule : 0..NRules, tried : 0..2, read : Nat]

TypeOK ==
  /\ store \in {"memory", "database"}
  /\ rows \subseteq Rules
  /\ used \in [Rules -> Nat]
  /\ client \in [Clients -> Client]
  /\ booked \in [Clients -> SUBSET Rules]
  /\ crashes \in 0..MaxCrashes
  /\ happened \subseteq {"insert", "release"}

Init ==
  /\ store \in {"memory", "database"}
  /\ rows \in SUBSET Rules /\ (store = "memory" => rows = {})
  /\ used = [m \in Rules |-> 0]
  /\ client = [c \in Clients |-> [phase |-> "new", rule |-> 1, tried |-> 0, read |-> 0]]
  /\ booked = [c \in Clients |-> {}]
  /\ crashes = 0
  /\ happened = {}

\* Mutant: the limit may be passed by one.
Fits_OffByOne(c, m) == used[m] + Amount[c] <= Limit[m] + 1

Fits(c, m) == used[m] + Amount[c] <= Limit[m]

\* A reservation has been granted: the next rule, or the handler.
Granted(c) ==
  IF client[c].rule = NRules
  THEN client' = [client EXCEPT ![c].phase = "handler"]
  ELSE client' = [client EXCEPT ![c].phase = "new", ![c].rule = @ + 1, ![c].tried = 0]

\* The client releases from rule m down; there is nothing below the first.
ReleasesFrom(c, m) ==
  client' = [client EXCEPT ![c].rule = m, ![c].phase = IF m = 0 THEN "done" ELSE "release"]

Goes(c, phase) == client' = [client EXCEPT ![c].phase = phase]

Books(c, m) ==
  /\ rows' = rows \cup {m}
  /\ used' = [used EXCEPT ![m] = @ + Amount[c]]
  /\ booked' = [booked EXCEPT ![c] = @ \cup {m}]

-----------------------------------------------------------------------------
(* reserve                                                                  *)

\* MemoryQuotaUsageStore.reserve and the decision.
ReserveInMemory(c) ==
  /\ store = "memory"
  /\ client[c].phase = "new"
  /\ IF Fits(c, client[c].rule)
     THEN Books(c, client[c].rule) /\ Granted(c)
     ELSE ReleasesFrom(c, client[c].rule - 1) /\ UNCHANGED <<rows, used, booked>>
  /\ UNCHANGED <<crashes, happened>>

\* An amount over the limit is refused at once.
ReserveBegin(c) ==
  /\ store = "database"
  /\ client[c].phase = "new"
  /\ Goes(c, IF Amount[c] > Limit[client[c].rule] THEN "refused" ELSE "update")
  /\ UNCHANGED <<rows, used, booked, crashes, happened>>

\* UPDATE ... WHERE used + amount <= limit, and its commit.
TryUpdate(c) ==
  /\ client[c].phase = "update"
  /\ IF client[c].rule \in rows /\ Fits(c, client[c].rule)
     THEN Books(c, client[c].rule) /\ Goes(c, "readback")
     ELSE Goes(c, "select") /\ UNCHANGED <<rows, used, booked>>
  /\ UNCHANGED <<crashes, happened>>

Select(c) ==
  /\ client[c].phase = "select"
  /\ Goes(c, IF client[c].rule \in rows THEN "refused" ELSE "insert")
  /\ UNCHANGED <<rows, used, booked, crashes, happened>>

\* The first row of the key; another client's makes this one try the UPDATE again.
Insert(c) ==
  /\ client[c].phase = "insert"
  /\ IF client[c].rule \notin rows
     THEN Books(c, client[c].rule) /\ Granted(c) /\ happened' = happened \cup {"insert"}
     ELSE /\ client' = [client EXCEPT ![c].tried = @ + 1,
                                      ![c].phase = IF client[c].tried = 0
                                                   THEN "update" ELSE "refused"]
          /\ UNCHANGED <<rows, used, booked, happened>>
  /\ UNCHANGED crashes

\* get_usage after the commit: the decision is computed from what is there now.
ReadBack(c) ==
  /\ client[c].phase = "readback"
  /\ IF used[client[c].rule] <= Limit[client[c].rule]
     THEN Granted(c)
     ELSE ReleasesFrom(c, client[c].rule - 1)
  /\ UNCHANGED <<rows, used, booked, crashes, happened>>

\* Mutant: require_reserve does not look at the decision.
Decide_Ignored(c) ==
  /\ client[c].phase = "refused"
  /\ Granted(c)
  /\ UNCHANGED <<rows, used, booked, crashes, happened>>

\* reserve refused; the decision is computed from a later get_usage, and require_reserve
\* tests only the decision.
Decide(c) ==
  /\ client[c].phase = "refused"
  /\ IF Fits(c, client[c].rule)
     THEN Granted(c)
     ELSE ReleasesFrom(c, client[c].rule - 1)
  /\ UNCHANGED <<rows, used, booked, crashes, happened>>

-----------------------------------------------------------------------------
(* The mutation and release                                                 *)

HandlerSucceeds(c) ==
  /\ client[c].phase = "handler"
  /\ Goes(c, "holding")
  /\ UNCHANGED <<rows, used, booked, crashes, happened>>

\* Mutant: only the last reservation is released.
HandlerFails_LastOnly(c) ==
  /\ client[c].phase = "handler"
  /\ c \in Failing
  /\ ReleasesFrom(c, 1)
  /\ UNCHANGED <<rows, used, booked, crashes, happened>>

\* The handler raises: everything is released in reverse.
HandlerFails(c) ==
  /\ client[c].phase = "handler"
  /\ c \in Failing
  /\ ReleasesFrom(c, NRules)
  /\ UNCHANGED <<rows, used, booked, crashes, happened>>

\* QuotaMutationGate.release: the task has ended or the resource is gone.
GiveBack(c) ==
  /\ client[c].phase = "holding"
  /\ c \in Returning
  /\ ReleasesFrom(c, NRules)
  /\ UNCHANGED <<rows, used, booked, crashes, happened>>

Less(n, amount) == IF n < amount THEN 0 ELSE n - amount

\* `used' becomes n and the client's reservation under its rule ends.
Writes(c, n) ==
  LET m == client[c].rule IN
  /\ used' = [used EXCEPT ![m] = n]
  /\ booked' = [booked EXCEPT ![c] = @ \ {m}]
  /\ ReleasesFrom(c, m - 1)

\* Mutant: one unit is released, whatever was reserved.
ReleaseInMemory_One(c) ==
  /\ store = "memory"
  /\ client[c].phase = "release"
  /\ Writes(c, Less(used[client[c].rule], 1))
  /\ UNCHANGED <<rows, crashes, happened>>

ReleaseInMemory(c) ==
  /\ store = "memory"
  /\ client[c].phase = "release"
  /\ Writes(c, Less(used[client[c].rule], Amount[c]))
  /\ UNCHANGED <<rows, crashes, happened>>

\* DatabaseQuotaUsageStore.release reads the row ...
ReleaseRead(c) ==
  /\ store = "database"
  /\ client[c].phase = "release"
  /\ IF client[c].rule \in rows
     THEN client' = [client EXCEPT ![c].phase = "write", ![c].read = used[client[c].rule]]
     ELSE ReleasesFrom(c, client[c].rule - 1)
  /\ UNCHANGED <<rows, used, booked, crashes, happened>>

\* ... and writes what it computed from it.
ReleaseWrite(c) ==
  /\ client[c].phase = "write"
  /\ Writes(c, Less(client[c].read, Amount[c]))
  /\ happened' = happened \cup {"release"}
  /\ UNCHANGED <<rows, crashes>>

\* The process dies; the usage it has booked stays.
Crash(c) ==
  /\ client[c].phase \notin {"new", "done", "holding", "dead"}
  /\ crashes < MaxCrashes
  /\ crashes' = crashes + 1
  /\ Goes(c, "dead")
  /\ UNCHANGED <<rows, used, booked, happened>>

ClientStep(c) ==
  \/ ReserveInMemory(c) \/ ReserveBegin(c) \/ TryUpdate(c) \/ Select(c) \/ Insert(c)
  \/ ReadBack(c) \/ Decide(c)
  \/ HandlerSucceeds(c) \/ HandlerFails(c) \/ GiveBack(c)
  \/ ReleaseInMemory(c) \/ ReleaseRead(c) \/ ReleaseWrite(c) \/ Crash(c)

Next == UNCHANGED store /\ \E c \in Clients : ClientStep(c)

Spec == Init /\ [][Next]_vars

-----------------------------------------------------------------------------
\* Clients whose mutation has happened or is happening.
Consumers == {c \in Clients : client[c].phase \in {"handler", "holding"}}

(* The stored usage never exceeds the limit, whatever reservations and       *)
(* releases overwrite one another and whoever crashes.                       *)
UsedWithinLimit == \A m \in Rules : used[m] <= Limit[m]

(* A handler runs only with every reservation made ("任一 reservation 失败时  *)
(* 不会调用 handler").                                                       *)
HandlerIsBooked == \A c \in Clients : client[c].phase = "handler" => booked[c] = Rules

\* What the reservations under a rule that have not been released amount to.
Units(m) == UNION {{c} \X (1..Amount[c]) : c \in {c \in Clients : m \in booked[c]}}

(* Usage is the sum of the reservations that have not been released: none is *)
(* lost and none is left behind, however many rules were reserved before one *)
(* was refused.                                                              *)
UsageExact == \A m \in Rules : used[m] = Cardinality(Units(m))

(* A client that has given up or given back leaves nothing booked.           *)
NothingLeft == \A c \in Clients : client[c].phase = "done" => booked[c] = {}

(* Usage is exact until a release of the database store has overwritten a    *)
(* row: its read and its write lose what others do in between (README,       *)
(* divergences).  A handler runs booked until then, and until a row was      *)
(* inserted: who loses that race runs unbooked (MCQuotaGranted).  In the     *)
(* memory store both hold always, and nothing is left (_release_reversed).   *)
ExactlyBooked ==
  /\ store = "memory" \/ "release" \notin happened => UsageExact
  /\ store = "memory" \/ happened = {} => HandlerIsBooked
  /\ store = "memory" => NothingLeft
=============================================================================
