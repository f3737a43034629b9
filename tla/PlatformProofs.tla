---------------------------- MODULE PlatformProofs ----------------------------
(* What the services under the platform promise whatever is interleaved:    *)
(* usage within the limits and booked before the work (Quota), settings     *)
(* whose revisions explain them (Settings), files that are stored and       *)
(* counted (Files), routes that serve whom they should                      *)
(* (RouteAuthorization), rows of tenants that stay apart (TenantIsolation), *)
(* a first administrator who can act (AccessAdmin) and access maps that can *)
(* be cached (FrontendAccess), for any requests, tenants, limits, templates *)
(* and expressions.                                                         *)
EXTENDS PlatformServices, FiniteSetTheorems, SequenceTheorems, WellFoundedInduction, TLAPS

(* The instances count as this module does.                                  *)
LEMMA SameCardinality ==
  \A X : S!Cardinality(X) = Cardinality(X) /\ F!Cardinality(X) = Cardinality(X)
BY DEF S!Cardinality, F!Cardinality, Cardinality

-----------------------------------------------------------------------------
(* Quotas                                                                   *)

(* The row a reservation may create fits, and what a release has read fitted. *)
Sound ==
  \A c \in Clients :
    /\ client[c].phase \in {"new", "update", "select", "insert", "readback", "refused",
                            "release", "write"} => client[c].rule \in Rules
    /\ client[c].phase \in {"update", "select", "insert"} => Amount[c] <= Limit[client[c].rule]
    /\ client[c].phase \in {"new", "update", "select", "insert"} => client[c].tried <= 1
    /\ client[c].phase = "write" => /\ client[c].read <= Limit[client[c].rule]
                                    /\ client[c].rule \in rows

(* A rule without a row has no usage.                                       *)
NoRowNoUsage == \A m \in Rules : m \notin rows => used[m] = 0

Inv == TypeOK /\ Sound /\ NoRowNoUsage /\ UsedWithinLimit

(* Setting a field of a client keeps it a client.                           *)
LEMMA ClientUpdates ==
  ASSUME NEW x \in Client
  PROVE  /\ \A ph \in Phases : [x EXCEPT !.phase = ph] \in Client
         /\ \A m \in 0..NRules : [x EXCEPT !.rule = m] \in Client
         /\ \A n \in 0..2 : [x EXCEPT !.tried = n] \in Client
         /\ \A n \in Nat : [x EXCEPT !.read = n] \in Client
BY DEF Client

(* One client moves and the others stay: what a step owes to the invariant. *)
LEMMA OneMoves ==
  ASSUME Inv, NEW c \in Clients, NEW x \in Client, client' = [client EXCEPT ![c] = x],
         rows \subseteq rows', rows' \subseteq Rules, used' \in [Rules -> Nat],
         booked' \in [Clients -> SUBSET Rules], crashes' \in 0..MaxCrashes,
         store' \in {"memory", "database"}, happened' \subseteq {"insert", "release"},
         \A m \in Rules : used'[m] <= Limit[m] /\ (m \notin rows' => used'[m] = 0),
         x.phase \in {"new", "update", "select", "insert", "readback", "refused",
                      "release", "write"} => x.rule \in Rules,
         x.phase \in {"update", "select", "insert"} => Amount[c] <= Limit[x.rule],
         x.phase \in {"new", "update", "select", "insert"} => x.tried <= 1,
         x.phase = "write" => x.read <= Limit[x.rule] /\ x.rule \in rows
  PROVE  Inv'
<1>1. /\ client \in [Clients -> Client]
      /\ client'[c] = x
      /\ \A d \in Clients : d # c => client'[d] = client[d]
  BY DEF Inv, TypeOK
<1>2. client' \in [Clients -> Client]
  BY <1>1
<1>3. Sound'
  BY <1>1 DEF Inv, Sound
<1> QED
  BY <1>2, <1>3 DEF Inv, TypeOK, NoRowNoUsage, UsedWithinLimit

(* Moving to another phase.                                                  *)
LEMMA GoesMoves ==
  ASSUME NEW c \in Clients, NEW ph \in Phases, Goes(c, ph), client \in [Clients -> Client]
  PROVE  \E x \in Client : /\ client' = [client EXCEPT ![c] = x]
                           /\ x.phase = ph /\ x.rule = client[c].rule
                           /\ x.read = client[c].read /\ x.tried = client[c].tried
<1> DEFINE x == [client[c] EXCEPT !.phase = ph]
<1>1. client[c] \in Client
  OBVIOUS
<1>2. /\ x \in Client /\ x.phase = ph /\ x.rule = client[c].rule
      /\ x.read = client[c].read /\ x.tried = client[c].tried
  BY <1>1, ClientUpdates DEF Client
<1>3. client' = [client EXCEPT ![c] = x]
  BY DEF Goes
<1> HIDE DEF x
<1> QED
  BY <1>2, <1>3

(* Releasing downwards from a rule.                                          *)
LEMMA ReleasesMoves ==
  ASSUME NEW c \in Clients, NEW m \in 0..NRules, ReleasesFrom(c, m), client \in [Clients -> Client]
  PROVE  \E x \in Client : /\ client' = [client EXCEPT ![c] = x]
                           /\ x.phase \in {"done", "release"}
                           /\ x.phase = "release" => m # 0
                           /\ x.phase = "done" => m = 0
                           /\ x.rule = m
<1> DEFINE x1 == [client[c] EXCEPT !.rule = m]
           ph == IF m = 0 THEN "done" ELSE "release"
           x == [x1 EXCEPT !.phase = ph]
<1>1. x1 \in Client /\ x1.rule = m
  BY ClientUpdates DEF Client
<1>2. ph \in Phases
  BY DEF Phases
<1>3. client' = [client EXCEPT ![c] = x]
  BY DEF ReleasesFrom
<1>4. x \in Client /\ x.phase = ph /\ x.rule = m
  <2> HIDE DEF x1, ph
  <2> QED
    BY <1>1, <1>2, ClientUpdates DEF Client
<1> HIDE DEF x1, x
<1> QED
  BY <1>3, <1>4

(* After a granted reservation: the next rule or the handler.               *)
LEMMA GrantedMoves ==
  ASSUME NEW c \in Clients, Granted(c), client \in [Clients -> Client], client[c].rule \in Rules
  PROVE  \E x \in Client : /\ client' = [client EXCEPT ![c] = x]
                           /\ x.phase \in {"new", "handler"}
                           /\ x.phase = "new" => x.rule \in Rules /\ x.tried = 0
                           /\ x.phase = "new" => x.rule = client[c].rule + 1
                           /\ x.phase = "handler" => client[c].rule = NRules
<1>0. client[c] \in Client /\ "handler" \in Phases /\ "new" \in Phases
  BY DEF Phases
<1>1. CASE client[c].rule = NRules
  <2> DEFINE x == [client[c] EXCEPT !.phase = "handler"]
  <2>1. x \in Client
    BY <1>0, ClientUpdates
  <2>0. x.phase = "handler"
    BY <1>0 DEF Client
  <2>2. client' = [client EXCEPT ![c] = x]
    BY <1>1 DEF Granted
  <2> HIDE DEF x
  <2> QED
    BY <1>1, <2>0, <2>1, <2>2
<1>2. CASE client[c].rule # NRules
  <2> DEFINE x1 == [client[c] EXCEPT !.phase = "new"]
             m == client[c].rule + 1
             x2 == [x1 EXCEPT !.rule = m]
             x == [x2 EXCEPT !.tried = 0]
  <2>1. x1 \in Client
    BY <1>0, ClientUpdates
  <2>6. x1.phase = "new" /\ x1.rule = client[c].rule
    BY <1>0 DEF Client
  <2>2. m \in Rules /\ m \in 0..NRules
    BY <1>2, QuotaAssumption DEF Rules
  <2>3. client' = [client EXCEPT ![c] = x]
    BY <1>0, <1>2 DEF Granted, Client
  <2>7. m = client[c].rule + 1
    OBVIOUS
  <2> HIDE DEF x1, m
  <2>4. x2 \in Client /\ x2.phase = "new" /\ x2.rule = m
    BY <2>1, <2>2, <2>6, ClientUpdates DEF Client
  <2> HIDE DEF x2
  <2>5. x \in Client /\ x.phase = "new" /\ x.rule = m /\ x.tried = 0
    BY <2>4, ClientUpdates DEF Client
  <2> HIDE DEF x
  <2> QED
    BY <2>2, <2>3, <2>5, <2>7
<1> QED
  BY <1>1, <1>2

(* Types, and what a reservation or release under way relies on.             *)
THEOREM QuotaInvariant == Spec => []Inv
<1>1. Init => Inv
  <2> SUFFICES ASSUME Init PROVE Inv
    OBVIOUS
  <2> DEFINE x == [phase |-> "new", rule |-> 1, tried |-> 0, read |-> 0]
  <2>1. x \in Client /\ 1 \in Rules
    BY QuotaAssumption DEF Client, Phases, Rules
  <2>2. \A c \in Clients : client[c] = x
    BY DEF Init
  <2>3. client \in [Clients -> Client]
    BY <2>1 DEF Init
  <2>4. TypeOK
    BY <2>3, QuotaAssumption DEF Init, TypeOK
  <2>5. Sound
    BY <2>1, <2>2 DEF Sound
  <2>6. UsedWithinLimit /\ NoRowNoUsage
    BY QuotaAssumption DEF Init, UsedWithinLimit, NoRowNoUsage
  <2> QED
    BY <2>4, <2>5, <2>6 DEF Inv
<1>2. Inv /\ [Next]_vars => Inv'
  <2> SUFFICES ASSUME Inv, [Next]_vars PROVE Inv'
    OBVIOUS
  <2>0. /\ rows \subseteq Rules /\ used \in [Rules -> Nat] /\ client \in [Clients -> Client]
        /\ booked \in [Clients -> SUBSET Rules] /\ crashes \in 0..MaxCrashes
        /\ MaxCrashes \in Nat
        /\ \A k \in Rules : /\ used[k] <= Limit[k] /\ Limit[k] \in Nat /\ used[k] \in Nat
                            /\ k \notin rows => used[k] = 0
    BY QuotaAssumption DEF Inv, TypeOK, UsedWithinLimit, NoRowNoUsage
  <2>p. {"update", "refused", "readback", "select", "insert", "holding", "write", "dead"}
          \subseteq Phases
    BY DEF Phases
  <2>r. \A m \in Rules : m \in 0..NRules /\ m - 1 \in 0..NRules /\ (m - 1 # 0 => m - 1 \in Rules)
    BY QuotaAssumption DEF Rules
  <2>n. NRules \in 0..NRules /\ NRules \in Rules
    BY QuotaAssumption DEF Rules
  <2>1. CASE UNCHANGED vars
    BY <2>1 DEF vars, Inv, TypeOK, Sound, NoRowNoUsage, UsedWithinLimit
  <2> SUFFICES ASSUME UNCHANGED store, NEW c \in Clients, ClientStep(c) PROVE Inv'
    BY <2>1 DEF Next
  <2>s. store' \in {"memory", "database"} /\ happened' \subseteq {"insert", "release"}
    <3>1. \/ UNCHANGED happened
          \/ happened' = happened \cup {"insert"} \/ happened' = happened \cup {"release"}
      BY DEF ClientStep, ReserveInMemory, ReserveBegin, TryUpdate, Select, Insert, ReadBack, Decide,
             HandlerSucceeds, HandlerFails, GiveBack, ReleaseInMemory, ReleaseRead, ReleaseWrite, Crash
    <3> QED
      BY <3>1 DEF Inv, TypeOK
  <2> DEFINE m == client[c].rule
  <2>c. /\ client[c] \in Client /\ Amount[c] \in Nat
        /\ client[c].phase \in {"new", "update", "select", "insert", "readback", "refused",
                                "release", "write"} => m \in Rules
        /\ client[c].phase \in {"update", "select", "insert"} => Amount[c] <= Limit[m]
        /\ client[c].phase \in {"new", "update", "select", "insert"} => client[c].tried <= 1
        /\ client[c].phase = "write" => client[c].read <= Limit[m] /\ m \in rows
    BY <2>0, QuotaAssumption DEF Inv, Sound
  <2> DEFINE Fine == /\ rows \subseteq rows' /\ rows' \subseteq Rules
                     /\ used' \in [Rules -> Nat] /\ booked' \in [Clients -> SUBSET Rules]
                     /\ \A k \in Rules : used'[k] <= Limit[k] /\ (k \notin rows' => used'[k] = 0)
  (* What a refusal, a granted reservation and a booking leave behind.      *)
  <2>rel. ASSUME NEW n \in 0..NRules, ReleasesFrom(c, n), n # 0 => n \in Rules,
                 UNCHANGED <<rows, used, booked, crashes>>
          PROVE  Inv'
    <3>1. PICK x \in Client : /\ client' = [client EXCEPT ![c] = x]
                              /\ x.phase \in {"done", "release"}
                              /\ x.phase = "release" => n # 0
                              /\ x.rule = n
      BY <2>rel, <2>0, ReleasesMoves
    <3> QED
      BY <2>rel, <2>0, <3>1, <2>s, OneMoves
  <2>bk. ASSUME m \in Rules, Books(c, m), used[m] + Amount[c] <= Limit[m]
         PROVE  Fine
    BY <2>bk, <2>0, <2>c DEF Books
  <2>un. ASSUME UNCHANGED <<rows, used, booked>> PROVE Fine
    BY <2>un, <2>0
  <2>gr. ASSUME m \in Rules, Granted(c), Fine, UNCHANGED crashes
         PROVE  Inv'
    <3>1. PICK x \in Client : /\ client' = [client EXCEPT ![c] = x]
                              /\ x.phase \in {"new", "handler"}
                              /\ x.phase = "new" => x.rule \in Rules /\ x.tried = 0
      BY <2>gr, <2>0, GrantedMoves
    <3>2. /\ x.phase \in {"new", "update", "select", "insert", "readback", "refused",
                         "release", "write"} => x.rule \in Rules
          /\ ~(x.phase \in {"update", "select", "insert"}) /\ x.phase # "write"
          /\ x.phase \in {"new", "update", "select", "insert"} => x.tried <= 1
      BY <3>1
    <3>3. crashes' \in 0..MaxCrashes
      BY <2>gr, <2>0
    <3> QED
      BY <2>gr, <3>1, <3>2, <3>3, <2>s, OneMoves
  <2>go. ASSUME NEW ph \in Phases, Goes(c, ph),
                Fine, crashes' \in 0..MaxCrashes, ph # "write",
                ph \in {"new", "update", "select", "insert", "readback", "refused", "release"}
                  => m \in Rules,
                ph \in {"update", "select", "insert"} => Amount[c] <= Limit[m],
                ph \in {"new", "update", "select", "insert"} => client[c].tried <= 1
         PROVE  Inv'
    <3>1. PICK x \in Client : /\ client' = [client EXCEPT ![c] = x]
                              /\ x.phase = ph /\ x.rule = m
                              /\ x.read = client[c].read /\ x.tried = client[c].tried
      BY <2>go, <2>0, GoesMoves
    <3> QED
      BY <2>go, <2>0, <3>1, <2>s, OneMoves
  <2>wr. ASSUME NEW n \in Nat, m \in Rules, n <= Limit[m], m \notin rows => n = 0, Writes(c, n),
                UNCHANGED <<rows, crashes>>
         PROVE  Inv'
    <3>1. Fine
      BY <2>wr, <2>0 DEF Writes
    <3>3. /\ ReleasesFrom(c, m - 1) /\ m - 1 \in 0..NRules /\ (m - 1 # 0 => m - 1 \in Rules)
      BY <2>wr, <2>r DEF Writes
    <3>2. PICK x \in Client : /\ client' = [client EXCEPT ![c] = x]
                              /\ x.phase \in {"done", "release"}
                              /\ x.phase = "release" => m - 1 # 0
                              /\ x.rule = m - 1
      BY <3>3, <2>0, ReleasesMoves
    <3> QED
      BY <2>wr, <2>0, <3>1, <3>2, <3>3, <2>s, OneMoves
  <2>2. CASE ReserveInMemory(c)
    <3>1. CASE Fits(c, m)
      <4>1. m \in Rules /\ Books(c, m) /\ Granted(c) /\ UNCHANGED crashes
        BY <2>2, <3>1, <2>c DEF ReserveInMemory
      <4>2. Fine
        BY <3>1, <4>1, <2>bk DEF Fits
      <4> QED
        BY <4>1, <4>2, <2>gr
    <3>2. CASE ~Fits(c, m)
      BY <2>2, <3>2, <2>rel, <2>r, <2>c DEF ReserveInMemory
    <3> QED
      BY <3>1, <3>2
  <2>3. CASE ReserveBegin(c)
    <3>1. CASE Amount[c] > Limit[m]
      <4>1. Goes(c, "refused") /\ UNCHANGED <<rows, used, booked, crashes>> /\ m \in Rules
        BY <2>3, <3>1, <2>c DEF ReserveBegin
      <4>2. Fine
        BY <4>1, <2>un
      <4> QED
        BY <4>1, <4>2, <2>go, <2>0, <2>p
    <3>2. CASE ~(Amount[c] > Limit[m])
      <4>1. /\ Goes(c, "update") /\ UNCHANGED <<rows, used, booked, crashes>>
            /\ m \in Rules /\ Amount[c] <= Limit[m] /\ client[c].tried <= 1
        BY <2>3, <3>2, <2>c, <2>0 DEF ReserveBegin
      <4>2. Fine
        BY <4>1, <2>un
      <4> QED
        BY <4>1, <4>2, <2>go, <2>0, <2>p
    <3> QED
      BY <3>1, <3>2
  <2>4. CASE TryUpdate(c)
    <3>0. m \in Rules /\ Amount[c] <= Limit[m] /\ client[c].tried <= 1
      BY <2>4, <2>c DEF TryUpdate
    <3>1. CASE m \in rows /\ Fits(c, m)
      <4>1. Books(c, m) /\ Goes(c, "readback") /\ UNCHANGED crashes /\ used[m] + Amount[c] <= Limit[m]
        BY <2>4, <3>1 DEF TryUpdate, Fits
      <4>2. Fine
        BY <3>0, <4>1, <2>bk
      <4> QED
        BY <3>0, <4>1, <4>2, <2>go, <2>0, <2>p
    <3>2. CASE ~(m \in rows /\ Fits(c, m))
      <4>1. Goes(c, "select") /\ UNCHANGED <<rows, used, booked, crashes>>
        BY <2>4, <3>2 DEF TryUpdate
      <4>2. Fine
        BY <4>1, <2>un
      <4> QED
        BY <3>0, <4>1, <4>2, <2>go, <2>0, <2>p
    <3> QED
      BY <3>1, <3>2
  <2>5. CASE Select(c)
    <3>1. /\ m \in Rules /\ Amount[c] <= Limit[m] /\ client[c].tried <= 1
          /\ UNCHANGED <<rows, used, booked, crashes>>
      BY <2>5, <2>c DEF Select
    <3>3. Fine
      BY <3>1, <2>un
    <3>2. Goes(c, "refused") \/ Goes(c, "insert")
      BY <2>5 DEF Select
    <3> QED
      BY <3>1, <3>2, <3>3, <2>go, <2>0, <2>p
  <2>6. CASE Insert(c)
    <3>0. /\ m \in Rules /\ Amount[c] <= Limit[m] /\ client[c].tried <= 1
          /\ client[c].phase = "insert" /\ UNCHANGED crashes
      BY <2>6, <2>c DEF Insert
    <3>1. CASE m \notin rows
      <4>1. Books(c, m) /\ Granted(c) /\ used[m] + Amount[c] <= Limit[m]
        BY <2>6, <3>0, <3>1, <2>0, <2>c DEF Insert
      <4>2. Fine
        BY <3>0, <4>1, <2>bk
      <4> QED
        BY <3>0, <4>1, <4>2, <2>gr
    <3>2. CASE m \in rows
      <4> DEFINE x1 == [client[c] EXCEPT !.tried = client[c].tried + 1]
                 ph == IF client[c].tried = 0 THEN "update" ELSE "refused"
                 x == [x1 EXCEPT !.phase = ph]
      <4>1. client[c].tried \in 0..1
        BY <3>0, <2>c DEF Client
      <4>9. client[c].tried + 1 \in 0..2
        BY <4>1
      <4>2. x1 \in Client
        BY <4>9, <2>c, ClientUpdates
      <4>3. x1.tried = client[c].tried + 1 /\ x1.rule = m
        BY <2>c DEF Client
      <4>4. ph \in Phases /\ ph \in {"update", "refused"} /\ (ph = "update" => client[c].tried = 0)
        BY DEF Phases
      <4>5. client' = [client EXCEPT ![c] = x] /\ UNCHANGED <<rows, used, booked>>
        BY <2>6, <3>2, <2>c DEF Insert, Client
      <4>6. Fine
        BY <4>5, <2>un
      <4> HIDE DEF x1, ph
      <4>7. x \in Client /\ x.phase = ph /\ x.rule = m /\ x.tried = client[c].tried + 1
        BY <4>2, <4>3, <4>4, ClientUpdates DEF Client
      <4> HIDE DEF x
      <4>8. x.phase \in {"update", "select", "insert", "new"} => x.tried <= 1
        BY <4>4, <4>7
      <4> QED
        BY <3>0, <4>4, <4>5, <4>6, <4>7, <4>8, <2>0, <2>s, OneMoves
    <3> QED
      BY <3>1, <3>2
  <2>7. ASSUME ReadBack(c) \/ Decide(c) PROVE Inv'
    <3>1. /\ m \in Rules /\ UNCHANGED <<rows, used, booked, crashes>>
          /\ Granted(c) \/ ReleasesFrom(c, m - 1)
      BY <2>7, <2>c DEF ReadBack, Decide
    <3>2. Fine
      BY <3>1, <2>un
    <3> QED
      BY <3>1, <3>2, <2>gr, <2>rel, <2>r
  <2>8. CASE HandlerSucceeds(c)
    <3>1. Goes(c, "holding") /\ UNCHANGED <<rows, used, booked, crashes>>
      BY <2>8 DEF HandlerSucceeds
    <3>2. Fine
      BY <3>1, <2>un
    <3> QED
      BY <3>1, <3>2, <2>go, <2>0, <2>p
  <2>9. ASSUME HandlerFails(c) \/ GiveBack(c) PROVE Inv'
    <3>1. ReleasesFrom(c, NRules) /\ UNCHANGED <<rows, used, booked, crashes>>
      BY <2>9 DEF HandlerFails, GiveBack
    <3> QED
      BY <3>1, <2>rel, <2>n
  <2>10. CASE ReleaseInMemory(c)
    <3>1. /\ m \in Rules /\ Writes(c, Less(used[m], Amount[c])) /\ UNCHANGED <<rows, crashes>>
      BY <2>10, <2>c DEF ReleaseInMemory
    <3>2. /\ Less(used[m], Amount[c]) \in Nat /\ Less(used[m], Amount[c]) <= Limit[m]
          /\ m \notin rows => Less(used[m], Amount[c]) = 0
      BY <3>1, <2>0, <2>c DEF Less
    <3> QED
      BY <3>1, <3>2, <2>wr
  <2>11. CASE ReleaseRead(c)
    <3>0. m \in Rules /\ UNCHANGED <<rows, used, booked, crashes>>
      BY <2>11, <2>c DEF ReleaseRead
    <3>1. CASE m \in rows
      <4> DEFINE x1 == [client[c] EXCEPT !.phase = "write"]
                 x == [x1 EXCEPT !.read = used[m]]
      <4>1. x1 \in Client
        BY <2>c, <2>p, ClientUpdates
      <4>2. x1.phase = "write" /\ x1.rule = m
        BY <2>c DEF Client
      <4>3. client' = [client EXCEPT ![c] = x]
        BY <2>11, <3>1, <2>c DEF ReleaseRead, Client
      <4> HIDE DEF x1
      <4>4. x \in Client /\ x.phase = "write" /\ x.rule = m /\ x.read = used[m]
        BY <4>1, <4>2, <3>0, <2>0, ClientUpdates DEF Client
      <4>5. Fine
        BY <3>0, <2>un
      <4> HIDE DEF x
      <4> QED
        BY <3>0, <3>1, <4>3, <4>4, <4>5, <2>0, <2>s, OneMoves
    <3>2. CASE m \notin rows
      BY <2>11, <3>0, <3>2, <2>rel, <2>r DEF ReleaseRead
    <3> QED
      BY <3>1, <3>2
  <2>12. CASE ReleaseWrite(c)
    <3>1. /\ m \in Rules /\ m \in rows /\ client[c].read <= Limit[m]
          /\ Writes(c, Less(client[c].read, Amount[c])) /\ UNCHANGED <<rows, crashes>>
      BY <2>12, <2>c DEF ReleaseWrite
    <3>2. client[c].read \in Nat
      BY <2>c DEF Client
    <3>3. Less(client[c].read, Amount[c]) \in Nat /\ Less(client[c].read, Amount[c]) <= Limit[m]
      BY <3>1, <3>2, <2>0, <2>c DEF Less
    <3> QED
      BY <3>1, <3>3, <2>wr
  <2>13. CASE Crash(c)
    <3>1. Goes(c, "dead") /\ UNCHANGED <<rows, used, booked>> /\ crashes' \in 0..MaxCrashes
      BY <2>13, <2>0 DEF Crash
    <3>2. Fine
      BY <3>1, <2>un
    <3> QED
      BY <3>1, <3>2, <2>go, <2>p
  <2> QED
    BY <2>2, <2>3, <2>4, <2>5, <2>6, <2>7, <2>8, <2>9, <2>10, <2>11, <2>12, <2>13 DEF ClientStep
<1> QED
  BY <1>1, <1>2, PTL DEF Spec

(* The stored usage never exceeds the limit of a rule.                       *)
THEOREM UsedStaysWithinLimit == Spec => []UsedWithinLimit
<1>1. Inv => UsedWithinLimit
  BY DEF Inv
<1> QED
  BY <1>1, QuotaInvariant, PTL


-----------------------------------------------------------------------------
(* Bookings                                                                 *)

\* What a client in state x has booked, at most and, unless a race was lost, exactly.
Ahead(x, b) ==
  /\ x.phase \in {"new", "update", "select", "insert", "refused"} => b \subseteq 1..(x.rule - 1)
  /\ x.phase = "readback" => b \subseteq 1..x.rule

Kept(x, b) ==
  /\ x.phase \in {"new", "update", "select", "insert", "refused"} => b = 1..(x.rule - 1)
  /\ x.phase \in {"readback", "release", "write"} => b = 1..x.rule
  /\ x.phase \in {"handler", "holding"} => b = Rules
  /\ x.phase = "done" => b = {}

\* What the database store has found for client c in state x still is so.
Found(c, x) ==
  /\ x.phase = "select" /\ x.rule \in rows => ~Fits(c, x.rule)
  /\ x.phase = "refused" => ~Fits(c, x.rule)
  /\ x.phase = "insert" => x.rule \notin rows

MemoryPhases == {"new", "handler", "holding", "release", "done", "dead"}

Undisputed == store = "memory" \/ happened = {}

Bookings ==
  /\ \A c \in Clients : /\ Ahead(client[c], booked[c]) /\ booked[c] \subseteq rows
                        /\ store = "memory" => client[c].phase \in MemoryPhases
  /\ Undisputed => \A c \in Clients : Kept(client[c], booked[c]) /\ Found(c, client[c])

(* What a step that moves client c to x, with b booked, owes to Bookings.    *)
LEMMA BookingMoves ==
  ASSUME Inv, Bookings, NEW c \in Clients, NEW x \in Client, client' = [client EXCEPT ![c] = x],
         NEW b, booked' = [booked EXCEPT ![c] = b], UNCHANGED store,
         rows \subseteq rows', b \subseteq rows', happened \subseteq happened',
         Ahead(x, b), store = "memory" => x.phase \in MemoryPhases,
         Undisputed' => Kept(x, b) /\ Found(c, x)',
         Undisputed' /\ store # "memory" => rows' = rows /\ \A m \in Rules : used'[m] >= used[m],
         used' \in [Rules -> Nat]
  PROVE  Bookings'
<1>1. /\ client'[c] = x /\ booked'[c] = b
      /\ \A d \in Clients \ {c} : client'[d] = client[d] /\ booked'[d] = booked[d]
  BY DEF Inv, TypeOK
<1>2. \A d \in Clients : /\ Ahead(client'[d], booked'[d]) /\ booked'[d] \subseteq rows'
                         /\ store' = "memory" => client'[d].phase \in MemoryPhases
  BY <1>1 DEF Bookings
<1>3. ASSUME Undisputed', NEW d \in Clients \ {c}
      PROVE  Kept(client'[d], booked'[d]) /\ Found(d, client[d])'
  <2>1. Undisputed
    BY <1>3 DEF Undisputed
  <2>2. Kept(client'[d], booked'[d]) /\ Found(d, client[d])
    BY <1>1, <2>1 DEF Bookings
  <2> PICK y \in Client : y = client[d]
    BY DEF Inv, TypeOK
  <2>3. /\ y.phase \in {"select", "refused", "insert"} => y.rule \in Rules
        /\ y.phase \in {"select", "refused", "insert"} => store # "memory"
    BY DEF Inv, Sound, Bookings, MemoryPhases
  <2>4. Amount[d] \in Nat /\ used \in [Rules -> Nat] /\ Limit \in [Rules -> Nat]
    BY QuotaAssumption DEF Inv, TypeOK
  <2>7. ASSUME y.rule \in Rules, store # "memory", ~(used[y.rule] + Amount[d] <= Limit[y.rule])
        PROVE  ~(used'[y.rule] + Amount[d] <= Limit[y.rule])
    <3>1. used'[y.rule] >= used[y.rule] /\ used'[y.rule] \in Nat /\ used[y.rule] \in Nat
          /\ Limit[y.rule] \in Nat
      BY <2>7, <1>3, <2>4
    <3> QED
      BY <2>4, <2>7, <3>1
  <2>5. Found(d, y)'
    BY <1>3, <2>2, <2>3, <2>7 DEF Found, Fits
  <2>6. client'[d] = y
    BY <1>1
  <2> QED
    BY <2>2, <2>5, <2>6 DEF Found, Fits
<1> QED
  BY <1>1, <1>2, <1>3 DEF Bookings, Found, Fits

LEMMA BookedSame ==
  ASSUME Inv, NEW c \in Clients, UNCHANGED booked
  PROVE  booked' = [booked EXCEPT ![c] = booked[c]]
BY DEF Inv, TypeOK

LEMMA BookedUpTo == \A m \in Nat \ {0} : 1..(m - 1) \cup {m} = 1..m /\ 1..m \ {m} = 1..(m - 1)
OBVIOUS

(* Moving to another phase with nothing booked or released.                  *)
LEMMA BookingGoes ==
  ASSUME Inv, Bookings, NEW c \in Clients, NEW ph \in Phases, Goes(c, ph),
         UNCHANGED <<store, rows, used, booked, happened>>,
         store = "memory" => ph \in MemoryPhases,
         \A x \in Client : x.phase = ph /\ x.rule = client[c].rule =>
           Ahead(x, booked[c]) /\ (Undisputed => Kept(x, booked[c]) /\ Found(c, x))
  PROVE  Bookings'
<1>1. PICK x \in Client : /\ client' = [client EXCEPT ![c] = x]
                          /\ x.phase = ph /\ x.rule = client[c].rule
  BY GoesMoves DEF Inv, TypeOK
<1>2. booked' = [booked EXCEPT ![c] = booked[c]]
  BY BookedSame
<1>3. Ahead(x, booked[c]) /\ booked[c] \subseteq rows
  BY <1>1 DEF Bookings
<1>4. Undisputed' => Kept(x, booked[c]) /\ Found(c, x)'
  BY <1>1 DEF Undisputed, Found, Fits
<1>5. /\ used' \in [Rules -> Nat]
      /\ Undisputed' /\ store # "memory" => rows' = rows /\ \A m \in Rules : used'[m] >= used[m]
  BY DEF Inv, TypeOK
<1> QED
  BY <1>1, <1>2, <1>3, <1>4, <1>5, BookingMoves

(* Releasing from rule m downwards, what is booked up to m.                   *)
LEMMA BookingReleases ==
  ASSUME Inv, Bookings, NEW c \in Clients, NEW m \in 0..NRules, ReleasesFrom(c, m),
         NEW b, booked' = [booked EXCEPT ![c] = b], b \subseteq rows,
         UNCHANGED <<store, rows>>, happened \subseteq happened', used' \in [Rules -> Nat],
         Undisputed' => b = 1..m,
         Undisputed' /\ store # "memory" => UNCHANGED used
  PROVE  Bookings'
<1>1. PICK x \in Client : /\ client' = [client EXCEPT ![c] = x]
                          /\ x.phase \in {"done", "release"}
                          /\ x.phase = "release" => m # 0
                          /\ x.phase = "done" => m = 0
                          /\ x.rule = m
  BY ReleasesMoves DEF Inv, TypeOK
<1>2. m = 0 => 1..m = {}
  OBVIOUS
<1>3. Undisputed' => Kept(x, b) /\ Found(c, x)'
  BY <1>1, <1>2 DEF Kept, Found
<1>4. Ahead(x, b) /\ x.phase \in MemoryPhases
  BY <1>1 DEF Ahead, MemoryPhases
<1>5. Undisputed' /\ store # "memory" => rows' = rows /\ \A k \in Rules : used'[k] >= used[k]
  BY DEF Inv, TypeOK
<1> QED
  BY <1>1, <1>3, <1>4, <1>5, BookingMoves

(* A reservation under the client's rule has been granted.                    *)
LEMMA BookingGranted ==
  ASSUME Inv, Bookings, NEW c \in Clients, NEW m \in Rules, m = client[c].rule, Granted(c),
         NEW b, booked' = [booked EXCEPT ![c] = b], b \subseteq rows',
         UNCHANGED store, rows \subseteq rows', happened \subseteq happened',
         used' \in [Rules -> Nat], b \subseteq 1..m,
         Undisputed' => b = 1..m,
         Undisputed' /\ store # "memory" => rows' = rows /\ UNCHANGED used
  PROVE  Bookings'
<1>1. PICK x \in Client : /\ client' = [client EXCEPT ![c] = x]
                          /\ x.phase \in {"new", "handler"}
                          /\ x.phase = "new" => x.rule = m + 1
                          /\ x.phase = "handler" => m = NRules
  BY GrantedMoves DEF Inv, TypeOK
<1>2. m \in Nat /\ (m = NRules => 1..m = Rules) /\ m + 1 - 1 = m
  BY DEF Rules
<1>3. Undisputed' => Kept(x, b) /\ Found(c, x)'
  BY <1>1, <1>2 DEF Kept, Found
<1>4. Ahead(x, b) /\ x.phase \in MemoryPhases
  BY <1>1, <1>2 DEF Ahead, MemoryPhases
<1>5. Undisputed' /\ store # "memory" => rows' = rows /\ \A k \in Rules : used'[k] >= used[k]
  BY DEF Inv, TypeOK
<1> QED
  BY <1>1, <1>3, <1>4, <1>5, BookingMoves

LEMMA BookingStep ==
  ASSUME Inv, Inv', Bookings, UNCHANGED store, NEW c \in Clients, ClientStep(c)
  PROVE  Bookings'
<1> PICK b : b = booked[c]
  OBVIOUS
<1> PICK y \in Client : y = client[c]
  BY DEF Inv, TypeOK
<1> PICK m : m = y.rule
  OBVIOUS
<1> USE DEF Undisputed
<1>0. /\ b \subseteq rows /\ Ahead(y, b) /\ (store = "memory" => y.phase \in MemoryPhases)
      /\ Undisputed => Kept(y, b) /\ Found(c, y)
      /\ y.phase \in {"new", "update", "select", "insert", "readback", "refused", "release", "write"}
           => m \in Rules
  BY DEF Bookings, Inv, Sound
<1>1. /\ store \in {"memory", "database"} /\ rows \subseteq Rules
      /\ used \in [Rules -> Nat] /\ used' \in [Rules -> Nat]
      /\ booked \in [Clients -> SUBSET Rules] /\ Amount[c] \in Nat \ {0}
      /\ \A k \in Rules : used[k] \in Nat /\ Limit[k] \in Nat
      /\ UNCHANGED booked => booked' = [booked EXCEPT ![c] = b]
  BY QuotaAssumption, BookedSame DEF Inv, TypeOK
<1>2. /\ \A k \in Rules : k \in Nat \ {0} /\ k - 1 \in 0..NRules
      /\ NRules \in 0..NRules /\ Rules = 1..NRules
  BY QuotaAssumption DEF Rules
<1>p. {"update", "refused", "readback", "select", "insert", "holding", "write", "dead"}
        \subseteq Phases
  BY DEF Phases
<1>3. ASSUME m \in Rules, Books(c, m)
      PROVE  /\ rows' = rows \cup {m} /\ booked' = [booked EXCEPT ![c] = b \cup {m}]
             /\ b \cup {m} \subseteq rows'
             /\ \A k \in Rules : used'[k] >= used[k]
  BY <1>0, <1>1, <1>3 DEF Books
<1>4. ASSUME m \in Rules
      PROVE  /\ b \subseteq 1..(m - 1) => b \cup {m} \subseteq 1..m /\ m \notin b
             /\ b = 1..(m - 1) => b \cup {m} = 1..m
             /\ b = 1..m => b \ {m} = 1..(m - 1)
  <2>1. m \in Nat \ {0}
    BY <1>2, <1>4
  <2>2. 1..(m - 1) \cup {m} = 1..m /\ 1..m \ {m} = 1..(m - 1)
    BY <2>1, BookedUpTo
  <2>3. m \notin 1..(m - 1)
    BY <2>1
  <2>4. b \subseteq 1..(m - 1) => b \cup {m} \subseteq 1..m /\ m \notin b
    BY <2>2, <2>3
  <2>5. b = 1..(m - 1) => b \cup {m} = 1..m
    BY <2>2
  <2>6. b = 1..m => b \ {m} = 1..(m - 1)
    BY <2>2
  <2> QED
    BY <2>4, <2>5, <2>6
<1>h. happened \subseteq happened' => (Undisputed' => Undisputed)
  OBVIOUS
<1>5. CASE ReserveInMemory(c)
  <2>0. /\ m \in Rules /\ y.phase = "new" /\ store = "memory" /\ UNCHANGED happened
        /\ b = 1..(m - 1)
    BY <1>0, <1>5 DEF ReserveInMemory, Kept
  <2>1. CASE Fits(c, m)
    <3>1. Books(c, m) /\ Granted(c)
      BY <1>5, <2>1 DEF ReserveInMemory
    <3> PICK b1 : b1 = b \cup {m}
      OBVIOUS
    <3>2. b1 = 1..m /\ b1 \subseteq rows' /\ booked' = [booked EXCEPT ![c] = b1] /\ rows \subseteq rows'
      BY <2>0, <3>1, <1>3, <1>4
    <3> QED
      BY <2>0, <3>1, <3>2, <1>1, <1>h, BookingGranted
  <2>2. CASE ~Fits(c, m)
    <3>1. ReleasesFrom(c, m - 1) /\ UNCHANGED <<rows, used, booked>>
      BY <1>5, <2>2 DEF ReserveInMemory
    <3> QED
      BY <2>0, <3>1, <1>0, <1>1, <1>2, <1>h, BookingReleases
  <2> QED
    BY <2>1, <2>2
<1>6. CASE ReserveBegin(c)
  <2>0. /\ m \in Rules /\ y.phase = "new" /\ store = "database"
        /\ UNCHANGED <<rows, used, booked, happened>>
        /\ Goes(c, "update") \/ (Goes(c, "refused") /\ Amount[c] > Limit[m])
    BY <1>0, <1>6 DEF ReserveBegin
  <2>1. Amount[c] > Limit[m] => ~Fits(c, m)
    <3>1. used[m] \in Nat /\ Amount[c] \in Nat /\ Limit[m] \in Nat
      BY <2>0, <1>1
    <3> QED
      BY <3>1 DEF Fits
  <2>2. ASSUME NEW ph \in {"update", "refused"}, ph = "refused" => ~Fits(c, m),
               NEW x \in Client, x.phase = ph, x.rule = m
        PROVE  Ahead(x, b) /\ (Undisputed => Kept(x, b) /\ Found(c, x))
    BY <2>0, <2>2, <1>0 DEF Ahead, Kept, Found
  <2> QED
    BY <2>0, <2>1, <2>2, <1>p, BookingGoes
<1>7. CASE TryUpdate(c)
  <2>0. /\ m \in Rules /\ y.phase = "update" /\ store # "memory" /\ UNCHANGED happened
        /\ b \subseteq 1..(m - 1) /\ (Undisputed => b = 1..(m - 1))
    BY <1>0, <1>7 DEF TryUpdate, Ahead, Kept, MemoryPhases
  <2>1. CASE m \in rows /\ Fits(c, m)
    <3>1. Books(c, m) /\ Goes(c, "readback")
      BY <1>7, <2>1 DEF TryUpdate
    <3>2. PICK x \in Client : /\ client' = [client EXCEPT ![c] = x]
                              /\ x.phase = "readback" /\ x.rule = m
      BY <3>1, <1>p, GoesMoves DEF Inv, TypeOK
    <3> PICK b1 : b1 = b \cup {m}
      OBVIOUS
    <3>6. /\ b1 \subseteq rows' /\ booked' = [booked EXCEPT ![c] = b1] /\ rows' = rows \cup {m}
          /\ \A k \in Rules : used'[k] >= used[k]
      BY <2>0, <3>1, <1>3
    <3>3. /\ b1 \subseteq rows' /\ booked' = [booked EXCEPT ![c] = b1] /\ rows' = rows
          /\ \A k \in Rules : used'[k] >= used[k]
      BY <2>1, <3>6
    <3>5. b1 \subseteq 1..m /\ (Undisputed => b1 = 1..m)
      BY <2>0, <1>4
    <3>4. Ahead(x, b1) /\ (Undisputed' => Kept(x, b1) /\ Found(c, x)')
      BY <2>0, <3>2, <3>5 DEF Ahead, Kept, Found
    <3> QED
      BY <2>0, <3>2, <3>3, <3>4, <1>1, BookingMoves
  <2>2. CASE ~(m \in rows /\ Fits(c, m))
    <3>1. Goes(c, "select") /\ UNCHANGED <<rows, used, booked>>
      BY <1>7, <2>2 DEF TryUpdate
    <3>2. \A x \in Client : x.phase = "select" /\ x.rule = m =>
            Ahead(x, b) /\ (Undisputed => Kept(x, b) /\ Found(c, x))
      BY <2>0, <2>2 DEF Ahead, Kept, Found
    <3> QED
      BY <2>0, <3>1, <3>2, <1>p, BookingGoes
  <2> QED
    BY <2>1, <2>2
<1>8. CASE Select(c)
  <2>0. /\ m \in Rules /\ y.phase = "select" /\ store # "memory"
        /\ UNCHANGED <<rows, used, booked, happened>>
        /\ b \subseteq 1..(m - 1) /\ (Undisputed => b = 1..(m - 1) /\ (m \in rows => ~Fits(c, m)))
        /\ (Goes(c, "refused") /\ m \in rows) \/ (Goes(c, "insert") /\ m \notin rows)
    BY <1>0, <1>8 DEF Select, Ahead, Kept, Found, MemoryPhases
  <2>2. ASSUME NEW ph \in {"insert", "refused"}, ph = "refused" <=> m \in rows,
               NEW x \in Client, x.phase = ph, x.rule = m
        PROVE  Ahead(x, b) /\ (Undisputed => Kept(x, b) /\ Found(c, x))
    BY <2>0, <2>2 DEF Ahead, Kept, Found
  <2> QED
    BY <2>0, <2>2, <1>p, BookingGoes
<1>9. CASE Insert(c)
  <2>0. /\ m \in Rules /\ y.phase = "insert" /\ store # "memory"
        /\ b \subseteq 1..(m - 1) /\ (Undisputed => m \notin rows)
    BY <1>0, <1>9 DEF Insert, Ahead, Found, MemoryPhases
  <2>1. CASE m \notin rows
    <3>1. Books(c, m) /\ Granted(c) /\ happened' = happened \cup {"insert"}
      BY <1>9, <2>1 DEF Insert
    <3>4. ~Undisputed'
      BY <2>0, <3>1
    <3> PICK b1 : b1 = b \cup {m}
      OBVIOUS
    <3>2. /\ b1 \subseteq 1..m /\ b1 \subseteq rows' /\ booked' = [booked EXCEPT ![c] = b1]
          /\ rows \subseteq rows'
      BY <2>0, <3>1, <1>3, <1>4
    <3> QED
      BY <2>0, <3>1, <3>2, <3>4, <1>1, <1>h, BookingGranted
  <2>2. CASE m \in rows
    <3>1. /\ client' = [client EXCEPT ![c].tried = @ + 1,
                                      ![c].phase = IF client[c].tried = 0 THEN "update" ELSE "refused"]
          /\ UNCHANGED <<rows, used, booked, happened>>
      BY <1>9, <2>2 DEF Insert
    <3>2. PICK x \in Client : x = client'[c]
      BY DEF Inv, TypeOK
    <3>3. /\ client' = [client EXCEPT ![c] = x]
          /\ x.phase \in {"update", "refused"} /\ x.rule = m
      BY <3>1, <3>2 DEF Inv, TypeOK, Client
    <3>4. Ahead(x, b) /\ ~Undisputed'
      BY <2>0, <2>2, <3>1, <3>3 DEF Ahead
    <3> QED
      BY <2>0, <3>1, <3>3, <3>4, <1>0, <1>1, <1>h, BookingMoves
  <2> QED
    BY <2>1, <2>2
<1>10. CASE ReadBack(c)
  <2>0. /\ m \in Rules /\ y.phase = "readback"
        /\ UNCHANGED <<rows, used, booked, happened>> /\ used[m] <= Limit[m]
        /\ b \subseteq 1..m /\ (Undisputed => b = 1..m)
    BY <1>0, <1>10 DEF ReadBack, Ahead, Kept, Inv, UsedWithinLimit
  <2>1. Granted(c)
    BY <2>0, <1>10 DEF ReadBack
  <2> QED
    BY <2>0, <2>1, <1>0, <1>1, <1>h, BookingGranted
<1>11. CASE Decide(c)
  <2>0. /\ m \in Rules /\ y.phase = "refused"
        /\ UNCHANGED <<rows, used, booked, happened>>
        /\ b \subseteq 1..(m - 1) /\ (Undisputed => b = 1..(m - 1) /\ ~Fits(c, m))
        /\ (Granted(c) /\ Fits(c, m)) \/ ReleasesFrom(c, m - 1)
    BY <1>0, <1>11 DEF Decide, Ahead, Kept, Found
  <2>1. CASE Granted(c) /\ Fits(c, m)
    <3>1. b \subseteq 1..m
      BY <2>0, <1>2, BookedUpTo
    <3> QED
      BY <2>0, <2>1, <3>1, <1>0, <1>1, <1>h, BookingGranted
  <2>2. CASE ReleasesFrom(c, m - 1)
    BY <2>0, <2>2, <1>0, <1>1, <1>2, <1>h, BookingReleases
  <2> QED
    BY <2>0, <2>1, <2>2
<1>12. ASSUME NEW ph \in {"holding", "dead"}, Goes(c, ph), UNCHANGED <<rows, used, booked, happened>>,
              ph = "holding" => y.phase = "handler"
       PROVE  Bookings'
  <2>1. /\ ph \in MemoryPhases
        /\ \A x \in Client : x.phase = ph /\ x.rule = m =>
             Ahead(x, b) /\ (Undisputed => Kept(x, b) /\ Found(c, x))
    BY <1>0, <1>12 DEF Ahead, Kept, Found, MemoryPhases
  <2> QED
    BY <2>1, <1>12, <1>p, BookingGoes
<1>13. CASE HandlerSucceeds(c)
  BY <1>12, <1>13 DEF HandlerSucceeds
<1>14. CASE Crash(c)
  BY <1>12, <1>14 DEF Crash
<1>15. CASE HandlerFails(c) \/ GiveBack(c)
  <2>1. /\ ReleasesFrom(c, NRules) /\ UNCHANGED <<rows, used, booked, happened>>
        /\ y.phase \in {"handler", "holding"}
    BY <1>15 DEF HandlerFails, GiveBack
  <2>2. Undisputed => b = 1..NRules
    BY <2>1, <1>0, <1>2 DEF Kept
  <2> QED
    BY <2>1, <2>2, <1>0, <1>1, <1>2, <1>h, BookingReleases
<1>16. CASE ReleaseInMemory(c) \/ ReleaseWrite(c)
  <2>1. /\ m \in Rules /\ y.phase \in {"release", "write"} /\ UNCHANGED rows
        /\ booked' = [booked EXCEPT ![c] = b \ {m}] /\ ReleasesFrom(c, m - 1)
        /\ happened \subseteq happened' /\ (store = "memory" \/ "release" \in happened')
    BY <1>16, <1>0 DEF ReleaseInMemory, ReleaseWrite, Writes
  <2>2. Undisputed' => b \ {m} = 1..(m - 1) /\ store = "memory"
    BY <2>1, <1>0, <1>4 DEF Kept
  <2>3. b \ {m} \subseteq rows
    BY <1>0
  <2> QED
    BY <2>1, <2>2, <2>3, <1>1, <1>2, BookingReleases
<1>17. CASE ReleaseRead(c)
  <2>0. /\ m \in Rules /\ y.phase = "release" /\ store # "memory"
        /\ UNCHANGED <<rows, used, booked, happened>> /\ (Undisputed => b = 1..m)
    BY <1>0, <1>17 DEF ReleaseRead, Kept
  <2>1. CASE m \in rows
    <3>1. client' = [client EXCEPT ![c].phase = "write", ![c].read = used[m]]
      BY <1>17, <2>1 DEF ReleaseRead
    <3>2. PICK x \in Client : x = client'[c]
      BY DEF Inv, TypeOK
    <3>3. /\ client' = [client EXCEPT ![c] = x]
          /\ x.phase = "write" /\ x.rule = m
      BY <3>1, <3>2 DEF Inv, TypeOK, Client
    <3>4. Ahead(x, b) /\ (Undisputed' => Kept(x, b) /\ Found(c, x)')
      BY <2>0, <3>3 DEF Ahead, Kept, Found
    <3>5. \A k \in Rules : used'[k] >= used[k]
      BY <2>0, <1>1
    <3> QED
      BY <2>0, <3>3, <3>4, <3>5, <1>0, <1>1, BookingMoves
  <2>2. CASE m \notin rows
    <3>1. ReleasesFrom(c, m - 1)
      BY <1>17, <2>2 DEF ReleaseRead
    <3>2. ~Undisputed
      BY <2>0, <2>2, <1>0, <1>2
    <3> QED
      BY <2>0, <3>1, <3>2, <1>0, <1>1, <1>2, <1>h, BookingReleases
  <2> QED
    BY <2>1, <2>2
<1> QED
  BY <1>5, <1>6, <1>7, <1>8, <1>9, <1>10, <1>11, <1>13, <1>14, <1>15, <1>16, <1>17 DEF ClientStep

-----------------------------------------------------------------------------
(* Usage                                                                    *)

(* The units of one client under a rule.                                     *)
LEMMA OwnUnits ==
  ASSUME NEW c, NEW n \in Nat
  PROVE  IsFiniteSet({c} \X (1..n)) /\ Cardinality({c} \X (1..n)) = n
<1>1. IsFiniteSet({c}) /\ Cardinality({c}) = 1
  BY FS_Singleton
<1>2. IsFiniteSet(1..n) /\ Cardinality(1..n) = n
  BY FS_Interval
<1>3. /\ IsFiniteSet({c} \X (1..n))
      /\ Cardinality({c} \X (1..n)) = Cardinality({c}) * Cardinality(1..n)
  BY <1>1, <1>2, FS_Product
<1> QED
  BY <1>1, <1>2, <1>3

LEMMA DisjointUnits ==
  ASSUME NEW X, IsFiniteSet(X), NEW Y, IsFiniteSet(Y), X \cap Y = {}
  PROVE  IsFiniteSet(X \cup Y) /\ Cardinality(X \cup Y) = Cardinality(X) + Cardinality(Y)
<1>1. /\ IsFiniteSet(X \cup Y)
      /\ Cardinality(X \cup Y) = Cardinality(X) + Cardinality(Y) - Cardinality(X \cap Y)
  BY FS_Union
<1>2. Cardinality(X \cap Y) = 0
  BY FS_EmptySet
<1>3. Cardinality(X) \in Nat /\ Cardinality(Y) \in Nat
  BY FS_CardinalityType
<1> QED
  BY <1>1, <1>2, <1>3

UsageCounted == \A m \in Rules : IsFiniteSet(Units(m)) /\ used[m] = Cardinality(Units(m))

(* A client that had not booked under a rule books under it.                  *)
LEMMA UsageBooks ==
  ASSUME Inv, UsageCounted, NEW c \in Clients, NEW m \in Rules, m \notin booked[c], Books(c, m)
  PROVE  UsageCounted'
<1>0. /\ Amount[c] \in Nat
      /\ booked' = [booked EXCEPT ![c] = booked[c] \cup {m}]
      /\ used' = [used EXCEPT ![m] = used[m] + Amount[c]]
      /\ booked \in [Clients -> SUBSET Rules] /\ used \in [Rules -> Nat]
  BY QuotaAssumption DEF Inv, TypeOK, Books
<1>1. \A d \in Clients, k \in Rules : k \in booked'[d] <=> k \in booked[d] \/ (d = c /\ k = m)
  BY <1>0
<1>2. Units(m)' = Units(m) \cup ({c} \X (1..Amount[c]))
  BY <1>1 DEF Units
<1>3. Units(m) \cap ({c} \X (1..Amount[c])) = {}
  BY DEF Units
<1>4. ASSUME NEW k \in Rules \ {m} PROVE Units(k)' = Units(k) /\ used'[k] = used[k]
  BY <1>0, <1>1 DEF Units
<1>5. IsFiniteSet(Units(m)) /\ used[m] = Cardinality(Units(m))
  BY DEF UsageCounted
<1>6. IsFiniteSet(Units(m)') /\ Cardinality(Units(m)') = Cardinality(Units(m)) + Amount[c]
  <2>1. IsFiniteSet({c} \X (1..Amount[c])) /\ Cardinality({c} \X (1..Amount[c])) = Amount[c]
    BY <1>0, OwnUnits
  <2> QED
    BY <2>1, <1>2, <1>3, <1>5, DisjointUnits
<1>7. used'[m] = Cardinality(Units(m)')
  BY <1>0, <1>5, <1>6
<1>8. \A k \in Rules : IsFiniteSet(Units(k)') /\ used'[k] = Cardinality(Units(k)')
  BY <1>4, <1>6, <1>7 DEF UsageCounted
<1> QED
  BY <1>8 DEF UsageCounted

(* What a client had booked under a rule is released.                        *)
LEMMA UsageWrites ==
  ASSUME Inv, UsageCounted, NEW c \in Clients, NEW m \in Rules, m = client[c].rule, m \in booked[c],
         Writes(c, Less(used[m], Amount[c]))
  PROVE  UsageCounted'
<1>0. /\ Amount[c] \in Nat
      /\ booked' = [booked EXCEPT ![c] = booked[c] \ {m}]
      /\ used' = [used EXCEPT ![m] = Less(used[m], Amount[c])]
      /\ booked \in [Clients -> SUBSET Rules] /\ used \in [Rules -> Nat]
  BY QuotaAssumption DEF Inv, TypeOK, Writes
<1>1. \A d \in Clients, k \in Rules : k \in booked'[d] <=> k \in booked[d] /\ ~(d = c /\ k = m)
  BY <1>0
<1>2. Units(m) = Units(m)' \cup ({c} \X (1..Amount[c]))
  BY <1>1 DEF Units
<1>3. Units(m)' \cap ({c} \X (1..Amount[c])) = {}
  BY <1>1 DEF Units
<1>4. ASSUME NEW k \in Rules \ {m} PROVE Units(k)' = Units(k) /\ used'[k] = used[k]
  BY <1>0, <1>1 DEF Units
<1>5. IsFiniteSet(Units(m)) /\ used[m] = Cardinality(Units(m))
  BY DEF UsageCounted
<1>6. IsFiniteSet(Units(m)')
  BY <1>2, <1>5, FS_Subset
<1>7. Cardinality(Units(m)) = Cardinality(Units(m)') + Amount[c] /\ Cardinality(Units(m)') \in Nat
  <2>1. IsFiniteSet({c} \X (1..Amount[c])) /\ Cardinality({c} \X (1..Amount[c])) = Amount[c]
    BY <1>0, OwnUnits
  <2>2. Cardinality(Units(m)') \in Nat
    BY <1>6, FS_CardinalityType
  <2> QED
    BY <2>1, <2>2, <1>2, <1>3, <1>6, DisjointUnits
<1>8. Less(used[m], Amount[c]) = Cardinality(Units(m)')
  BY <1>0, <1>5, <1>7 DEF Less
<1>9. \A k \in Rules : IsFiniteSet(Units(k)') /\ used'[k] = Cardinality(Units(k)')
  BY <1>0, <1>4, <1>6, <1>8 DEF UsageCounted
<1> QED
  BY <1>9 DEF UsageCounted

(* Until a release of the database store writes, a step leaves usage counted. *)
LEMMA UsageStep ==
  ASSUME Inv, Bookings, UsageCounted, UNCHANGED store, NEW c \in Clients, ClientStep(c),
         store = "memory" \/ "release" \notin happened'
  PROVE  UsageCounted'
<1> PICK b : b = booked[c]
  OBVIOUS
<1> PICK y \in Client : y = client[c]
  BY DEF Inv, TypeOK
<1> PICK m : m = y.rule
  OBVIOUS
<1>0. /\ Ahead(y, b) /\ (store = "memory" => y.phase \in MemoryPhases /\ Kept(y, b))
      /\ y.phase \in {"new", "update", "select", "insert", "readback", "refused", "release", "write"}
           => m \in Rules
  BY DEF Bookings, Inv, Sound, Undisputed
<1>1. CASE UNCHANGED <<used, booked>>
  BY <1>1 DEF UsageCounted, Units
<1>2. CASE Books(c, m) /\ y.phase \in {"new", "update", "insert"}
  <2>1. m \in Rules /\ b \subseteq 1..(m - 1) /\ m \in Nat
    BY <1>0, <1>2 DEF Ahead, Rules
  <2>2. m \notin b
    BY <2>1
  <2> QED
    BY <1>2, <2>1, <2>2, UsageBooks
<1>3. CASE ReleaseInMemory(c)
  <2>1. m \in Rules /\ b = 1..m /\ m \in Nat \ {0} /\ Writes(c, Less(used[m], Amount[c]))
    BY <1>0, <1>3 DEF ReleaseInMemory, Kept, Rules
  <2>2. m \in b
    BY <2>1
  <2> QED
    BY <2>1, <2>2, UsageWrites
<1>4. CASE ReleaseWrite(c)
  BY <1>0, <1>4 DEF ReleaseWrite, MemoryPhases
<1>5. \/ UNCHANGED <<used, booked>>
      \/ Books(c, m) /\ y.phase \in {"new", "update", "insert"}
      \/ ReleaseInMemory(c) \/ ReleaseWrite(c)
  <2>1. CASE ReserveInMemory(c)
    BY <2>1 DEF ReserveInMemory
  <2>2. CASE TryUpdate(c)
    BY <2>2 DEF TryUpdate
  <2>3. CASE Insert(c)
    BY <2>3 DEF Insert
  <2>4. CASE \/ ReserveBegin(c) \/ Select(c) \/ ReadBack(c) \/ Decide(c) \/ HandlerSucceeds(c)
             \/ HandlerFails(c) \/ GiveBack(c) \/ ReleaseRead(c) \/ Crash(c)
    BY <2>4 DEF ReserveBegin, Select, ReadBack, Decide, HandlerSucceeds, HandlerFails, GiveBack,
                ReleaseRead, Crash
  <2> QED
    BY <2>1, <2>2, <2>3, <2>4 DEF ClientStep
<1> QED
  BY <1>1, <1>2, <1>3, <1>4, <1>5

(* Usage is the sum of what was reserved and not released, until a release   *)
(* of the database store writes; a handler runs with every reservation made  *)
(* until a row is inserted besides; and in the memory store both hold always *)
(* and whoever was refused, failed or gave back has nothing booked, for any  *)
(* clients, amounts, rules, limits and crashes (run_mutation,                *)
(* _release_reversed, DatabaseQuotaUsageStore.reserve).                      *)
THEOREM UsageIsExactlyBooked == Spec => []ExactlyBooked
<1> DEFINE BookInv == Bookings /\ (store = "memory" \/ "release" \notin happened => UsageCounted)
<1>1. Init => BookInv
  <2> SUFFICES ASSUME Init PROVE BookInv
    OBVIOUS
  <2> PICK x : x = [phase |-> "new", rule |-> 1, tried |-> 0, read |-> 0]
    OBVIOUS
  <2>1. \A c \in Clients : client[c] = x /\ booked[c] = {}
    BY DEF Init
  <2>2. x.phase = "new" /\ x.rule = 1
    OBVIOUS
  <2>3. {} = 1..(1 - 1)
    OBVIOUS
  <2>4. Bookings
    BY <2>1, <2>2, <2>3 DEF Bookings, Ahead, Kept, Found, MemoryPhases
  <2>5. \A m \in Rules : Units(m) = {} /\ used[m] = 0
    BY <2>1 DEF Units, Init
  <2>6. UsageCounted
    BY <2>5, FS_EmptySet DEF UsageCounted
  <2> QED
    BY <2>4, <2>6
<1>2. Inv /\ Inv' /\ BookInv /\ [Next]_vars => BookInv'
  <2> SUFFICES ASSUME Inv, Inv', BookInv, [Next]_vars PROVE BookInv'
    OBVIOUS
  <2>1. CASE UNCHANGED vars
    BY <2>1 DEF vars, Bookings, Undisputed, Found, Fits, UsageCounted, Units
  <2>2. CASE Next
    <3> PICK c \in Clients : UNCHANGED store /\ ClientStep(c)
      BY <2>2 DEF Next
    <3>1. Bookings'
      BY BookingStep
    <3>2. happened \subseteq happened'
      BY DEF ClientStep, ReserveInMemory, ReserveBegin, TryUpdate, Select, Insert, ReadBack, Decide,
             HandlerSucceeds, HandlerFails, GiveBack, ReleaseInMemory, ReleaseRead, ReleaseWrite, Crash
    <3>3. ASSUME store' = "memory" \/ "release" \notin happened'
          PROVE  UsageCounted'
      BY <3>2, <3>3, UsageStep
    <3> QED
      BY <3>1, <3>3
  <2> QED
    BY <2>1, <2>2
<1>3. Inv /\ BookInv => ExactlyBooked
  BY DEF Bookings, Undisputed, Kept, UsageCounted, ExactlyBooked, UsageExact, HandlerIsBooked,
         NothingLeft
<1> QED
  BY <1>1, <1>2, <1>3, QuotaInvariant, PTL DEF Spec

-----------------------------------------------------------------------------
(* Settings                                                                 *)

IsValueRow(row) ==
  /\ row = [f \in {"status", "value", "ref", "version"} |-> row[f]]
  /\ row.status \in {"none", "active", "deleted"}
  /\ row.version \in Nat
  /\ row.status = "none" <=> row.version = 0

\* A record with the fields of a request.
IsChange(q) ==
  q = [f \in {"at", "scope", "value", "ref", "expected", "loaded", "answer"} |-> q[f]]

RevisionsOf(s) == {v \in revisions : v.scope = s}

\* A change that is under way has loaded a row; the row it loaded stays.
Loaded(q) ==
  /\ q.scope \in S!Scopes
  /\ IsValueRow(q.loaded)
  /\ q.at = "reset" => q.loaded.status = "active"
  /\ q.loaded.status # "none" => values[q.scope].status # "none"
  /\ q.scope \notin raced => q.loaded = values[q.scope]

\* What was answered with a version is what its revision left, or redacted.
AnswersRevision(q) ==
  q.answer.version > 0 =>
    \A s \in S!Scopes \ raced : s = (IF q.answer.source = "tenant" THEN q.scope ELSE "platform") =>
      \E v \in RevisionsOf(s) : v.version = q.answer.version /\ q.answer.value \in {"redacted", v.new}

ChangeFine(q) ==
  /\ IsChange(q)
  /\ q.at \in {"upsert", "reset"} => Loaded(q)
  /\ q.at = "answered" => AnswersRevision(q)

OneFirst(s) ==
  /\ values[s].status # "none" <=> \E v \in RevisionsOf(s) : v.version = 1
  /\ \A v, w \in RevisionsOf(s) : v.version = 1 /\ w.version = 1 => v = w

Numbered(s) ==
  /\ IsFiniteSet(RevisionsOf(s)) /\ Cardinality(RevisionsOf(s)) = values[s].version
  /\ \A v \in RevisionsOf(s) : v.version <= values[s].version
  /\ \A n \in 1 .. values[s].version : \E v \in RevisionsOf(s) : v.version = n
  /\ \A v, w \in RevisionsOf(s) : v.version = w.version => v = w

Chained(s) ==
  /\ values[s].version = 0 => values[s].value = Null
  /\ \A v \in RevisionsOf(s) :
       /\ v.version = values[s].version => v.new = values[s].value
       /\ v.version = 1 => v.old = Null
       /\ \A w \in RevisionsOf(s) : v.version = w.version + 1 => v.old = w.new

OneChange ==
  \A s \in S!Scopes \ raced, p, q \in Clients : S!Changing(changes[p], s) /\ S!Changing(changes[q], s) => p = q

SettingsInv ==
  /\ changes = [r \in Clients |-> changes[r]]
  /\ values = [s \in S!Scopes |-> values[s]]
  /\ \A s \in S!Scopes : IsValueRow(values[s])
  /\ \A v \in revisions : v.version \in Nat \ {0}
  /\ \A r \in Clients : ChangeFine(changes[r])
  /\ \A s \in S!Scopes : OneFirst(s)
  /\ OneChange
  /\ \A s \in S!Scopes \ raced : Numbered(s) /\ Chained(s)

(* A request moves and changes no row.                                       *)
LEMMA ChangeMoves ==
  ASSUME SettingsInv, NEW r \in Clients, NEW q, changes' = [changes EXCEPT ![r] = q],
         UNCHANGED <<values, revisions>>, ChangeFine(q), raced \subseteq raced',
         \A s \in S!Scopes \ raced' : S!Changing(q, s) => \A p \in Clients : ~S!Changing(changes[p], s)
  PROVE  SettingsInv'
<1>1. changes'[r] = q /\ \A p \in Clients \ {r} : changes'[p] = changes[p]
  BY DEF SettingsInv
<1>2. \A p \in Clients : ChangeFine(changes[p])'
  <2> TAKE p \in Clients
  <2>1. CASE p = r
    BY <1>1, <2>1 DEF ChangeFine, Loaded, AnswersRevision, RevisionsOf
  <2>2. CASE p # r
    <3>1. ChangeFine(changes[p]) /\ changes'[p] = changes[p]
      BY <1>1, <2>2 DEF SettingsInv
    <3> QED
      BY <3>1 DEF ChangeFine, Loaded, AnswersRevision, RevisionsOf
  <2> QED
    BY <2>1, <2>2
<1>3. OneChange'
  BY <1>1 DEF SettingsInv, OneChange, S!Changing, S!Scopes
<1>4. \A s \in S!Scopes \ raced' : Numbered(s)' /\ Chained(s)'
  <2>1. \A s \in S!Scopes : (Numbered(s) <=> Numbered(s)') /\ (Chained(s) <=> Chained(s)')
    BY DEF Numbered, Chained, RevisionsOf
  <2> QED
    BY <2>1 DEF SettingsInv
<1>5. \A s \in S!Scopes : OneFirst(s)'
  BY DEF SettingsInv, OneFirst, RevisionsOf
<1>6. changes' = [p \in Clients |-> changes'[p]]
  BY DEF SettingsInv
<1> QED
  BY <1>2, <1>3, <1>4, <1>5, <1>6 DEF SettingsInv

(* What a commit writes into its row.                                        *)
LEMMA ChangedRow ==
  ASSUME SettingsInv, NEW r \in Clients, changes[r].at \in {"upsert", "reset"}, NEW status \in {"active", "deleted"}
  PROVE  /\ IsValueRow(S!Changed(r, status)) /\ S!Changed(r, status).status # "none"
         /\ S!Changed(r, status).version = changes[r].loaded.version + 1
         /\ changes[r].scope \notin raced => S!Changed(r, status).value = changes[r].value
<1>1. Loaded(changes[r])
  BY DEF SettingsInv, ChangeFine
<1> DEFINE s == changes[r].scope
<1> DEFINE n == [status |-> S!Updated(changes[r].loaded.status, status, values[s].status),
                 value |-> S!Updated(changes[r].loaded.value, changes[r].value, values[s].value),
                 ref |-> S!Updated(changes[r].loaded.ref, changes[r].ref, values[s].ref),
                 version |-> changes[r].loaded.version + 1]
<1>2. S!Changed(r, status) = n
  BY DEF S!Changed
<1>3. IsValueRow(values[s]) /\ changes[r].loaded.version \in Nat
  BY <1>1 DEF SettingsInv, Loaded, IsValueRow
<1>4. n.status \in {"active", "deleted"}
  BY <1>1, <1>3 DEF S!Updated, Loaded, IsValueRow
<1>5. s \notin raced => n.value = changes[r].value
  BY <1>1 DEF S!Updated, Loaded
<1>6. n.version = changes[r].loaded.version + 1 /\ n.version \in Nat \ {0}
  BY <1>3
<1>7. n = [f \in {"status", "value", "ref", "version"} |-> n[f]]
  OBVIOUS
<1> HIDE DEF n
<1> QED
  BY <1>2, <1>4, <1>5, <1>6, <1>7 DEF IsValueRow

(* A change commits: a revision more, and a row that is its outcome.         *)
LEMMA ChangeCommits ==
  ASSUME SettingsInv, NEW r \in Clients, NEW status \in {"active", "deleted"},
         (changes[r].at = "upsert" /\ ~S!InsertConflicts(r)) \/ changes[r].at = "reset",
         values' = [values EXCEPT ![changes[r].scope] = S!Changed(r, status)],
         S!_add_revision(r), S!Ends(r), UNCHANGED raced
  PROVE  SettingsInv'
<1> DEFINE new == [by |-> r, scope |-> changes[r].scope, version |-> changes[r].loaded.version + 1,
                   old |-> changes[r].loaded.value, new |-> changes[r].value, expected |-> changes[r].expected]
<1>0. new.scope = changes[r].scope /\ new.version = changes[r].loaded.version + 1
      /\ new.old = changes[r].loaded.value /\ new.new = changes[r].value
  OBVIOUS
<1>a. revisions' = revisions \cup {new}
  BY DEF S!_add_revision
<1> HIDE DEF new
<1>s. PICK s \in S!Scopes : s = changes[r].scope
  BY DEF SettingsInv, ChangeFine, Loaded
<1>1. /\ IsValueRow(changes[r].loaded) /\ changes[r].loaded.status # "none" => values[s].status # "none"
      /\ changes[r].loaded.status = "none" => values[s].status = "none"
      /\ s \notin raced => changes[r].loaded = values[s]
  BY <1>s DEF SettingsInv, ChangeFine, Loaded, S!InsertConflicts
<1>l. IsValueRow(changes[r].loaded) /\ (changes[r].loaded.status # "none" => values[s].status # "none")
  BY <1>s DEF SettingsInv, ChangeFine, Loaded
<1>2. /\ IsValueRow(values'[s]) /\ values'[s].status # "none"
      /\ values'[s].version = new.version /\ (s \notin raced => values'[s].value = new.new)
  BY <1>0, <1>s, ChangedRow DEF SettingsInv
<1>3. \A u \in S!Scopes \ {s} : values'[u] = values[u] /\ RevisionsOf(u)' = RevisionsOf(u)
  BY <1>0, <1>a, <1>s DEF SettingsInv, RevisionsOf
<1>4. RevisionsOf(s)' = RevisionsOf(s) \cup {new}
  BY <1>0, <1>a, <1>s DEF RevisionsOf
<1>5. new.version \in Nat \ {0} /\ (new.version = 1 <=> changes[r].loaded.status = "none")
  BY <1>0, <1>l DEF IsValueRow
<1>6. changes'[r].at = "done" /\ \A p \in Clients \ {r} : changes'[p] = changes[p]
  BY DEF S!Ends, S!Notes, S!NoReq, SettingsInv
<1>r. IsChange(changes'[r])
  BY DEF S!Ends, S!Notes, S!NoReq, SettingsInv, IsChange
<1>7. \A u \in S!Scopes : OneFirst(u)'
  <2>1. OneFirst(s)'
    BY <1>1, <1>l, <1>2, <1>4, <1>5 DEF SettingsInv, OneFirst
  <2> QED
    BY <1>3, <2>1 DEF SettingsInv, OneFirst
<1>8. \A p \in Clients : ChangeFine(changes[p])'
  <2> TAKE p \in Clients
  <2>1. CASE p = r
    BY <1>6, <1>r, <2>1 DEF ChangeFine
  <2>2. CASE p # r
    <3>1. ChangeFine(changes[p]) /\ changes'[p] = changes[p]
      BY <1>6, <2>2 DEF SettingsInv
    <3>2. ASSUME changes[p].at \in {"upsert", "reset"} PROVE Loaded(changes[p])'
      <4>1. changes[p].scope = s => s \in raced
        BY <1>s, <2>2, <3>2 DEF SettingsInv, OneChange, S!Changing
      <4> QED
        BY <1>2, <1>3, <3>1, <3>2, <4>1 DEF ChangeFine, Loaded
    <3>3. ASSUME changes[p].at = "answered" PROVE AnswersRevision(changes[p])'
      BY <1>a, <3>1, <3>3 DEF ChangeFine, AnswersRevision, RevisionsOf
    <3> QED
      BY <3>1, <3>2, <3>3 DEF ChangeFine
  <2> QED
    BY <2>1, <2>2
<1>9. OneChange'
  BY <1>6 DEF SettingsInv, OneChange, S!Changing, S!Scopes
<1>10. ASSUME s \notin raced PROVE Numbered(s)' /\ Chained(s)'
  <2>2. Numbered(s) /\ Chained(s) /\ values[s].version \in Nat /\ new.version = values[s].version + 1
        /\ new.old = values[s].value /\ \A v \in RevisionsOf(s) : v.version \in Nat \ {0}
    BY <1>0, <1>1, <1>10 DEF SettingsInv, IsValueRow, RevisionsOf
  <2>3. new \notin RevisionsOf(s)
    BY <2>2 DEF Numbered
  <2>4. IsFiniteSet(RevisionsOf(s)') /\ Cardinality(RevisionsOf(s)') = values'[s].version
    BY <1>2, <1>4, <2>2, <2>3, FS_AddElement DEF Numbered
  <2>5. Numbered(s)'
    <3>1. \A n \in 1 .. values'[s].version : n \in 1 .. values[s].version \/ n = new.version
      BY <1>2, <2>2
    <3> QED
      BY <1>2, <1>4, <2>2, <2>4, <3>1 DEF Numbered
  <2>6. Chained(s)'
    <3>1. \A v \in RevisionsOf(s) : v.version # new.version /\ v.version # new.version + 1
      BY <2>2 DEF Numbered
    <3>2. new.version # new.version + 1
      BY <2>2
    <3>3. new.version = 1 => new.old = Null
      BY <2>2 DEF Chained
    <3>4. \A w \in RevisionsOf(s) : new.version = w.version + 1 => new.old = w.new
      BY <2>2 DEF Chained
    <3> QED
      BY <1>2, <1>4, <1>10, <2>2, <3>1, <3>2, <3>3, <3>4 DEF Chained
  <2> QED
    BY <2>5, <2>6
<1>11. \A u \in S!Scopes \ raced' : Numbered(u)' /\ Chained(u)'
  <2> TAKE u \in S!Scopes \ raced'
  <2>1. CASE u # s
    <3>1. Numbered(u) /\ Chained(u) /\ values'[u] = values[u] /\ RevisionsOf(u)' = RevisionsOf(u)
      BY <1>3, <2>1 DEF SettingsInv
    <3> QED
      BY <3>1 DEF Numbered, Chained
  <2> QED
    BY <1>10, <2>1
<1>12. changes' = [p \in Clients |-> changes'[p]] /\ values' = [u \in S!Scopes |-> values'[u]]
       /\ \A u \in S!Scopes : IsValueRow(values'[u])
       /\ \A v \in revisions' : v.version \in Nat \ {0}
  <2>1. changes' = [p \in Clients |-> changes'[p]] /\ values' = [u \in S!Scopes |-> values'[u]]
    BY DEF SettingsInv, S!Ends, S!Notes
  <2> QED
    BY <1>2, <1>3, <1>5, <1>a, <2>1 DEF SettingsInv
<1> QED
  BY <1>7, <1>8, <1>9, <1>11, <1>12 DEF SettingsInv

(* An answer from a row is what its last revision left.                       *)
LEMMA RowAnswers ==
  ASSUME SettingsInv, NEW scope \in S!Scopes, NEW q, q.answer = S!_resolved_from_row(scope),
         scope # "platform" => q.scope = scope
  PROVE  AnswersRevision(q)
<1>1. /\ q.answer.source = IF scope = "platform" THEN "platform" ELSE "tenant"
      /\ q.answer.version = values[scope].version
      /\ q.answer.value \in {"redacted", values[scope].value}
  BY DEF S!_resolved_from_row, S!_serialize_setting_value
<1> SUFFICES ASSUME scope \notin raced, q.answer.version > 0
             PROVE  \E v \in RevisionsOf(scope) : /\ v.version = q.answer.version
                                                   /\ q.answer.value \in {"redacted", v.new}
  BY <1>1 DEF AnswersRevision
<1>2. Numbered(scope) /\ Chained(scope) /\ values[scope].version \in Nat
  BY DEF SettingsInv, IsValueRow
<1>3. PICK v \in RevisionsOf(scope) : v.version = values[scope].version
  BY <1>1, <1>2 DEF Numbered
<1> QED
  BY <1>1, <1>2, <1>3 DEF Chained

LEMMA SettingsNext ==
  ASSUME SettingsInv, S!Next PROVE SettingsInv'
<1> PICK r \in Clients : S!RequestStep(r)
  BY DEF S!Next
<1>1. ASSUME NEW scope \in S!Scopes, NEW value, NEW ref, NEW expected, S!upsert(r, scope, value, ref, expected)
      PROVE  SettingsInv'
  <2> DEFINE q == [S!NoReq EXCEPT !.at = "upsert", !.scope = scope, !.value = S!Stored(value),
                     !.ref = ref, !.expected = expected, !.loaded = values[scope]]
  <2>1. changes' = [changes EXCEPT ![r] = q] /\ UNCHANGED <<values, revisions>>
        /\ raced' = IF \E p \in Clients : S!Changing(changes[p], scope) THEN raced \cup {scope} ELSE raced
    BY <1>1 DEF S!upsert, S!Begins, S!Notes
  <2>2. IsChange(q) /\ q.at = "upsert" /\ q.scope = scope /\ q.loaded = values[scope]
    BY DEF S!NoReq, IsChange
  <2> HIDE DEF q
  <2>3. ChangeFine(q)
    BY <2>2 DEF ChangeFine, Loaded, SettingsInv
  <2> QED
    BY <2>1, <2>2, <2>3, ChangeMoves DEF S!Changing
<1>2. ASSUME NEW scope \in S!Scopes, NEW expected, S!reset(r, scope, expected)
      PROVE  SettingsInv'
  <2> DEFINE q == [S!NoReq EXCEPT !.at = "reset", !.scope = scope, !.expected = expected,
                     !.loaded = values[scope]]
  <2>1. changes' = [changes EXCEPT ![r] = q] /\ UNCHANGED <<values, revisions>>
        /\ values[scope].status = "active"
        /\ raced' = IF \E p \in Clients : S!Changing(changes[p], scope) THEN raced \cup {scope} ELSE raced
    BY <1>2 DEF S!reset, S!Begins, S!Notes
  <2>2. IsChange(q) /\ q.at = "reset" /\ q.scope = scope /\ q.loaded = values[scope]
    BY DEF S!NoReq, IsChange
  <2> HIDE DEF q
  <2>3. ChangeFine(q)
    BY <2>1, <2>2 DEF ChangeFine, Loaded, SettingsInv
  <2> QED
    BY <2>1, <2>2, <2>3, ChangeMoves DEF S!Changing
<1>3. CASE S!UpsertCommits(r)
  BY <1>3, ChangeCommits DEF S!UpsertCommits, S!At
<1>4. CASE S!ResetCommits(r)
  BY <1>4, ChangeCommits DEF S!ResetCommits, S!At
<1>5. CASE S!RollsBack(r)
  <2> DEFINE q == [S!NoReq EXCEPT !.at = "done"]
  <2>1. changes' = [changes EXCEPT ![r] = q] /\ UNCHANGED <<values, revisions, raced>>
    BY <1>5 DEF S!RollsBack, S!Ends, S!Notes
  <2>2. IsChange(q) /\ q.at = "done"
    BY DEF S!NoReq, IsChange
  <2> HIDE DEF q
  <2> QED
    BY <2>1, <2>2, ChangeMoves DEF ChangeFine, S!Changing
<1>6. ASSUME NEW scope \in S!Scopes, S!ResolveTenant(r, scope) PROVE SettingsInv'
  <2>1. UNCHANGED <<values, revisions, raced>>
    BY <1>6 DEF S!ResolveTenant
  <2>2. CASE scope # "platform" /\ spec.tenant /\ values[scope].status = "active"
    <3> DEFINE q == [S!NoReq EXCEPT !.at = "answered", !.scope = scope, !.answer = S!_resolved_from_row(scope)]
    <3>1. changes' = [changes EXCEPT ![r] = q]
      BY <1>6, <2>2 DEF S!ResolveTenant, S!Notes
    <3>2. IsChange(q) /\ q.at = "answered" /\ q.scope = scope /\ q.answer = S!_resolved_from_row(scope)
      BY DEF S!NoReq, IsChange
    <3> HIDE DEF q
    <3> QED
      BY <2>1, <3>1, <3>2, RowAnswers, ChangeMoves DEF ChangeFine, S!Changing
  <2>3. CASE ~(scope # "platform" /\ spec.tenant /\ values[scope].status = "active")
    <3> DEFINE q == [S!NoReq EXCEPT !.at = "resolve", !.scope = scope]
    <3>1. changes' = [changes EXCEPT ![r] = q]
      BY <1>6, <2>3 DEF S!ResolveTenant, S!Notes
    <3>2. IsChange(q) /\ q.at = "resolve"
      BY DEF S!NoReq, IsChange
    <3> HIDE DEF q
    <3> QED
      BY <2>1, <3>1, <3>2, ChangeMoves DEF ChangeFine, S!Changing
  <2> QED
    BY <2>2, <2>3
<1>7. CASE S!ResolvePlatform(r)
  <2> DEFINE default == [source |-> "default", version |-> 0, value |-> Null]
  <2> DEFINE answer == IF values["platform"].status = "active" THEN S!_resolved_from_row("platform") ELSE default
  <2> DEFINE q == [changes[r] EXCEPT !.at = "answered", !.answer = answer]
  <2>1. changes' = [changes EXCEPT ![r] = q] /\ UNCHANGED <<values, revisions, raced>> /\ changes[r].at = "resolve"
    BY <1>7 DEF S!ResolvePlatform, S!Notes, S!At
  <2>2. IsChange(q) /\ q.at = "answered" /\ q.answer = answer
    BY DEF SettingsInv, ChangeFine, IsChange
  <2>3. default.version = 0
    OBVIOUS
  <2> HIDE DEF q, default
  <2>4. AnswersRevision(q)
    <3>1. "platform" \in S!Scopes
      BY DEF S!Scopes
    <3>2. CASE values["platform"].status = "active"
      BY <2>2, <3>1, <3>2, RowAnswers
    <3>3. CASE values["platform"].status # "active"
      BY <2>2, <2>3, <3>3 DEF AnswersRevision
    <3> QED
      BY <3>2, <3>3
  <2> QED
    BY <2>1, <2>2, <2>4, ChangeMoves DEF ChangeFine, S!Changing
<1> QED
  BY <1>1, <1>2, <1>3, <1>4, <1>5, <1>6, <1>7 DEF S!RequestStep

(* Of a scope whose revisions are numbered, the invariant says it all.        *)
LEMMA InvExplains == SettingsInv => S!HistoryExplainsValue
<1> SUFFICES ASSUME SettingsInv, NEW s \in S!Scopes
             PROVE  LET revs == RevisionsOf(s)
                        Rev(n) == CHOOSE v \in revs : v.version = n
                    IN  /\ Cardinality({v \in revs : v.version = 1}) = IF values[s].status = "none" THEN 0 ELSE 1
                        /\ s \notin raced =>
                             /\ {v.version : v \in revs} = 1 .. values[s].version
                             /\ Cardinality(revs) = values[s].version
                             /\ values[s].version > 0 => Rev(values[s].version).new = values[s].value
                             /\ \A n \in 1 .. values[s].version :
                                  Rev(n).old = IF n = 1 THEN Null ELSE Rev(n - 1).new
                             /\ \A r \in Clients :
                                  LET q == changes[r] IN
                                    S!At(r, "answered") /\ q.answer.version > 0
                                      /\ s = (IF q.answer.source = "tenant" THEN q.scope ELSE "platform")
                                    => q.answer.value \in {"redacted", Rev(q.answer.version).new}
  BY SameCardinality DEF S!HistoryExplainsValue, RevisionsOf
<1> DEFINE Rev(n) == CHOOSE v \in RevisionsOf(s) : v.version = n
<1>1. Cardinality({v \in RevisionsOf(s) : v.version = 1}) = IF values[s].status = "none" THEN 0 ELSE 1
  <2>1. CASE values[s].status = "none"
    <3>1. {v \in RevisionsOf(s) : v.version = 1} = {}
      BY <2>1 DEF SettingsInv, OneFirst
    <3> QED
      BY <2>1, <3>1, FS_EmptySet
  <2>2. CASE values[s].status # "none"
    <3>1. PICK x \in RevisionsOf(s) : x.version = 1
      BY <2>2 DEF SettingsInv, OneFirst
    <3>2. {v \in RevisionsOf(s) : v.version = 1} = {x}
      BY <3>1 DEF SettingsInv, OneFirst
    <3> QED
      BY <2>2, <3>2, FS_Singleton
  <2> QED
    BY <2>1, <2>2
<1>2. ASSUME s \notin raced
      PROVE  /\ {v.version : v \in RevisionsOf(s)} = 1 .. values[s].version
             /\ Cardinality(RevisionsOf(s)) = values[s].version
             /\ values[s].version > 0 => Rev(values[s].version).new = values[s].value
             /\ \A n \in 1 .. values[s].version : Rev(n).old = IF n = 1 THEN Null ELSE Rev(n - 1).new
             /\ \A r \in Clients :
                  S!At(r, "answered") /\ changes[r].answer.version > 0
                    /\ s = (IF changes[r].answer.source = "tenant" THEN changes[r].scope ELSE "platform")
                  => changes[r].answer.value \in {"redacted", Rev(changes[r].answer.version).new}
  <2>1. Numbered(s) /\ Chained(s) /\ values[s].version \in Nat
        /\ \A v \in RevisionsOf(s) : v.version \in Nat \ {0}
    BY <1>2 DEF SettingsInv, IsValueRow, RevisionsOf
  <2>2. \A v \in RevisionsOf(s) : v.version \in 1 .. values[s].version
    BY <2>1 DEF Numbered
  <2>3. {v.version : v \in RevisionsOf(s)} = 1 .. values[s].version
    BY <2>1, <2>2 DEF Numbered
  <2>4. \A n \in 1 .. values[s].version : Rev(n) \in RevisionsOf(s) /\ Rev(n).version = n
    BY <2>1 DEF Numbered
  <2>5. \A v \in RevisionsOf(s) : v = Rev(v.version)
    BY <2>1, <2>2, <2>4 DEF Numbered
  <2>6. \A n \in 1 .. values[s].version : Rev(n).old = IF n = 1 THEN Null ELSE Rev(n - 1).new
    <3> TAKE n \in 1 .. values[s].version
    <3>1. CASE n = 1
      BY <2>1, <2>4, <3>1 DEF Chained
    <3>2. CASE n # 1
      <4>1. n - 1 \in 1 .. values[s].version /\ n = (n - 1) + 1
        BY <2>1, <3>2
      <4>2. Rev(n) \in RevisionsOf(s) /\ Rev(n - 1) \in RevisionsOf(s)
            /\ Rev(n).version = Rev(n - 1).version + 1
        BY <2>4, <4>1
      <4> HIDE DEF Rev
      <4> QED
        BY <2>1, <3>2, <4>2 DEF Chained
    <3> QED
      BY <3>1, <3>2
  <2>7. values[s].version > 0 => Rev(values[s].version).new = values[s].value
    BY <2>1, <2>4 DEF Chained
  <2>8. ASSUME NEW r \in Clients, S!At(r, "answered"), changes[r].answer.version > 0,
               s = (IF changes[r].answer.source = "tenant" THEN changes[r].scope ELSE "platform")
        PROVE  changes[r].answer.value \in {"redacted", Rev(changes[r].answer.version).new}
    <3>1. AnswersRevision(changes[r])
      BY <2>8 DEF SettingsInv, ChangeFine, S!At
    <3>2. PICK v \in RevisionsOf(s) : /\ v.version = changes[r].answer.version
                                      /\ changes[r].answer.value \in {"redacted", v.new}
      BY <1>2, <2>8, <3>1 DEF AnswersRevision
    <3>3. v = Rev(changes[r].answer.version)
      BY <2>5, <3>2
    <3> HIDE DEF Rev
    <3> QED
      BY <3>2, <3>3
  <2> QED
    BY <2>1, <2>3, <2>6, <2>7, <2>8 DEF Numbered
<1> QED
  BY <1>1, <1>2

(* The revisions of a setting explain its value, and every answer, whatever  *)
(* changes, resets, reads and rollbacks come between (upsert, reset,         *)
(* _add_revision, resolve).                                                  *)
THEOREM RevisionsExplainValues == S!Spec => []HistoryExplainsValue
<1>1. S!Init => SettingsInv
  <2> SUFFICES ASSUME S!Init PROVE SettingsInv
    OBVIOUS
  <2>1. /\ S!NoRow.status = "none" /\ S!NoRow.version = 0 /\ S!NoRow.value = Null /\ IsValueRow(S!NoRow)
        /\ S!NoReq.at = "idle" /\ IsChange(S!NoReq)
    BY DEF S!NoRow, S!NoReq, IsValueRow, IsChange
  <2>2. \A s \in S!Scopes : values[s] = S!NoRow /\ RevisionsOf(s) = {}
    BY DEF S!Init, RevisionsOf
  <2>3. \A r \in Clients : changes[r] = S!NoReq
    BY DEF S!Init
  <2> HIDE DEF S!NoRow, S!NoReq
  <2>4. ASSUME NEW s \in S!Scopes PROVE OneFirst(s) /\ Numbered(s) /\ Chained(s)
    <3>1. /\ RevisionsOf(s) = {}
          /\ values[s].status = "none" /\ values[s].version = 0 /\ values[s].value = Null
      BY <2>1, <2>2
    <3>2. OneFirst(s) /\ Chained(s)
      BY ONLY <3>1 DEF OneFirst, Chained
    <3>3. Numbered(s)
      BY ONLY <3>1, FS_EmptySet DEF Numbered
    <3> QED
      BY <3>2, <3>3
  <2>5. OneChange /\ \A r \in Clients : ChangeFine(changes[r])
    BY <2>1, <2>3 DEF OneChange, ChangeFine, S!Changing
  <2> QED
    BY <2>1, <2>2, <2>3, <2>4, <2>5 DEF SettingsInv, S!Init
<1>2. SettingsInv /\ [S!Next]_S!settingVars => SettingsInv'
  <2>1. ASSUME SettingsInv, UNCHANGED S!settingVars PROVE SettingsInv'
    <3>1. \A r \in Clients : ChangeFine(changes[r])'
      BY <2>1 DEF S!settingVars, SettingsInv, ChangeFine, Loaded, AnswersRevision, RevisionsOf
    <3>2. OneChange <=> OneChange'
      BY <2>1 DEF S!settingVars, OneChange, S!Changing, S!Scopes
    <3>3. \A s \in S!Scopes : /\ OneFirst(s) <=> OneFirst(s)'
                              /\ Numbered(s) <=> Numbered(s)'
                              /\ Chained(s) <=> Chained(s)'
      BY <2>1 DEF S!settingVars, OneFirst, Numbered, Chained, RevisionsOf
    <3> QED
      BY <2>1, <3>1, <3>2, <3>3 DEF S!settingVars, SettingsInv
  <2> QED
    BY <2>1, SettingsNext
<1>3. SettingsInv => HistoryExplainsValue
  BY InvExplains DEF HistoryExplainsValue
<1> QED
  BY <1>1, <1>2, <1>3, PTL DEF S!Spec

-----------------------------------------------------------------------------
(* Files                                                                    *)

FilesConstants == Size \in Nat /\ UploadLimit \in Nat /\ BatchSize \in Nat \ {0} /\ Metrics \in Seq(STRING)

IsFileRequest(q) ==
  q = [f \in {"at", "file", "batch", "reserved", "read", "flushed", "loaded", "removed"} |-> q[f]]

Status(f) == files[f].status

\* The request has loaded this file, and no other.
Holds(q, f) == q.loaded # {} /\ \A old \in q.loaded : old.file = f

\* Where a request that uploads is before its file is flushed.
Busy == {"reserve", "missing", "refused", "stored", "release", "write"}

\* What a request may be in the middle of.
Uploading(r, q) ==
  /\ q.at \in Busy \cup {"upload"} =>
       q.batch \in 1 .. BatchSize /\ q.flushed \subseteq objects
  /\ q.at \in Busy =>
       /\ q.reserved \in 0 .. Len(Metrics)
       /\ q.at \in {"missing", "refused"} => q.reserved + 1 \in F!Rules
       /\ q.at = "write" => q.reserved \in F!Rules
       /\ \E n \in 1 .. q.batch : q.file = <<r, n>> /\ \A m \in n .. BatchSize : <<r, m>> \notin q.flushed
  /\ q.at = "stored" => q.file \in objects /\ q.reserved = Len(Metrics)

Handling(q) ==
  /\ q.at \in {"complete", "completed", "download", "delete", "deleted"} => \E f \in F!FileIds : Holds(q, f)
  /\ \A f \in F!FileIds : Holds(q, f) =>
       /\ q.at = "complete" => Status(f) # "none"
       /\ q.at = "completed" => Status(f) = "uploading" /\ f \in objects /\ f \notin uploads
       /\ q.at \in {"delete", "deleted"} => Status(f) \in {"available", "deleted", "purged"}
  /\ q.at = "purge" => \A old \in q.loaded : old.file \in F!FileIds /\ Status(old.file) \in {"deleted", "purged"}

Doing(r, q) ==
  /\ IsFileRequest(q)
  /\ q.flushed \subseteq {f \in F!FileIds : f[1] = r}
  /\ q.at \in {"idle", "complete", "completed", "download", "delete", "deleted", "purge"} =>
       q.flushed = {} /\ q.batch = 0
  /\ q.at \notin {"done", "multipart", "presigned"} => \A f \in F!FileIds : f[1] = r => Status(f) = "none"
  /\ q.at \notin {"done", "multipart", "initiated"} => \A f \in F!FileIds : f[1] = r => f \notin uploads
  /\ \A f \in uploads : f[1] = r => f = <<r, 1>>
  /\ q.at = "initiated" => q.flushed = {<<r, 1>>}
  /\ Uploading(r, q) /\ Handling(q)

OneCompletes ==
  \A p, q \in Clients : \A f \in F!FileIds :
    /\ sent[p].at = "completed" /\ sent[q].at = "completed"
    /\ Holds(sent[p], f) /\ Holds(sent[q], f)
    => p = q

FilesInv ==
  /\ sent = [r \in Clients |-> sent[r]]
  /\ files = [f \in F!FileIds |-> files[f]]
  /\ \A f \in F!FileIds : Status(f) \in {"none", "uploading", "available", "deleted", "purged"}
  /\ \A f \in uploads : f \in F!FileIds /\ Status(f) \in {"none", "uploading"}
  /\ \A r \in Clients : Doing(r, sent[r])
  /\ OneCompletes
  /\ F!AvailableHasObject

\* What a step of r leaves the other requests to rely on.
Bystanders(r) ==
  /\ \A f \in F!FileIds :
       /\ f[1] = r \/ (Status(f)' = "none" <=> Status(f) = "none")
       /\ Status(f) # "none" => Status(f)' # "none"
       /\ Status(f) \in {"available", "deleted", "purged"} => Status(f)' \in {"available", "deleted", "purged"}
       /\ Status(f) \in {"deleted", "purged"} => Status(f)' \in {"deleted", "purged"}
       /\ f \in objects /\ Status(f) \in {"none", "uploading"} => f \in objects'
       /\ f \in uploads' => f \in uploads \/ (f[1] = r /\ Status(f) = "none")
       /\ Status(f) = "uploading" /\ Status(f)' # "uploading" =>
            sent[r].at = "completed" /\ Holds(sent[r], f)

LEMMA OthersGoOn ==
  ASSUME FilesConstants, FilesInv, NEW r \in Clients, NEW p \in Clients \ {r}, sent'[p] = sent[p], Bystanders(r), uploads' \subseteq F!FileIds
  PROVE  Doing(p, sent[p])'
<1> PICK q : q = sent[p]
  OBVIOUS
<1>0. Doing(p, q)
  BY DEF FilesInv
<1>1. \A f \in F!FileIds : f[1] = p => f[1] # r
  OBVIOUS
<1>2. Uploading(p, q)'
  <2>1. \A f \in F!FileIds : f[1] = p /\ q.at \in Busy \cup {"upload"} /\ f \in objects => f \in objects'
    BY <1>0 DEF Bystanders, Doing, Busy
  <2>2. q.at \in Busy => q.file \in F!FileIds /\ q.file[1] = p
    <3> SUFFICES ASSUME q.at \in Busy PROVE q.file \in F!FileIds /\ q.file[1] = p
      OBVIOUS
    <3>1. PICK n \in 1 .. q.batch : q.file = <<p, n>>
      BY <1>0 DEF Doing, Uploading, Busy
    <3>2. n \in 1 .. BatchSize
      BY <1>0, <3>1 DEF Doing, Uploading, FilesConstants, Busy
    <3> QED
      BY <3>1, <3>2 DEF F!FileIds
  <2> QED
    BY <1>0, <2>1, <2>2 DEF Doing, Uploading, Busy
<1>3. Handling(q)'
  <2>1. q.at = "completed" => \A f \in F!FileIds : Holds(q, f) => Status(f)' = "uploading" /\ f \in objects' /\ f \notin uploads'
    <3> SUFFICES ASSUME q.at = "completed", NEW f \in F!FileIds, Holds(q, f)
                 PROVE  Status(f)' = "uploading" /\ f \in objects' /\ f \notin uploads'
      OBVIOUS
    <3>1. Status(f) = "uploading" /\ f \in objects /\ f \notin uploads
      BY <1>0 DEF Doing, Handling
    <3>2. ~(sent[r].at = "completed" /\ Holds(sent[r], f))
      BY DEF FilesInv, OneCompletes
    <3> QED
      BY <3>1, <3>2 DEF Bystanders
  <2>2. \A f \in F!FileIds : Holds(q, f)' <=> Holds(q, f)
    BY DEF Holds
  <2>3. ASSUME NEW f \in F!FileIds, Holds(q, f)
        PROVE  /\ q.at = "complete" => Status(f)' # "none"
               /\ q.at \in {"delete", "deleted"} => Status(f)' \in {"available", "deleted", "purged"}
    BY <1>0, <2>3 DEF Doing, Handling, Bystanders
  <2>4. q.at = "purge" => \A old \in q.loaded : old.file \in F!FileIds /\ Status(old.file)' \in {"deleted", "purged"}
    BY <1>0 DEF Doing, Handling, Bystanders
  <2> QED
    BY <1>0, <2>1, <2>2, <2>3, <2>4 DEF Doing, Handling
<1>4. q.at \notin {"done", "multipart", "presigned"} => \A f \in F!FileIds : f[1] = p => Status(f)' = "none"
  BY <1>0, <1>1 DEF Doing, Bystanders
<1>5. q.at \notin {"done", "multipart", "initiated"} => \A f \in F!FileIds : f[1] = p => f \notin uploads'
  BY <1>0, <1>1 DEF Doing, Bystanders
<1>6. \A f \in uploads' : f[1] = p => f = <<p, 1>>
  BY <1>0, <1>1 DEF Doing, Bystanders
<1> QED
  BY <1>0, <1>2, <1>3, <1>4, <1>5, <1>6 DEF Doing

(* A request moves and leaves the tables to the others.                      *)
LEMMA FileRequestMoves ==
  ASSUME FilesConstants, FilesInv, NEW r \in Clients, NEW q, sent' = [sent EXCEPT ![r] = q],
         Doing(r, q)', Bystanders(r), files' = [f \in F!FileIds |-> files'[f]],
         \A f \in F!FileIds : Status(f)' \in {"none", "uploading", "available", "deleted", "purged"},
         uploads' \subseteq F!FileIds, \A f \in uploads' : Status(f)' \in {"none", "uploading"},
         q.at = "completed" => \A p \in Clients \ {r} : \A f \in F!FileIds :
           sent[p].at = "completed" /\ Holds(sent[p], f) => ~Holds(q, f),
         Retention => \A f \in F!FileIds : Status(f)' = "available" => f \in objects'
  PROVE  FilesInv'
<1>1. sent'[r] = q /\ \A p \in Clients \ {r} : sent'[p] = sent[p]
  BY DEF FilesInv
<1>2. \A p \in Clients : Doing(p, sent[p])'
  BY <1>1, OthersGoOn
<1>3. OneCompletes'
  <2>1. \A p \in Clients : \A f \in F!FileIds : Holds(sent[p], f)' <=> Holds(sent'[p], f)
    BY DEF Holds
  <2>2. \A p \in Clients \ {r}, u \in Clients \ {r} : \A f \in F!FileIds :
          sent'[p].at = "completed" /\ sent'[u].at = "completed" /\ Holds(sent'[p], f) /\ Holds(sent'[u], f) => p = u
    BY <1>1 DEF FilesInv, OneCompletes
  <2>3. \A p \in Clients \ {r} : \A f \in F!FileIds :
          sent'[p].at = "completed" /\ sent'[r].at = "completed" /\ Holds(sent'[p], f) /\ Holds(sent'[r], f) => FALSE
    BY <1>1
  <2> QED
    BY <2>1, <2>2, <2>3 DEF OneCompletes
<1>4. sent' = [p \in Clients |-> sent'[p]]
  BY DEF FilesInv
<1>5. F!AvailableHasObject'
  BY DEF F!AvailableHasObject, Status
<1>6. \A f \in uploads' : f \in F!FileIds /\ Status(f)' \in {"none", "uploading"}
  OBVIOUS
<1> QED
  BY <1>2, <1>3, <1>4, <1>5, <1>6 DEF FilesInv

(* A request moves; at most an object is added.                              *)
LEMMA QuietMoves ==
  ASSUME FilesConstants, FilesInv, NEW r \in Clients, NEW q, sent' = [sent EXCEPT ![r] = q],
         UNCHANGED <<files, uploads>>, objects \subseteq objects', Doing(r, q)', q.at # "completed"
  PROVE  FilesInv'
<1>1. \A f : Status(f)' = Status(f)
  BY DEF Status
<1>2. Bystanders(r)
  BY <1>1 DEF Bystanders
<1>3. Retention => \A f \in F!FileIds : Status(f)' = "available" => f \in objects'
  BY <1>1 DEF FilesInv, F!AvailableHasObject, Status
<1> QED
  BY <1>1, <1>2, <1>3, FileRequestMoves DEF FilesInv

(* Nothing of a request that is over is in the way.                          *)
LEMMA OverDoing ==
  ASSUME NEW r \in Clients, NEW q, q = F!NoRequest, uploads \subseteq F!FileIds, \A f \in F!FileIds : f[1] = r => Status(f) = "none" /\ f \notin uploads
  PROVE  Doing(r, q)
BY DEF Doing, F!NoRequest, IsFileRequest, Uploading, Handling, Holds, Busy

LEMMA DoneDoing ==
  ASSUME NEW r \in Clients, NEW q, Doing(r, q), NEW s, s = [q EXCEPT !.at = "done"]
  PROVE  Doing(r, s)
<1>1. IsFileRequest(s) /\ s.at = "done" /\ s.flushed = q.flushed
  BY DEF Doing, IsFileRequest
<1> QED
  BY <1>1 DEF Doing, Uploading, Handling, Busy

(* A request ends.                                                           *)
LEMMA RequestEnds ==
  ASSUME FilesConstants, FilesInv, NEW r \in Clients, F!Ends(r), UNCHANGED <<files, uploads, objects>>,
         sent[r].at \notin {"idle", "done", "multipart", "presigned"}
  PROVE  FilesInv'
<1>1. Doing(r, sent[r])
  BY DEF FilesInv
<1>2. CASE sent[r].flushed = {} /\ sent[r].batch = 0
  <2> DEFINE q == F!NoRequest
  <2>1. sent' = [sent EXCEPT ![r] = q]
    BY <1>2 DEF F!Ends, F!Notes
  <2>2. q.at = "idle" /\ q = F!NoRequest
    BY DEF F!NoRequest
  <2> HIDE DEF q
  <2>3. sent[r].at # "initiated"
    BY <1>1, <1>2 DEF Doing
  <2>4. Doing(r, q)
    BY <1>1, <2>2, <2>3, OverDoing DEF Doing, FilesInv
  <2>5. Doing(r, q)'
    BY <2>4 DEF Doing, Uploading, Handling, Status, Holds, Busy
  <2> QED
    BY <2>1, <2>2, <2>5, QuietMoves
<1>3. CASE ~(sent[r].flushed = {} /\ sent[r].batch = 0)
  <2> PICK q : q = [sent[r] EXCEPT !.at = "done"]
    OBVIOUS
  <2>1. sent' = [sent EXCEPT ![r] = q]
    BY <1>3 DEF F!Ends, F!Goes, F!Notes
  <2>2. q.at = "done"
    BY <1>1 DEF Doing, IsFileRequest
  <2>3. Doing(r, q)
    BY <1>1, DoneDoing
  <2>4. Doing(r, q)'
    BY <2>3 DEF Doing, Uploading, Handling, Status, Holds, Busy
  <2> QED
    BY <2>1, <2>2, <2>4, QuietMoves
<1> QED
  BY <1>2, <1>3

-----------------------------------------------------------------------------
(* Uploads through the application                                          *)

LEMMA UploadBegins ==
  ASSUME FilesConstants, FilesInv, NEW r \in Clients, NEW n \in 1 .. BatchSize, F!upload_batch_bytes(r, n)
  PROVE  FilesInv'
<1> PICK q : q = [F!NoRequest EXCEPT !.at = "reserve", !.file = <<r, 1>>, !.batch = n]
  OBVIOUS
<1>1. sent' = [sent EXCEPT ![r] = q] /\ UNCHANGED <<files, uploads, objects>> /\ sent[r].at = "idle"
  BY DEF F!upload_batch_bytes, F!Notes, F!At
<1>2. /\ IsFileRequest(q) /\ q.at = "reserve" /\ q.file = <<r, 1>> /\ q.batch = n /\ q.flushed = {}
      /\ q.reserved = 0 /\ q.loaded = {}
  BY DEF F!NoRequest, IsFileRequest
<1>3. Doing(r, sent[r]) /\ Len(Metrics) \in Nat
  BY DEF FilesInv, FilesConstants
<1>4. 1 \in 1 .. q.batch /\ q.reserved \in 0 .. Len(Metrics)
  BY <1>2, <1>3 DEF FilesConstants
<1>5. Doing(r, q)
  BY <1>1, <1>2, <1>3, <1>4 DEF Doing, Uploading, Handling, Holds, Busy
<1>6. Doing(r, q)'
  <2>1. UNCHANGED <<files, uploads, objects>> 
    BY <1>1
  <2> QED
    BY <1>5, <2>1 DEF Doing, Uploading, Handling, Holds, Status, Busy
<1> QED
  BY <1>1, <1>2, <1>6, QuietMoves

\* What stays of a request while its file is uploaded.
SameUpload(r, q) ==
  /\ IsFileRequest(q) /\ sent[r].at \in Busy /\ q.at \in Busy
  /\ q.file = sent[r].file /\ q.batch = sent[r].batch /\ q.flushed = sent[r].flushed /\ q.loaded = sent[r].loaded

(* A request that uploads moves on with its file.                            *)
LEMMA UploadGoes ==
  ASSUME FilesConstants, FilesInv, NEW r \in Clients, NEW q, SameUpload(r, q), sent' = [sent EXCEPT ![r] = q],
         q.reserved \in 0 .. Len(Metrics), UNCHANGED <<files, uploads>>, objects \subseteq objects',
         q.at = "stored" => sent[r].file \in objects' /\ q.reserved = Len(Metrics),
         q.at \in {"missing", "refused"} => q.reserved + 1 \in F!Rules, q.at = "write" => q.reserved \in F!Rules
  PROVE  FilesInv'
<1>1. Doing(r, sent[r])
  BY DEF FilesInv
<1>2. Uploading(r, q)'
  BY <1>1 DEF Doing, Uploading, F!Rules, SameUpload, Busy
<1>3. Handling(q)'
  BY DEF Handling, SameUpload, Busy
<1>4. q.at # "completed" /\ Doing(r, q)'
  BY <1>1, <1>2, <1>3 DEF Doing, Status, SameUpload, Busy
<1> QED
  BY <1>4, QuietMoves

LEMMA UploadSteps ==
  ASSUME FilesConstants, FilesInv, NEW r \in Clients,
         F!put_file(r) \/ F!StoreFails(r) \/ F!UploadRefused(r)
  PROVE  FilesInv'
<1>1. Doing(r, sent[r]) /\ IsFileRequest(sent[r]) /\ Len(Metrics) \in Nat
  BY DEF FilesInv, FilesConstants, Doing
<1>2. sent[r].at \in Busy => sent[r].reserved \in 0 .. Len(Metrics)
  BY <1>1 DEF Doing, Uploading, Busy
<1>3. CASE F!put_file(r)
  <2> PICK q : q = [sent[r] EXCEPT !.at = "stored"]
    OBVIOUS
  <2>1. sent' = [sent EXCEPT ![r] = q]
        /\ sent[r].at = "reserve" /\ UNCHANGED <<files, uploads>> /\ objects' = objects \cup {sent[r].file}
        /\ sent[r].reserved = Len(Metrics)
    BY <1>3 DEF F!put_file, F!Goes, F!Notes, F!At
  <2>2. SameUpload(r, q) /\ q.at = "stored" /\ q.reserved = sent[r].reserved /\ q.reserved \in 0 .. Len(Metrics)
    BY <1>1, <2>1 DEF IsFileRequest, SameUpload, Busy
  <2> QED
    BY <2>1, <2>2, UploadGoes
<1>4. CASE F!StoreFails(r)
  <2> PICK q : q = [sent[r] EXCEPT !.at = "release"]
    OBVIOUS
  <2>1. sent' = [sent EXCEPT ![r] = q] /\ sent[r].at \in {"reserve", "stored"} /\ UNCHANGED <<files, uploads, objects>>
    BY <1>4 DEF F!StoreFails, F!Goes, F!Notes, F!At
  <2>2. SameUpload(r, q) /\ q.at = "release" /\ q.reserved = sent[r].reserved /\ sent[r].at \in Busy
    BY <1>1, <2>1 DEF IsFileRequest, SameUpload, Busy
  <2> QED
    BY <1>2, <2>1, <2>2, UploadGoes
<1>5. CASE F!UploadRefused(r)
  BY <1>5, RequestEnds DEF F!UploadRefused, F!At
<1> QED
  BY <1>3, <1>4, <1>5

\* A step at the usage store.
QuotaStep(r) ==
  \/ F!_reserve_upload_quotas(r) \/ F!ReserveMisses(r) \/ F!ReserveInserts(r) \/ F!ReserveIsLate(r)
  \/ F!QuotaRefuses(r) \/ F!require_reserve(r)
  \/ F!_release_upload_quotas(r) \/ F!ReleaseReads(r) \/ F!ReleaseWrites(r)

\* The steps that leave the counters alone, and those that reserve or release under a rule.
AsksQuota(r, q) ==
  /\ q.at # "stored" /\ q.reserved = sent[r].reserved
  /\ q.at \in {"missing", "refused"} => q.reserved + 1 \in F!Rules
  /\ IF q.at = "write" THEN q.reserved \in F!Rules /\ q.read = counted[F!Key(r, q.reserved)]
                       ELSE q.read = sent[r].read
  /\ store = "memory" => q.at \notin {"missing", "refused", "write"} \/ sent[r].at = "missing"
  /\ UNCHANGED <<store, counted, lost>>

QuotaGranted(r, q) ==
  /\ q.at = "reserve" /\ q.reserved \in F!Rules /\ q.reserved = sent[r].reserved + 1 /\ q.read = sent[r].read
  /\ LET key == F!Key(r, q.reserved) IN
       \/ /\ counted' = [counted EXCEPT ![key] = @ + F!QuotaAmount(q.reserved)]
          /\ UNCHANGED <<store, lost>>
       \/ /\ sent[r].at = "refused" /\ lost' = lost \cup {key}
          /\ UNCHANGED <<store, counted>>

QuotaReleased(r, q) ==
  /\ q.at = "release" /\ sent[r].reserved \in F!Rules /\ q.reserved = sent[r].reserved - 1 /\ q.read = sent[r].read
  /\ LET key == F!Key(r, sent[r].reserved)
         amount == F!QuotaAmount(sent[r].reserved)
     IN  \/ /\ counted' = [counted EXCEPT ![key] = F!Less(counted[key], amount)]
            /\ UNCHANGED <<store, lost>>
         \/ /\ sent[r].at = "write" /\ counted' = [counted EXCEPT ![key] = F!Less(sent[r].read, amount)]
            /\ lost' = IF counted[key] > sent[r].read THEN lost \cup {key} ELSE lost
            /\ UNCHANGED store

LEMMA QuotaCases ==
  ASSUME FilesInv, NEW r \in Clients, QuotaStep(r)
  PROVE  /\ UNCHANGED <<files, objects, uploads>>
         /\ \E q : /\ SameUpload(r, q) /\ sent' = [sent EXCEPT ![r] = q]
                   /\ AsksQuota(r, q) \/ QuotaGranted(r, q) \/ QuotaReleased(r, q)
<1>1. Doing(r, sent[r]) /\ IsFileRequest(sent[r])
  BY DEF FilesInv, Doing
<1>2. /\ sent[r].at \in {"missing", "refused"} => sent[r].reserved + 1 \in F!Rules
      /\ sent[r].at = "write" => sent[r].reserved \in F!Rules
  BY <1>1 DEF Doing, Uploading, Busy
<1>b. {"reserve", "missing", "refused", "release", "write"} \subseteq Busy
  BY DEF Busy
<1>3. ASSUME NEW place \in {"reserve", "missing", "refused", "release"}, sent[r].at \in {"reserve", "missing", "refused"},
             sent' = [sent EXCEPT ![r] = [sent[r] EXCEPT !.at = place]], UNCHANGED <<store, counted, lost>>,
             place \in {"missing", "refused"} => sent[r].reserved + 1 \in F!Rules,
             store = "memory" => place \notin {"missing", "refused"} \/ sent[r].at = "missing"
      PROVE  \E q : SameUpload(r, q) /\ sent' = [sent EXCEPT ![r] = q] /\ AsksQuota(r, q)
  <2> PICK q : q = [sent[r] EXCEPT !.at = place]
    OBVIOUS
  <2>1. SameUpload(r, q) /\ q.at = place /\ q.reserved = sent[r].reserved /\ q.read = sent[r].read
    BY <1>1, <1>b, <1>3 DEF IsFileRequest, SameUpload
  <2>2. AsksQuota(r, q)
    BY <1>3, <2>1 DEF AsksQuota
  <2> QED
    BY <1>3, <2>1, <2>2
<1>4. CASE F!_reserve_upload_quotas(r) \/ F!ReserveInserts(r) \/ (F!require_reserve(r) /\ F!Fits(r))
  <2> PICK q : q = [sent[r] EXCEPT !.at = "reserve", !.reserved = sent[r].reserved + 1]
    OBVIOUS
  <2>1. /\ sent[r].at \in {"reserve", "missing", "refused"} /\ sent[r].reserved + 1 \in F!Rules
        /\ sent' = [sent EXCEPT ![r] = q] /\ UNCHANGED <<store, files, objects, uploads>>
    BY <1>2, <1>4
       DEF F!_reserve_upload_quotas, F!ReserveInserts, F!require_reserve, F!Reserving, F!Books, F!Grants, F!Notes,
           F!At, F!NextRule
  <2>2. SameUpload(r, q) /\ q.at = "reserve" /\ q.reserved = sent[r].reserved + 1 /\ q.read = sent[r].read
    BY <1>1, <1>b, <2>1 DEF IsFileRequest, SameUpload
  <2>3. LET key == F!Key(r, sent[r].reserved + 1) IN
          \/ counted' = [counted EXCEPT ![key] = @ + F!QuotaAmount(sent[r].reserved + 1)] /\ lost' = lost
          \/ sent[r].at = "refused" /\ lost' = lost \cup {key} /\ counted' = counted
    BY <1>4 DEF F!_reserve_upload_quotas, F!ReserveInserts, F!require_reserve, F!Books, F!At, F!NextRule
  <2>4. QuotaGranted(r, q)
    BY <2>1, <2>2, <2>3 DEF QuotaGranted
  <2> QED
    BY <2>1, <2>2, <2>4
<1>5. CASE F!ReserveMisses(r) \/ F!ReserveIsLate(r) \/ F!QuotaRefuses(r) \/ (F!require_reserve(r) /\ ~F!Fits(r))
  <2>1. \E place \in {"reserve", "missing", "refused", "release"} :
          /\ sent' = [sent EXCEPT ![r] = [sent[r] EXCEPT !.at = place]]
          /\ place \in {"missing", "refused"} => sent[r].reserved + 1 \in F!Rules
          /\ store = "memory" => place \notin {"missing", "refused"} \/ sent[r].at = "missing"
          /\ sent[r].at \in {"reserve", "missing", "refused"} /\ UNCHANGED <<store, counted, lost>>
    BY <1>2, <1>5 DEF F!ReserveMisses, F!ReserveIsLate, F!QuotaRefuses, F!require_reserve, F!Reserving, F!Goes, F!Notes,
                      F!At, F!NextRule, F!usageVars
  <2>2. UNCHANGED <<files, objects, uploads>>
    BY <1>5 DEF F!ReserveMisses, F!ReserveIsLate, F!QuotaRefuses, F!require_reserve
  <2> QED
    BY <1>3, <2>1, <2>2
<1>6. CASE F!_release_upload_quotas(r) \/ F!ReleaseWrites(r)
  <2> PICK q : q = [sent[r] EXCEPT !.at = "release", !.reserved = sent[r].reserved - 1]
    OBVIOUS
  <2>1. /\ sent[r].at \in {"release", "write"} /\ sent[r].reserved \in F!Rules
        /\ sent' = [sent EXCEPT ![r] = q] /\ UNCHANGED <<store, files, objects, uploads>>
    BY <1>2, <1>6 DEF F!_release_upload_quotas, F!ReleaseWrites, F!Released, F!Notes, F!At, F!LastRule
  <2>2. SameUpload(r, q) /\ q.at = "release" /\ q.reserved = sent[r].reserved - 1 /\ q.read = sent[r].read
    BY <1>1, <1>b, <2>1 DEF IsFileRequest, SameUpload
  <2>3. LET key == F!Key(r, sent[r].reserved)
            amount == F!QuotaAmount(sent[r].reserved)
        IN  \/ counted' = [counted EXCEPT ![key] = F!Less(counted[key], amount)] /\ lost' = lost
            \/ /\ sent[r].at = "write" /\ counted' = [counted EXCEPT ![key] = F!Less(sent[r].read, amount)]
               /\ lost' = IF counted[key] > sent[r].read THEN lost \cup {key} ELSE lost
    BY <1>6 DEF F!_release_upload_quotas, F!ReleaseWrites, F!At, F!LastRule
  <2>4. QuotaReleased(r, q)
    BY <2>1, <2>2, <2>3 DEF QuotaReleased
  <2> QED
    BY <2>1, <2>2, <2>4
<1>7. CASE F!ReleaseReads(r)
  <2> DEFINE n == counted[F!Key(r, sent[r].reserved)]
  <2> PICK q : q = [sent[r] EXCEPT !.at = "write", !.read = n]
    OBVIOUS
  <2>1. /\ sent[r].at = "release" /\ sent[r].reserved \in F!Rules /\ store = "database"
        /\ sent' = [sent EXCEPT ![r] = q] /\ UNCHANGED <<store, counted, lost, files, objects, uploads>>
    BY <1>7 DEF F!ReleaseReads, F!Notes, F!At, F!LastRule, F!usageVars
  <2>2. SameUpload(r, q) /\ q.at = "write" /\ q.reserved = sent[r].reserved /\ q.read = n
    BY <1>1, <1>b, <2>1 DEF IsFileRequest, SameUpload
  <2>3. AsksQuota(r, q)
    BY <2>1, <2>2 DEF AsksQuota
  <2> QED
    BY <2>1, <2>2, <2>3
<1> QED
  BY <1>4, <1>5, <1>6, <1>7 DEF QuotaStep

LEMMA QuotaSteps ==
  ASSUME FilesConstants, FilesInv, NEW r \in Clients, QuotaStep(r) PROVE FilesInv'
<1>1. UNCHANGED <<files, objects, uploads>>
  BY QuotaCases
<1>2. PICK q : /\ SameUpload(r, q) /\ sent' = [sent EXCEPT ![r] = q]
               /\ AsksQuota(r, q) \/ QuotaGranted(r, q) \/ QuotaReleased(r, q)
  BY QuotaCases
<1>3. sent[r].reserved \in 0 .. Len(Metrics) /\ Len(Metrics) \in Nat
  BY <1>2 DEF FilesInv, Doing, Uploading, FilesConstants, SameUpload, Busy
<1>4. q.reserved \in 0 .. Len(Metrics)
  BY <1>2, <1>3 DEF AsksQuota, QuotaGranted, QuotaReleased, F!Rules
<1>5. /\ q.at # "stored" /\ (q.at \in {"missing", "refused"} => q.reserved + 1 \in F!Rules)
      /\ q.at = "write" => q.reserved \in F!Rules
  BY <1>2 DEF AsksQuota, QuotaGranted, QuotaReleased
<1> QED
  BY <1>1, <1>2, <1>4, <1>5, UploadGoes

LEMMA FileFlushes ==
  ASSUME FilesConstants, FilesInv, NEW r \in Clients, F!Flushes(r) PROVE FilesInv'
<1>1. Doing(r, sent[r]) /\ IsFileRequest(sent[r]) /\ sent[r].at = "stored" /\ UNCHANGED <<files, uploads, objects>>
  BY DEF FilesInv, Doing, F!Flushes, F!At
<1>2. PICK n \in 1 .. sent[r].batch : sent[r].file = <<r, n>> /\ \A m \in n .. BatchSize : <<r, m>> \notin sent[r].flushed
  BY <1>1 DEF Doing, Uploading, Busy
<1>3. sent[r].batch \in 1 .. BatchSize /\ <<r, n>> \in objects /\ sent[r].flushed \subseteq objects /\ Len(Metrics) \in Nat
  BY <1>1, <1>2 DEF Doing, Uploading, FilesConstants, Busy
<1>n. n \in 1 .. BatchSize /\ (n < sent[r].batch => n + 1 \in 1 .. sent[r].batch)
  BY <1>2, <1>3 DEF FilesConstants
<1> PICK q : q = [sent[r] EXCEPT !.at = IF n < sent[r].batch THEN "reserve" ELSE "upload",
                                !.file = IF n < sent[r].batch THEN <<r, n + 1>> ELSE <<>>,
                                !.reserved = 0, !.flushed = @ \cup {<<r, n>>}]
  OBVIOUS
<1>4. sent' = [sent EXCEPT ![r] = q]
  BY <1>2 DEF F!Flushes, F!Notes
<1>5. /\ IsFileRequest(q) /\ q.at = (IF n < sent[r].batch THEN "reserve" ELSE "upload")
      /\ n < sent[r].batch => q.file = <<r, n + 1>>
      /\ q.reserved = 0 /\ q.flushed = sent[r].flushed \cup {<<r, n>>}
      /\ q.batch = sent[r].batch /\ q.loaded = sent[r].loaded
  BY <1>1 DEF IsFileRequest
<1>6. <<r, n>> \in F!FileIds /\ <<r, n>>[1] = r
  BY <1>n DEF F!FileIds
<1>7. \A m \in n + 1 .. BatchSize : <<r, m>> \notin q.flushed
  <2> TAKE m \in n + 1 .. BatchSize
  <2>1. m \in n .. BatchSize /\ m # n
    BY <1>n DEF FilesConstants
  <2> QED
    BY <1>2, <1>5, <2>1
<1>8. Uploading(r, q)'
  BY <1>1, <1>3, <1>n, <1>5, <1>7 DEF Uploading, Busy
<1>9. Doing(r, q)'
  BY <1>1, <1>5, <1>6, <1>8 DEF Doing, Handling, Status
<1>10. q.at # "completed"
  BY <1>5
<1> QED
  BY <1>1, <1>4, <1>9, <1>10, QuietMoves

LEMMA UploadEnds ==
  ASSUME FilesConstants, FilesInv, NEW r \in Clients, F!UploadCommits(r) PROVE FilesInv'
<1>1. Doing(r, sent[r]) /\ sent[r].at = "upload" /\ UNCHANGED <<uploads, objects>>
  BY DEF FilesInv, F!UploadCommits, F!At
<1> DEFINE row == [status |-> "available", version |-> 1, expired |-> FALSE]
<1>2. files' = [f \in F!FileIds |-> IF f \in sent[r].flushed THEN row ELSE files[f]]
  BY DEF F!UploadCommits
<1>3. row.status = "available"
  OBVIOUS
<1> HIDE DEF row
<1>4. \A f \in F!FileIds : Status(f)' = IF f \in sent[r].flushed THEN "available" ELSE Status(f)
  BY <1>2, <1>3 DEF Status
<1>5. /\ sent[r].batch \in 1 .. BatchSize /\ sent[r].flushed \subseteq objects
      /\ \A f \in sent[r].flushed : f \in F!FileIds /\ f[1] = r /\ Status(f) = "none" /\ f \notin uploads
  BY <1>1 DEF Doing, Uploading, Busy
<1> PICK q : q = [sent[r] EXCEPT !.at = "done"]
  OBVIOUS
<1>6. sent' = [sent EXCEPT ![r] = q]
  BY <1>5 DEF F!UploadCommits, F!Ends, F!Goes, F!Notes
<1>7. q.at = "done" /\ Doing(r, q)
  BY <1>1, DoneDoing DEF Doing, IsFileRequest
<1>8. Doing(r, q)'
  BY <1>1, <1>7 DEF Doing, Uploading, Handling, Busy
<1>9. Bystanders(r)
  BY <1>1, <1>4, <1>5 DEF Bystanders
<1>10. Retention => \A f \in F!FileIds : Status(f)' = "available" => f \in objects'
  BY <1>1, <1>4, <1>5 DEF FilesInv, F!AvailableHasObject, Status
<1>11. \A f \in uploads' : f \in F!FileIds /\ Status(f)' \in {"none", "uploading"}
  BY <1>1, <1>4, <1>5 DEF FilesInv
<1>12. \A f \in F!FileIds : Status(f)' \in {"none", "uploading", "available", "deleted", "purged"}
  BY <1>4 DEF FilesInv
<1>13. files' = [f \in F!FileIds |-> files'[f]]
  BY <1>2
<1> QED
  BY <1>6, <1>7, <1>8, <1>9, <1>10, <1>11, <1>12, <1>13, FileRequestMoves

-----------------------------------------------------------------------------
(* Uploads by the client                                                    *)

LEMMA ClientUploads ==
  ASSUME FilesConstants, FilesInv, NEW r \in Clients,
         F!create_presigned_upload(r) \/ F!initiate_multipart_upload(r)
  PROVE  FilesInv'
<1>1. /\ Doing(r, sent[r]) /\ sent[r].at = "idle" /\ UNCHANGED <<files, objects>>
      /\ uploads' = uploads \/ uploads' = uploads \cup {<<r, 1>>}
  BY DEF FilesInv, F!create_presigned_upload, F!initiate_multipart_upload, F!At
<1>2. <<r, 1>> \in F!FileIds /\ <<r, 1>>[1] = r /\ Status(<<r, 1>>) = "none"
  <2>1. 1 \in 1 .. BatchSize
    BY DEF FilesConstants
  <2> QED
    BY <1>1, <2>1 DEF F!FileIds, Doing
<1> PICK q : q = [F!NoRequest EXCEPT !.at = "initiated", !.flushed = {<<r, 1>>}]
  OBVIOUS
<1>3. sent' = [sent EXCEPT ![r] = q]
  BY DEF F!create_presigned_upload, F!initiate_multipart_upload, F!Notes
<1>4. /\ IsFileRequest(q) /\ q.at = "initiated" /\ q.flushed = {<<r, 1>>} /\ q.loaded = {} /\ q.batch = 0
  BY DEF F!NoRequest, IsFileRequest
<1>s. \A f : Status(f)' = Status(f)
  BY <1>1 DEF Status
<1>5. Bystanders(r)
  BY <1>1, <1>2, <1>s DEF Bystanders
<1>6. Doing(r, q)'
  <2>1. \A f \in uploads : f[1] # r
    BY <1>1 DEF FilesInv, Doing
  <2>2. \A f \in uploads' : f[1] = r => f = <<r, 1>>
    BY <1>1, <2>1
  <2>3. Uploading(r, q)' /\ Handling(q)'
    BY <1>4 DEF Uploading, Handling, Holds, Busy
  <2>4. \A f \in F!FileIds : f[1] = r => Status(f)' = "none"
    BY <1>1, <1>s DEF Doing
  <2>5. q.flushed \subseteq {f \in F!FileIds : f[1] = r}
    BY <1>2, <1>4
  <2> QED
    BY <1>4, <2>2, <2>3, <2>4, <2>5 DEF Doing
<1>7. \A f \in uploads' : f \in F!FileIds /\ Status(f)' \in {"none", "uploading"}
  BY <1>1, <1>2, <1>s DEF FilesInv
<1>8. Retention => \A f \in F!FileIds : Status(f)' = "available" => f \in objects'
  BY <1>1, <1>s DEF FilesInv, F!AvailableHasObject, Status
<1>9. q.at # "completed"
  BY <1>4
<1> QED
  BY <1>1, <1>3, <1>5, <1>6, <1>7, <1>8, <1>9, <1>s, FileRequestMoves DEF FilesInv

LEMMA InitiateEnds ==
  ASSUME FilesConstants, FilesInv, NEW r \in Clients, F!InitiateCommits(r) PROVE FilesInv'
<1>1. Doing(r, sent[r]) /\ sent[r].at = "initiated" /\ UNCHANGED <<uploads, objects>>
  BY DEF FilesInv, F!InitiateCommits, F!At
<1> DEFINE row == [status |-> "uploading", version |-> 1, expired |-> FALSE]
<1>2. files' = [files EXCEPT ![<<r, 1>>] = row]
  BY DEF F!InitiateCommits
<1>3. row.status = "uploading"
  OBVIOUS
<1> HIDE DEF row
<1>4. <<r, 1>> \in F!FileIds /\ Status(<<r, 1>>) = "none" /\ sent[r].flushed = {<<r, 1>>}
  BY <1>1 DEF Doing
<1>5. \A f \in F!FileIds : Status(f)' = IF f = <<r, 1>> THEN "uploading" ELSE Status(f)
  BY <1>2, <1>3 DEF Status, FilesInv
<1> PICK q : q = [sent[r] EXCEPT !.at = IF <<r, 1>> \in uploads THEN "multipart" ELSE "presigned"]
  OBVIOUS
<1>6. sent' = [sent EXCEPT ![r] = q]
  BY DEF F!InitiateCommits, F!Goes, F!Notes
<1>7. /\ q.at = (IF <<r, 1>> \in uploads THEN "multipart" ELSE "presigned")
      /\ q.flushed = {<<r, 1>>} /\ IsFileRequest(q)
  BY <1>1, <1>4 DEF Doing, IsFileRequest
<1>8. Doing(r, q)'
  BY <1>1, <1>4, <1>7 DEF Doing, Uploading, Handling, Busy
<1>9. Bystanders(r)
  BY <1>1, <1>4, <1>5 DEF Bystanders
<1>10. Retention => \A f \in F!FileIds : Status(f)' = "available" => f \in objects'
  BY <1>1, <1>5 DEF FilesInv, F!AvailableHasObject, Status
<1>11. \A f \in uploads' : f \in F!FileIds /\ Status(f)' \in {"none", "uploading"}
  BY <1>1, <1>5 DEF FilesInv
<1>12. \A f \in F!FileIds : Status(f)' \in {"none", "uploading", "available", "deleted", "purged"}
  BY <1>5 DEF FilesInv
<1>13. files' = [f \in F!FileIds |-> files'[f]]
  BY <1>2 DEF FilesInv
<1>14. q.at # "completed"
  BY <1>7
<1> QED
  BY <1>6, <1>8, <1>9, <1>10, <1>11, <1>12, <1>13, <1>14, FileRequestMoves
-----------------------------------------------------------------------------
(* Reading, completing, deleting, purging                                   *)

(* A request loads one file, or the files that are due.                      *)
LEMMA RequestLoads ==
  ASSUME FilesConstants, FilesInv, NEW r \in Clients, sent[r].at = "idle",
         NEW place \in {"complete", "download", "delete", "purge"}, NEW chosen \in SUBSET F!FileIds,
         F!Load(r, place, chosen), UNCHANGED <<files, objects, uploads>>,
         place # "purge" => \E f : chosen = {f},
         \A f \in chosen :
           /\ place = "complete" => Status(f) # "none"
           /\ place = "delete" => Status(f) = "available"
           /\ place = "purge" => Status(f) = "deleted"
  PROVE  FilesInv'
<1>1. Doing(r, sent[r])
  BY DEF FilesInv
<1> PICK q : q = [F!NoRequest EXCEPT !.at = place, !.loaded = {[file |-> f, version |-> files[f].version] : f \in chosen}]
  OBVIOUS
<1>2. sent' = [sent EXCEPT ![r] = q]
  BY DEF F!Load, F!Notes
<1>3. /\ IsFileRequest(q) /\ q.at = place /\ q.flushed = {} /\ q.batch = 0
      /\ q.loaded = {[file |-> f, version |-> files[f].version] : f \in chosen}
  BY DEF F!NoRequest, IsFileRequest
<1>4. /\ \A old \in q.loaded : old.file \in chosen
      /\ \A f \in chosen : \E old \in q.loaded : old.file = f
  <2> DEFINE entry(f) == [file |-> f, version |-> files[f].version]
  <2>1. \A f : entry(f).file = f
    OBVIOUS
  <2>2. q.loaded = {entry(f) : f \in chosen}
    BY <1>3
  <2> HIDE DEF entry
  <2> QED
    BY <2>1, <2>2
<1>5. \A f : Holds(q, f) => f \in chosen
  BY <1>4 DEF Holds
<1>6. place # "purge" => \E f \in F!FileIds : Holds(q, f)
  BY <1>4 DEF Holds
<1>s. \A f : Status(f)' = Status(f) /\ (Holds(q, f)' <=> Holds(q, f))
  BY DEF Status, Holds
<1>7. Handling(q)'
  BY <1>3, <1>4, <1>5, <1>6, <1>s DEF Handling
<1>8. Doing(r, q)'
  BY <1>1, <1>3, <1>7, <1>s DEF Doing, Uploading, Busy
<1> QED
  BY <1>2, <1>3, <1>8, QuietMoves

(* TheLoaded is the file that is held.                                       *)
LEMMA TheHeld ==
  ASSUME NEW r, NEW f, Holds(sent[r], f) PROVE F!TheLoaded(r) = f
<1>1. (CHOOSE old \in sent[r].loaded : TRUE) \in sent[r].loaded
  BY DEF Holds
<1> QED
  BY <1>1 DEF Holds, F!TheLoaded

LEMMA CompletionStores ==
  ASSUME FilesConstants, FilesInv, NEW r \in Clients, F!CompleteStores(r) PROVE FilesInv'
<1>1. Doing(r, sent[r]) /\ sent[r].at = "complete" /\ UNCHANGED files
  BY DEF FilesInv, F!CompleteStores, F!At
<1>2. PICK f \in F!FileIds : Holds(sent[r], f)
  BY <1>1 DEF Doing, Handling
<1>3. /\ F!TheLoaded(r) = f /\ f \in uploads /\ Status(f) = "uploading"
      /\ objects' = objects \cup {f} /\ uploads' = uploads \ {f}
  <2>1. F!TheLoaded(r) = f
    BY <1>2, TheHeld
  <2> QED
    BY <1>1, <1>2, <2>1 DEF F!CompleteStores, FilesInv, Doing, Handling
<1> PICK q : q = [sent[r] EXCEPT !.at = "completed"]
  OBVIOUS
<1>4. sent' = [sent EXCEPT ![r] = q]
  BY DEF F!CompleteStores, F!Goes, F!Notes
<1>5. /\ IsFileRequest(q) /\ q.at = "completed" /\ q.flushed = sent[r].flushed /\ q.batch = sent[r].batch
      /\ q.loaded = sent[r].loaded
  BY <1>1 DEF Doing, IsFileRequest
<1>6. \A g : Holds(q, g) <=> g = f
  BY <1>2, <1>5 DEF Holds
<1>s. \A g : Status(g)' = Status(g) /\ (Holds(q, g)' <=> Holds(q, g))
  BY <1>1 DEF Status, Holds
<1>7. Doing(r, q)'
  BY <1>1, <1>3, <1>5, <1>6, <1>s DEF Doing, Uploading, Handling, Busy
<1>8. Bystanders(r)
  BY <1>1, <1>3, <1>s DEF Bystanders
<1>9. \A p \in Clients \ {r} : \A g \in F!FileIds : sent[p].at = "completed" /\ Holds(sent[p], g) => ~Holds(q, g)
  BY <1>3, <1>6 DEF FilesInv, Doing, Handling
<1>10. \A g \in uploads' : g \in F!FileIds /\ Status(g)' \in {"none", "uploading"}
  BY <1>3, <1>s DEF FilesInv
<1>11. Retention => \A g \in F!FileIds : Status(g)' = "available" => g \in objects'
  BY <1>1, <1>3, <1>s DEF FilesInv, F!AvailableHasObject, Status
<1> QED
  BY <1>1, <1>4, <1>7, <1>8, <1>9, <1>10, <1>11, <1>s, FileRequestMoves DEF FilesInv

(* What Written makes of the status of the files that were loaded.           *)
LEMMA WrittenStatus ==
  ASSUME NEW q, NEW status, NEW expired, files' = F!Written(q.loaded, status, expired)
  PROVE  /\ \A f \in F!FileIds : Status(f)' = IF \E old \in q.loaded : old.file = f THEN status ELSE Status(f)
         /\ files' = [f \in F!FileIds |-> files'[f]]
<1> DEFINE row(f) == [status |-> status, expired |-> expired,
                      version |-> (CHOOSE old \in q.loaded : old.file = f).version + 1]
<1>1. files' = [f \in F!FileIds |-> IF \E old \in q.loaded : old.file = f THEN row(f) ELSE files[f]]
  BY DEF F!Written
<1>2. \A f : row(f).status = status
  OBVIOUS
<1> HIDE DEF row
<1> QED
  BY <1>1, <1>2 DEF Status

(* A request writes back what it has loaded, and ends.                       *)
LEMMA RequestWrites ==
  ASSUME FilesConstants, FilesInv, NEW r \in Clients, NEW status, NEW expired,
         files' = F!Written(sent[r].loaded, status, expired), F!Ends(r), UNCHANGED <<objects, uploads>>,
         \/ sent[r].at = "completed" /\ status = "available"
         \/ sent[r].at = "deleted" /\ status = "deleted"
         \/ sent[r].at = "purge" /\ status = "purged"
  PROVE  FilesInv'
<1>1. Doing(r, sent[r])
  BY DEF FilesInv
<1>2. /\ \A f \in F!FileIds : Status(f)' = IF \E old \in sent[r].loaded : old.file = f THEN status ELSE Status(f)
      /\ files' = [f \in F!FileIds |-> files'[f]]
  BY WrittenStatus
<1>3. ASSUME NEW f \in F!FileIds, NEW old \in sent[r].loaded, old.file = f
      PROVE  /\ sent[r].at = "completed" => Status(f) = "uploading" /\ f \in objects /\ f \notin uploads
                                            /\ Holds(sent[r], f)
             /\ sent[r].at = "deleted" => Status(f) \in {"available", "deleted", "purged"}
             /\ sent[r].at = "purge" => Status(f) \in {"deleted", "purged"}
  <2>1. sent[r].at \in {"completed", "deleted"} => Holds(sent[r], f)
    BY <1>1, <1>3 DEF Doing, Handling, Holds
  <2> QED
    BY <1>1, <1>3, <2>1 DEF Doing, Handling
<1> PICK q : q = F!NoRequest
  OBVIOUS
<1>4. sent' = [sent EXCEPT ![r] = q] /\ q.at = "idle"
  BY <1>1 DEF F!Ends, F!Notes, Doing, F!NoRequest
<1>5. \A f \in F!FileIds : f[1] = r => Status(f)' = "none" /\ f \notin uploads'
  BY <1>1, <1>2, <1>3 DEF Doing
<1>6. Doing(r, q)'
  BY <1>1, <1>5 DEF Doing, F!NoRequest, IsFileRequest, Uploading, Handling, Holds, Busy
<1>7. Bystanders(r)
  BY <1>2, <1>3 DEF Bystanders
<1>8. \A f \in uploads' : f \in F!FileIds /\ Status(f)' \in {"none", "uploading"}
  BY <1>2, <1>3 DEF FilesInv
<1>9. Retention => \A f \in F!FileIds : Status(f)' = "available" => f \in objects'
  BY <1>2, <1>3 DEF FilesInv, F!AvailableHasObject, Status
<1>10. \A f \in F!FileIds : Status(f)' \in {"none", "uploading", "available", "deleted", "purged"}
  BY <1>2, <1>3 DEF FilesInv
<1>11. q.at # "completed"
  BY <1>4
<1> QED
  BY <1>2, <1>4, <1>6, <1>7, <1>8, <1>9, <1>10, <1>11, FileRequestMoves
(* A request that holds its file moves on; with a retention no object goes.  *)
LEMMA HoldingGoes ==
  ASSUME FilesConstants, FilesInv, NEW r \in Clients, sent[r].at = "delete", F!DeleteRemoves(r)
  PROVE  FilesInv'
<1>1. Doing(r, sent[r]) /\ UNCHANGED <<files, uploads>>
  BY DEF FilesInv, F!DeleteRemoves
<1>2. PICK f \in F!FileIds : Holds(sent[r], f)
  BY <1>1 DEF Doing, Handling
<1>3. F!TheLoaded(r) = f /\ Status(f) \in {"available", "deleted", "purged"}
      /\ objects' = IF Retention THEN objects ELSE objects \ {f}
  BY <1>1, <1>2, TheHeld DEF F!DeleteRemoves, Doing, Handling
<1> PICK q : q = [sent[r] EXCEPT !.at = "deleted"]
  OBVIOUS
<1>4. sent' = [sent EXCEPT ![r] = q]
  BY DEF F!DeleteRemoves, F!Goes, F!Notes
<1>5. /\ IsFileRequest(q) /\ q.at = "deleted" /\ q.flushed = sent[r].flushed /\ q.batch = sent[r].batch
      /\ q.loaded = sent[r].loaded
  BY <1>1 DEF Doing, IsFileRequest
<1>s. \A g : Status(g)' = Status(g) /\ (Holds(q, g)' <=> Holds(sent[r], g))
  BY <1>1, <1>5 DEF Status, Holds
<1>6. Handling(q)'
  BY <1>1, <1>5, <1>s DEF Doing, Handling
<1>7. Doing(r, q)'
  BY <1>1, <1>5, <1>6, <1>s DEF Doing, Uploading, Busy
<1>8. Bystanders(r)
  BY <1>1, <1>3, <1>s DEF Bystanders
<1>9. Retention => \A g \in F!FileIds : Status(g)' = "available" => g \in objects'
  BY <1>3, <1>s DEF FilesInv, F!AvailableHasObject, Status
<1>10. q.at # "completed"
  BY <1>5
<1> QED
  BY <1>1, <1>4, <1>7, <1>8, <1>9, <1>10, <1>s, FileRequestMoves DEF FilesInv

LEMMA PurgeGoes ==
  ASSUME FilesConstants, FilesInv, NEW r \in Clients, F!PurgeRemoves(r) PROVE FilesInv'
<1>1. Doing(r, sent[r]) /\ UNCHANGED <<files, uploads>>
  BY DEF FilesInv, F!PurgeRemoves
<1>2. PICK old \in sent[r].loaded :
        /\ sent[r].at = "purge" /\ objects' = objects \ {old.file}
        /\ sent' = [sent EXCEPT ![r] = [sent[r] EXCEPT !.removed = @ \cup {old.file}]]
  BY DEF F!PurgeRemoves, F!At, F!Notes
<1>3. old.file \in F!FileIds /\ Status(old.file) \in {"deleted", "purged"}
  BY <1>1, <1>2 DEF Doing, Handling
<1> PICK q : q = [sent[r] EXCEPT !.removed = @ \cup {old.file}]
  OBVIOUS
<1>4. sent' = [sent EXCEPT ![r] = q]
  BY <1>2
<1>5. /\ IsFileRequest(q) /\ q.at = "purge" /\ q.flushed = sent[r].flushed /\ q.batch = sent[r].batch
      /\ q.loaded = sent[r].loaded
  BY <1>1, <1>2 DEF Doing, IsFileRequest
<1>s. \A g : Status(g)' = Status(g)
  BY <1>1 DEF Status
<1>6. Handling(q)'
  BY <1>1, <1>2, <1>5, <1>s DEF Doing, Handling
<1>7. Doing(r, q)'
  BY <1>1, <1>2, <1>5, <1>6, <1>s DEF Doing, Uploading, Busy
<1>8. Bystanders(r)
  BY <1>1, <1>2, <1>3, <1>s DEF Bystanders
<1>9. Retention => \A g \in F!FileIds : Status(g)' = "available" => g \in objects'
  BY <1>2, <1>3, <1>s DEF FilesInv, F!AvailableHasObject, Status
<1>10. q.at # "completed"
  BY <1>5
<1> QED
  BY <1>1, <1>4, <1>7, <1>8, <1>9, <1>10, <1>s, FileRequestMoves DEF FilesInv

(* A step that is no request's: the client's PUT, the clock.                 *)
LEMMA TablesMove ==
  ASSUME FilesInv, UNCHANGED <<sent, uploads>>, objects \subseteq objects',
         \A f \in F!FileIds : Status(f)' = Status(f), files' = [f \in F!FileIds |-> files'[f]]
  PROVE  FilesInv'
<1>1. ASSUME NEW r \in Clients PROVE Doing(r, sent[r])'
  <2>1. Doing(r, sent[r])
    BY DEF FilesInv
  <2>2. Uploading(r, sent[r])' /\ (\A f : Holds(sent[r], f)' <=> Holds(sent[r], f))
    BY <2>1 DEF Doing, Uploading, Holds, Busy
  <2>3. Handling(sent[r])'
    BY <2>1, <2>2 DEF Doing, Handling
  <2> QED
    BY <2>1, <2>2, <2>3 DEF Doing
<1>2. OneCompletes'
  BY DEF FilesInv, OneCompletes, Holds
<1>3. F!AvailableHasObject'
  BY DEF FilesInv, F!AvailableHasObject, Status
<1> QED
  BY <1>1, <1>2, <1>3 DEF FilesInv

LEMMA FilesNext ==
  ASSUME FilesConstants, FilesInv, F!Next PROVE FilesInv'
<1>1. ASSUME NEW r \in Clients, F!RequestStep(r) PROVE FilesInv'
  <2>0. F!NoRequest.loaded = {}
    BY DEF F!NoRequest
  <2>1. ASSUME NEW n \in 1 .. BatchSize, F!upload_batch_bytes(r, n) PROVE FilesInv'
    BY <2>1, UploadBegins
  <2>2. CASE F!UploadRefused(r) \/ F!put_file(r) \/ F!StoreFails(r) \/ QuotaStep(r)
    BY <2>2, UploadSteps, QuotaSteps
  <2>3. CASE F!Flushes(r) \/ F!UploadCommits(r)
    BY <2>3, FileFlushes, UploadEnds
  <2>4. CASE F!create_presigned_upload(r) \/ F!initiate_multipart_upload(r) \/ F!InitiateCommits(r)
    BY <2>4, ClientUploads, InitiateEnds
  <2>5. CASE F!CompleteStores(r) \/ F!DeleteRemoves(r) \/ F!PurgeRemoves(r)
    BY <2>5, CompletionStores, HoldingGoes, PurgeGoes DEF F!DeleteRemoves, F!At
  <2>6. CASE F!CompleteCommits(r)
    BY <2>6, RequestWrites DEF F!CompleteCommits, F!At
  <2>7. CASE F!DeleteCommits(r)
    BY <2>7, RequestWrites DEF F!DeleteCommits, F!At
  <2>8. CASE F!PurgeCommits(r)
    BY <2>8, RequestWrites DEF F!PurgeCommits, F!At
  <2>9. CASE F!DownloadAnswers(r) \/ F!RollsBack(r)
    BY <2>9, RequestEnds DEF F!DownloadAnswers, F!RollsBack, F!At
  <2>10. CASE F!PurgeSelects(r)
    <3> DEFINE due == {f \in F!FileIds : files[f].status = "deleted" /\ files[f].expired /\ F!_assert_file_access(r, f)}
    <3>1. due \in SUBSET F!FileIds /\ \A f \in due : Status(f) = "deleted"
      BY DEF Status
    <3>2. sent[r].at = "idle" /\ F!Load(r, "purge", due) /\ UNCHANGED <<files, objects, uploads>>
      BY <2>10 DEF F!PurgeSelects, F!At
    <3> HIDE DEF due
    <3> QED
      BY <3>1, <3>2, RequestLoads
  <2>11. ASSUME NEW f \in F!FileIds, F!CompleteLoads(r, f) \/ F!DownloadLoads(r, f) \/ F!DeleteLoads(r, f) PROVE FilesInv'
    <3> PICK chosen : chosen = {f}
      OBVIOUS
    <3>1. chosen \in SUBSET F!FileIds /\ \E g : chosen = {g}
      OBVIOUS
    <3>2. CASE F!CompleteLoads(r, f)
      <4>1. sent[r].at = "idle" /\ F!Load(r, "complete", chosen) /\ UNCHANGED <<files, objects, uploads>>
            /\ \A g \in chosen : Status(g) # "none"
        BY <3>2 DEF F!CompleteLoads, F!At, F!_load_uploading_file, Status
      <4> QED
        BY <3>1, <4>1, RequestLoads
    <3>3. CASE F!DownloadLoads(r, f)
      <4>1. sent[r].at = "idle" /\ F!Load(r, "download", chosen) /\ UNCHANGED <<files, objects, uploads>>
        BY <3>3 DEF F!DownloadLoads, F!At
      <4> QED
        BY <3>1, <4>1, RequestLoads
    <3>4. CASE F!DeleteLoads(r, f)
      <4>1. sent[r].at = "idle" /\ F!Load(r, "delete", chosen) /\ UNCHANGED <<files, objects, uploads>>
            /\ \A g \in chosen : Status(g) = "available"
        BY <3>4 DEF F!DeleteLoads, F!At, F!_load_available_file, Status
      <4> QED
        BY <3>1, <4>1, RequestLoads
    <3> QED
      BY <2>11, <3>2, <3>3, <3>4
  <2> QED
    BY <1>1, <2>1, <2>2, <2>3, <2>4, <2>5, <2>6, <2>7, <2>8, <2>9, <2>10, <2>11 DEF F!RequestStep, QuotaStep
<1>2. ASSUME NEW f \in F!FileIds, F!ClientPuts(f) PROVE FilesInv'
  <2>1. UNCHANGED <<files, sent, uploads>> /\ objects \subseteq objects'
    BY <1>2 DEF F!ClientPuts
  <2> QED
    BY <2>1, TablesMove DEF Status, FilesInv
<1>3. ASSUME NEW f \in F!FileIds, F!RetentionEnds(f) PROVE FilesInv'
  <2>1. UNCHANGED <<objects, sent, uploads>> /\ files' = [files EXCEPT ![f] = [files[f] EXCEPT !.expired = TRUE]]
    BY <1>3 DEF F!RetentionEnds
  <2> PICK row : row = [files[f] EXCEPT !.expired = TRUE]
    OBVIOUS
  <2>2. row.status = files[f].status
    BY <1>3 DEF F!RetentionEnds
  <2>3. \A g \in F!FileIds : Status(g)' = Status(g)
    BY <2>1, <2>2 DEF FilesInv, Status
  <2> QED
    BY <2>1, <2>3, TablesMove DEF FilesInv
<1> QED
  BY <1>1, <1>2, <1>3 DEF F!Next
-----------------------------------------------------------------------------
(* Counting                                                                 *)

\* The files that count under a rule of a tenant: flushed ones, and the one
\* being uploaded, if the rule is reserved for it.
Counted(key) ==
  {f \in F!FileIds :
     LET q == sent[f[1]] IN
     /\ f[1] \in Clients /\ TenantOf[f[1]] = key[2] /\ q.batch > 0
     /\ \/ f \in q.flushed
        \/ q.at \in Busy /\ f = q.file /\ key[1] <= q.reserved}

\* Unless usage was lost, the counter covers them.
CountOk(key) ==
  /\ counted[key] \in Nat /\ IsFiniteSet(Counted(key))
  /\ key \notin lost => F!QuotaAmount(key[1]) * Cardinality(Counted(key)) <= counted[key]

CountInv ==
  /\ counted = [key \in F!UsageKeys |-> counted[key]]
  /\ \A key \in F!UsageKeys : CountOk(key)
  /\ \A r \in Clients : sent[r].read \in Nat
  /\ store = "memory" => lost = {} /\ \A r \in Clients : sent[r].at \notin {"missing", "refused", "write"}

LEMMA Times ==
  ASSUME NEW a \in Nat, NEW m \in Nat, NEW n \in Nat
  PROVE  /\ m <= n => a * m <= a * n
         /\ a * (m + 1) = a * m + a
         /\ a * m \in Nat
OBVIOUS

LEMMA AmountType == ASSUME FilesConstants, NEW k PROVE F!QuotaAmount(k) \in Nat
BY DEF F!QuotaAmount, FilesConstants

LEMMA KeyTypes ==
  ASSUME FilesConstants, NEW r \in Clients, NEW k \in F!Rules
  PROVE  F!Key(r, k) \in F!UsageKeys /\ F!Key(r, k)[1] = k /\ F!Key(r, k)[2] = TenantOf[r]
BY DEF F!Key, F!UsageKeys

(* Nothing is given back, and nothing more counts.                           *)
LEMMA CountsLess ==
  ASSUME FilesConstants, CountInv, NEW key \in F!UsageKeys, counted'[key] = counted[key], Counted(key)' \subseteq Counted(key),
         lost \subseteq lost'
  PROVE  CountOk(key)'
<1>0. CountOk(key)
  BY DEF CountInv
<1>1. IsFiniteSet(Counted(key)') /\ Cardinality(Counted(key)') <= Cardinality(Counted(key))
  BY <1>0, FS_Subset DEF CountOk
<1>2. Cardinality(Counted(key)') \in Nat /\ Cardinality(Counted(key)) \in Nat
  BY <1>0, <1>1, FS_CardinalityType DEF CountOk
<1>3. PICK a \in Nat, m \in Nat, n \in Nat :
        a = F!QuotaAmount(key[1]) /\ m = Cardinality(Counted(key)') /\ n = Cardinality(Counted(key))
  BY <1>2, AmountType
<1>4. a * m <= a * n /\ a * m \in Nat /\ a * n \in Nat
  BY <1>1, <1>3, Times
<1>5. counted[key] \in Nat /\ (key \notin lost => a * n <= counted[key])
  BY <1>0, <1>3 DEF CountOk
<1>6. key \notin lost' => a * m <= counted'[key]
  BY <1>4, <1>5
<1>7. F!QuotaAmount(key[1])' = F!QuotaAmount(key[1])
  BY DEF F!QuotaAmount
<1> QED
  BY <1>1, <1>3, <1>5, <1>6, <1>7 DEF CountOk

(* A reservation counts one file more.                                       *)
LEMMA CountsMore ==
  ASSUME FilesConstants, CountInv, NEW key \in F!UsageKeys, NEW f, Counted(key)' \subseteq Counted(key) \cup {f},
         lost \subseteq lost', counted'[key] \in Nat,
         key \notin lost' => counted'[key] = counted[key] + F!QuotaAmount(key[1])
  PROVE  CountOk(key)'
<1>0. CountOk(key) /\ IsFiniteSet(Counted(key)) /\ Cardinality(Counted(key)) \in Nat
  BY FS_CardinalityType DEF CountInv, CountOk
<1>1. IsFiniteSet(Counted(key) \cup {f}) /\ Cardinality(Counted(key) \cup {f}) <= Cardinality(Counted(key)) + 1
  <2>1. IsFiniteSet(Counted(key) \cup {f})
        /\ Cardinality(Counted(key) \cup {f}) = IF f \in Counted(key) THEN Cardinality(Counted(key))
                                                                 ELSE Cardinality(Counted(key)) + 1
    BY <1>0, FS_AddElement
  <2> QED
    BY <1>0, <2>1
<1>2. IsFiniteSet(Counted(key)') /\ Cardinality(Counted(key)') <= Cardinality(Counted(key) \cup {f})
  BY <1>1, FS_Subset
<1>3. Cardinality(Counted(key)') \in Nat /\ Cardinality(Counted(key) \cup {f}) \in Nat
  BY <1>1, <1>2, FS_CardinalityType
<1>4. PICK a \in Nat, m \in Nat, n \in Nat :
        a = F!QuotaAmount(key[1]) /\ m = Cardinality(Counted(key)') /\ n = Cardinality(Counted(key))
  BY <1>0, <1>3, AmountType
<1>5. m <= n + 1
  BY <1>1, <1>2, <1>3, <1>4
<1>6. a * m <= a * (n + 1) /\ a * (n + 1) = a * n + a /\ a * m \in Nat /\ a * n \in Nat
  BY <1>5, Times
<1>7. counted[key] \in Nat /\ (key \notin lost => a * n <= counted[key])
  BY <1>0, <1>4 DEF CountOk
<1>8. key \notin lost' => a * m <= counted'[key]
  BY <1>4, <1>6, <1>7
<1>9. F!QuotaAmount(key[1])' = F!QuotaAmount(key[1])
  BY DEF F!QuotaAmount
<1> QED
  BY <1>2, <1>4, <1>8, <1>9 DEF CountOk

(* A release of a file that counts counts one less.                          *)
LEMMA CountsFewer ==
  ASSUME FilesConstants, CountInv, NEW key \in F!UsageKeys, NEW f \in Counted(key), Counted(key)' \subseteq Counted(key) \ {f},
         lost \subseteq lost', counted'[key] \in Nat,
         key \notin lost' => counted'[key] >= counted[key] - F!QuotaAmount(key[1])
  PROVE  CountOk(key)'
<1>0. CountOk(key) /\ IsFiniteSet(Counted(key)) /\ Cardinality(Counted(key)) \in Nat
  BY FS_CardinalityType DEF CountInv, CountOk
<1>1. IsFiniteSet(Counted(key) \ {f}) /\ Cardinality(Counted(key) \ {f}) = Cardinality(Counted(key)) - 1
  BY <1>0, FS_RemoveElement
<1>2. IsFiniteSet(Counted(key)') /\ Cardinality(Counted(key)') <= Cardinality(Counted(key) \ {f})
  BY <1>1, FS_Subset
<1>3. Cardinality(Counted(key)') \in Nat /\ Cardinality(Counted(key) \ {f}) \in Nat
  BY <1>1, <1>2, FS_CardinalityType
<1>4. PICK a \in Nat, m \in Nat, n \in Nat :
        a = F!QuotaAmount(key[1]) /\ m = Cardinality(Counted(key)') /\ n = Cardinality(Counted(key) \ {f})
  BY <1>3, AmountType
<1>5. m <= n /\ Cardinality(Counted(key)) = n + 1
  BY <1>0, <1>1, <1>2, <1>4
<1>6. a * m <= a * n /\ a * (n + 1) = a * n + a /\ a * m \in Nat /\ a * n \in Nat
  BY <1>5, Times
<1>7. counted[key] \in Nat /\ (key \notin lost => a * (n + 1) <= counted[key])
  BY <1>0, <1>4, <1>5 DEF CountOk
<1>8. key \notin lost' => a * m <= counted'[key]
  BY <1>4, <1>6, <1>7
<1>9. F!QuotaAmount(key[1])' = F!QuotaAmount(key[1])
  BY DEF F!QuotaAmount
<1> QED
  BY <1>2, <1>4, <1>8, <1>9 DEF CountOk

(* One request moves: only its files count differently.                      *)
LEMMA CountMoves ==
  ASSUME FilesInv, NEW r \in Clients, NEW q, sent' = [sent EXCEPT ![r] = q], NEW key,
         NEW f \in Counted(key)'
  PROVE  /\ f[1] # r => f \in Counted(key)
         /\ f[1] = r => /\ q.batch > 0 /\ f \in F!FileIds /\ TenantOf[r] = key[2]
                        /\ \/ f \in q.flushed
                           \/ q.at \in Busy /\ f = q.file /\ key[1] <= q.reserved
<1>1. sent'[r] = q /\ \A p \in Clients \ {r} : sent'[p] = sent[p]
  BY DEF FilesInv
<1> QED
  BY <1>1 DEF Counted

(* A request moves, and none of its files counts for more rules.             *)
LEMMA CountQuiet ==
  ASSUME FilesConstants, FilesInv, CountInv, NEW r \in Clients, NEW q, sent' = [sent EXCEPT ![r] = q],
         UNCHANGED <<store, counted, lost>>, q.read \in Nat,
         store = "memory" => q.at \notin {"missing", "refused", "write"},
         \/ q.batch = 0
         \/ q.flushed = {} /\ q.reserved = 0
         \/ /\ q.batch = sent[r].batch /\ q.flushed = sent[r].flushed
            /\ q.at \in Busy =>
                 sent[r].at \in Busy /\ q.file = sent[r].file /\ q.reserved = sent[r].reserved
  PROVE  CountInv'
<1>1. ASSUME NEW key \in F!UsageKeys, NEW f \in Counted(key)' PROVE f \in Counted(key)
  <2>1. /\ f[1] # r => f \in Counted(key)
        /\ f[1] = r => /\ q.batch > 0 /\ f \in F!FileIds /\ TenantOf[r] = key[2]
                       /\ \/ f \in q.flushed
                          \/ q.at \in Busy /\ f = q.file /\ key[1] <= q.reserved
    BY <1>1, CountMoves
  <2>2. ~(key[1] <= 0)
    BY DEF F!UsageKeys, F!Rules, FilesConstants
  <2> QED
    BY <2>1, <2>2 DEF Counted
<1>2. \A key \in F!UsageKeys : CountOk(key)'
  BY <1>1, CountsLess
<1>3. \A p \in Clients : sent'[p] = IF p = r THEN q ELSE sent[p]
  BY DEF FilesInv
<1> QED
  BY <1>2, <1>3 DEF CountInv, F!UsageKeys, F!Rules

LEMMA CountEnds ==
  ASSUME FilesConstants, FilesInv, CountInv, NEW r \in Clients, F!Ends(r), UNCHANGED <<store, counted, lost>> PROVE CountInv'
<1>1. IsFileRequest(sent[r]) /\ sent[r].read \in Nat
  BY DEF FilesInv, Doing, CountInv
<1>2. CASE sent[r].flushed = {} /\ sent[r].batch = 0
  <2> PICK q : q = F!NoRequest
    OBVIOUS
  <2>1. sent' = [sent EXCEPT ![r] = q] /\ q.batch = 0 /\ q.read \in Nat /\ q.at = "idle"
    BY <1>2 DEF F!Ends, F!Notes, F!NoRequest
  <2> QED
    BY <2>1, CountQuiet
<1>3. CASE ~(sent[r].flushed = {} /\ sent[r].batch = 0)
  <2> PICK q : q = [sent[r] EXCEPT !.at = "done"]
    OBVIOUS
  <2>1. sent' = [sent EXCEPT ![r] = q]
    BY <1>3 DEF F!Ends, F!Goes, F!Notes
  <2>2. q.at = "done" /\ q.batch = sent[r].batch /\ q.flushed = sent[r].flushed /\ q.read = sent[r].read
    BY <1>1 DEF IsFileRequest
  <2> QED
    BY <1>1, <2>1, <2>2, CountQuiet DEF Busy
<1> QED
  BY <1>2, <1>3

LEMMA CountGoes ==
  ASSUME FilesConstants, FilesInv, CountInv, NEW r \in Clients, NEW place, F!Goes(r, place), UNCHANGED <<store, counted, lost>>,
         place \notin {"missing", "refused", "write"}, place \in Busy => sent[r].at \in Busy
  PROVE  CountInv'
<1>1. IsFileRequest(sent[r]) /\ sent[r].read \in Nat
  BY DEF FilesInv, Doing, CountInv
<1> PICK q : q = [sent[r] EXCEPT !.at = place]
  OBVIOUS
<1>2. sent' = [sent EXCEPT ![r] = q]
  BY DEF F!Goes, F!Notes
<1>3. /\ q.at = place /\ q.batch = sent[r].batch /\ q.flushed = sent[r].flushed
      /\ q.file = sent[r].file /\ q.reserved = sent[r].reserved /\ q.read = sent[r].read
  BY <1>1 DEF IsFileRequest
<1> QED
  BY <1>1, <1>2, <1>3, CountQuiet

LEMMA CountLoads ==
  ASSUME FilesConstants, FilesInv, CountInv, NEW r \in Clients, NEW place \in {"complete", "download", "delete", "purge"},
         NEW chosen, F!Load(r, place, chosen), UNCHANGED <<store, counted, lost>>
  PROVE  CountInv'
<1> PICK q : q = [F!NoRequest EXCEPT !.at = place, !.loaded = {[file |-> f, version |-> files[f].version] : f \in chosen}]
  OBVIOUS
<1>1. sent' = [sent EXCEPT ![r] = q] /\ q.batch = 0 /\ q.read \in Nat
        /\ q.at \notin {"missing", "refused", "write"}
  BY DEF F!Load, F!Notes, F!NoRequest
<1> QED
  BY <1>1, CountQuiet

(* A rule is reserved or released for the file being uploaded.               *)
LEMMA CountBooks ==
  ASSUME FilesConstants, FilesInv, CountInv, NEW r \in Clients, QuotaStep(r)
  PROVE  CountInv'
<1>1. IsFileRequest(sent[r]) /\ Doing(r, sent[r]) /\ Len(Metrics) \in Nat /\ sent[r].read \in Nat
  BY DEF FilesInv, Doing, CountInv, FilesConstants
<1>q. PICK q : /\ SameUpload(r, q) /\ sent' = [sent EXCEPT ![r] = q]
               /\ AsksQuota(r, q) \/ QuotaGranted(r, q) \/ QuotaReleased(r, q)
  BY QuotaCases
<1>2. sent[r].at \in Busy /\ q.at \in Busy /\ q.batch = sent[r].batch /\ q.flushed = sent[r].flushed /\ q.file = sent[r].file
  BY <1>q DEF SameUpload
<1>f. PICK f : f = sent[r].file
  OBVIOUS
<1>3. /\ sent[r].reserved \in 0 .. Len(Metrics) /\ sent[r].batch > 0
      /\ f \in F!FileIds /\ f[1] = r /\ f \notin sent[r].flushed
  <2>1. PICK n \in 1 .. sent[r].batch : f = <<r, n>> /\ \A m \in n .. BatchSize : <<r, m>> \notin sent[r].flushed
    BY <1>1, <1>2, <1>f DEF Doing, Uploading, Busy
  <2>2. sent[r].reserved \in 0 .. Len(Metrics) /\ sent[r].batch \in 1 .. BatchSize
    BY <1>1, <1>2 DEF Doing, Uploading, Busy
  <2>3. n \in 1 .. BatchSize /\ n \in n .. BatchSize
    BY <2>1, <2>2 DEF FilesConstants
  <2> QED
    BY <2>1, <2>2, <2>3 DEF F!FileIds, FilesConstants
<1>4. CASE AsksQuota(r, q)
  <2>1. q.read \in Nat
    BY <1>1, <1>4, KeyTypes DEF AsksQuota, CountInv, CountOk
  <2>2. store = "memory" => q.at \notin {"missing", "refused", "write"}
    BY <1>4 DEF CountInv, AsksQuota
  <2>3. q.reserved = sent[r].reserved /\ UNCHANGED <<store, counted, lost>>
    BY <1>4 DEF AsksQuota
  <2> QED
    BY <1>q, <1>2, <2>1, <2>2, <2>3, CountQuiet
<1>5. CASE QuotaGranted(r, q)
  <2>k. PICK k \in F!Rules : k = sent[r].reserved + 1 /\ q.reserved = k
    BY <1>5 DEF QuotaGranted
  <2> DEFINE key == F!Key(r, k)
  <2>0. key \in F!UsageKeys /\ key[1] = k /\ key[2] = TenantOf[r]
    BY KeyTypes
  <2>1. /\ sent' = [sent EXCEPT ![r] = q] /\ lost \subseteq lost' /\ store' = store
        /\ \/ counted' = [counted EXCEPT ![key] = @ + F!QuotaAmount(k)] /\ lost' = lost
           \/ counted' = counted /\ lost' = lost \cup {key} /\ store # "memory"
    BY <1>q, <1>5, <2>k DEF QuotaGranted, CountInv
  <2>2. q.flushed = sent[r].flushed /\ q.file = f /\ q.reserved = k /\ q.at = "reserve" /\ q.read \in Nat
    BY <1>1, <1>f, <1>2, <1>5, <2>k DEF QuotaGranted
  <2> HIDE DEF key
  <2>m. ASSUME NEW j \in F!UsageKeys, NEW g \in Counted(j)'
        PROVE  /\ g[1] # r => g \in Counted(j)
               /\ g[1] = r => /\ g \in F!FileIds /\ TenantOf[r] = j[2]
                              /\ \/ g \in sent[r].flushed
                                 \/ g = f /\ j[1] <= k
    <3>1. /\ g[1] # r => g \in Counted(j)
          /\ g[1] = r => /\ q.batch > 0 /\ g \in F!FileIds /\ TenantOf[r] = j[2]
                         /\ \/ g \in q.flushed
                            \/ q.at \in Busy /\ g = q.file /\ j[1] <= q.reserved
      BY <1>q, <2>m, CountMoves
    <3> QED
      BY <2>2, <3>1
  <2>3. CountOk(key)'
    <3>1. Counted(key)' \subseteq Counted(key) \cup {f}
      BY <1>3, <2>0, <2>m DEF Counted
    <3>2. counted[key] \in Nat /\ F!QuotaAmount(k) \in Nat
      BY <2>0, AmountType DEF CountInv, CountOk
    <3>3. counted'[key] \in Nat /\ (key \notin lost' => counted'[key] = counted[key] + F!QuotaAmount(k))
      BY <2>0, <2>1, <3>2 DEF CountInv
    <3> QED
      BY <2>0, <2>1, <3>1, <3>3, CountsMore
  <2>4. ASSUME NEW j \in F!UsageKeys, j # key PROVE CountOk(j)'
    <3>1. j[2] = TenantOf[r] => j[1] # k
      BY <2>4 DEF F!UsageKeys, F!Key, key
    <3>2. j[1] <= k /\ j[1] # k => j[1] <= sent[r].reserved
      BY <1>3, <2>k DEF F!UsageKeys, F!Rules
    <3>3. Counted(j)' \subseteq Counted(j)
      BY <1>2, <1>f, <1>3, <2>m, <3>1, <3>2 DEF Counted
    <3>4. counted'[j] = counted[j]
      BY <2>1, <2>4 DEF CountInv
    <3> QED
      BY <2>1, <3>3, <3>4, CountsLess
  <2>5. \A j \in F!UsageKeys : CountOk(j)'
    BY <2>3, <2>4
  <2>6. \A p \in Clients : sent'[p] = IF p = r THEN q ELSE sent[p]
    BY <2>1 DEF FilesInv
  <2>7. counted' = [j \in F!UsageKeys |-> counted'[j]] /\ F!UsageKeys' = F!UsageKeys
    BY <2>1 DEF CountInv, F!UsageKeys, F!Rules
  <2> QED
    BY <2>1, <2>2, <2>5, <2>6, <2>7 DEF CountInv
<1>6. CASE QuotaReleased(r, q)
  <2>k. PICK k \in F!Rules : k = sent[r].reserved
    BY <1>6 DEF QuotaReleased
  <2> DEFINE key == F!Key(r, k)
             amount == F!QuotaAmount(k)
  <2>0. key \in F!UsageKeys /\ key[1] = k /\ key[2] = TenantOf[r] /\ amount \in Nat /\ counted[key] \in Nat
    BY KeyTypes, AmountType DEF CountInv, CountOk
  <2>1. /\ sent' = [sent EXCEPT ![r] = q] /\ lost \subseteq lost' /\ store' = store
        /\ \E n \in Nat : /\ counted' = [counted EXCEPT ![key] = F!Less(n, amount)]
                          /\ counted[key] > n => key \in lost'
        /\ store = "memory" => lost' = lost
    <3>1. \/ counted' = [counted EXCEPT ![key] = F!Less(counted[key], amount)] /\ UNCHANGED <<store, lost>>
          \/ /\ sent[r].at = "write" /\ counted' = [counted EXCEPT ![key] = F!Less(sent[r].read, amount)]
             /\ lost' = (IF counted[key] > sent[r].read THEN lost \cup {key} ELSE lost)
             /\ UNCHANGED store
      BY <1>6, <2>k DEF QuotaReleased
    <3>2. sent' = [sent EXCEPT ![r] = q]
      BY <1>q
    <3>3. sent[r].at = "write" => store # "memory"
      BY DEF CountInv
    <3> QED
      BY <1>1, <2>0, <3>1, <3>2, <3>3
  <2>2. q.flushed = sent[r].flushed /\ q.file = f /\ q.reserved = k - 1 /\ q.at = "release" /\ q.read \in Nat
    BY <1>1, <1>f, <1>2, <1>6, <2>k DEF QuotaReleased
  <2>m. ASSUME NEW j \in F!UsageKeys, NEW g \in Counted(j)'
        PROVE  /\ g[1] # r => g \in Counted(j)
               /\ g[1] = r => /\ g \in F!FileIds /\ TenantOf[r] = j[2]
                              /\ \/ g \in sent[r].flushed
                                 \/ g = f /\ j[1] <= k - 1
    <3>1. /\ g[1] # r => g \in Counted(j)
          /\ g[1] = r => /\ q.batch > 0 /\ g \in F!FileIds /\ TenantOf[r] = j[2]
                         /\ \/ g \in q.flushed
                            \/ q.at \in Busy /\ g = q.file /\ j[1] <= q.reserved
      BY <1>q, <2>m, CountMoves
    <3> QED
      BY <2>2, <3>1
  <2>3. CountOk(key)'
    <3>1. f \in Counted(key)
      BY <1>1, <1>2, <1>f, <1>3, <2>k, <2>0 DEF Counted, F!Rules
    <3>2. Counted(key)' \subseteq Counted(key) \ {f}
      <4>1. ~(key[1] <= k - 1)
        BY <2>0 DEF F!Rules
      <4> QED
        BY <1>3, <2>0, <2>m, <4>1 DEF Counted
    <3>3. counted'[key] \in Nat /\ (key \notin lost' => counted'[key] >= counted[key] - amount)
      <4>1. PICK n \in Nat : counted'[key] = F!Less(n, amount) /\ (counted[key] > n => key \in lost')
        BY <2>0, <2>1 DEF CountInv
      <4> QED
        BY <2>0, <4>1 DEF F!Less
    <3> QED
      BY <2>0, <2>1, <3>1, <3>2, <3>3, CountsFewer
  <2>4. ASSUME NEW j \in F!UsageKeys, j # key PROVE CountOk(j)'
    <3>1. j[1] <= k - 1 => j[1] <= sent[r].reserved
      BY <2>k DEF F!UsageKeys, F!Rules
    <3>2. Counted(j)' \subseteq Counted(j)
      BY <1>2, <1>f, <1>3, <2>m, <3>1 DEF Counted
    <3>3. counted'[j] = counted[j]
      BY <2>1, <2>4 DEF CountInv
    <3> QED
      BY <2>1, <3>2, <3>3, CountsLess
  <2>5. \A j \in F!UsageKeys : CountOk(j)'
    BY <2>3, <2>4
  <2>6. \A p \in Clients : sent'[p] = IF p = r THEN q ELSE sent[p]
    BY <2>1 DEF FilesInv
  <2>7. counted' = [j \in F!UsageKeys |-> counted'[j]] /\ F!UsageKeys' = F!UsageKeys
    BY <2>1 DEF CountInv, F!UsageKeys, F!Rules
  <2> QED
    BY <2>1, <2>2, <2>5, <2>6, <2>7 DEF CountInv
<1> QED
  BY <1>q, <1>4, <1>5, <1>6

LEMMA CountFlushes ==
  ASSUME FilesConstants, FilesInv, CountInv, NEW r \in Clients, F!Flushes(r) PROVE CountInv'
<1>1. /\ IsFileRequest(sent[r]) /\ Doing(r, sent[r]) /\ sent[r].at = "stored" /\ sent[r].read \in Nat
      /\ sent[r].reserved = Len(Metrics) /\ Len(Metrics) \in Nat /\ UNCHANGED <<store, counted, lost>>
  BY DEF FilesInv, CountInv, Doing, Uploading, F!Flushes, F!At, F!usageVars, FilesConstants, Busy
<1>2. PICK n \in 1 .. sent[r].batch : sent[r].file = <<r, n>>
  BY <1>1 DEF Doing, Uploading, Busy
<1>q. PICK q : q = [sent[r] EXCEPT !.at = IF n < sent[r].batch THEN "reserve" ELSE "upload",
                                !.file = IF n < sent[r].batch THEN <<r, n + 1>> ELSE <<>>,
                                !.reserved = 0, !.flushed = @ \cup {<<r, n>>}]
  OBVIOUS
<1>3. sent' = [sent EXCEPT ![r] = q]
  BY <1>2, <1>q DEF F!Flushes, F!Notes
<1>4. /\ q.batch = sent[r].batch /\ q.flushed = sent[r].flushed \cup {sent[r].file} /\ q.reserved = 0
      /\ q.read = sent[r].read /\ q.at \in {"reserve", "upload"}
  BY <1>1, <1>2, <1>q DEF IsFileRequest
<1>5. ASSUME NEW key \in F!UsageKeys, NEW f \in Counted(key)' PROVE f \in Counted(key)
  <2>1. /\ f[1] # r => f \in Counted(key)
        /\ f[1] = r => /\ q.batch > 0 /\ f \in F!FileIds /\ TenantOf[r] = key[2]
                       /\ \/ f \in q.flushed
                          \/ q.at \in Busy /\ f = q.file /\ key[1] <= q.reserved
    BY <1>3, <1>5, CountMoves
  <2>2. ~(key[1] <= 0) /\ key[1] <= Len(Metrics)
    BY <1>1 DEF F!UsageKeys, F!Rules
  <2> QED
    BY <1>1, <1>4, <2>1, <2>2 DEF Counted, Busy
<1>6. \A key \in F!UsageKeys : CountOk(key)'
  BY <1>1, <1>5, CountsLess
<1>7. \A p \in Clients : sent'[p] = IF p = r THEN q ELSE sent[p]
  BY <1>3 DEF FilesInv
<1> QED
  BY <1>1, <1>4, <1>6, <1>7 DEF CountInv, F!UsageKeys, F!Rules

LEMMA CountStays ==
  ASSUME CountInv, UNCHANGED <<sent, store, counted, lost>> PROVE CountInv'
<1>1. \A key \in F!UsageKeys : Counted(key)' = Counted(key) /\ (CountOk(key)' <=> CountOk(key))
  BY DEF Counted, CountOk, F!QuotaAmount
<1> QED
  BY <1>1 DEF CountInv, F!UsageKeys, F!Rules

LEMMA CountNext ==
  ASSUME FilesConstants, FilesInv, CountInv, F!Next PROVE CountInv'
<1>1. ASSUME UNCHANGED <<sent, store, counted, lost>> PROVE CountInv'
  BY <1>1, CountStays
<1>2. ASSUME NEW f \in F!FileIds, F!ClientPuts(f) \/ F!RetentionEnds(f) PROVE CountInv'
  BY <1>1, <1>2 DEF F!ClientPuts, F!RetentionEnds, F!usageVars
<1>3. ASSUME NEW r \in Clients, F!RequestStep(r) PROVE CountInv'
  <2>0. IsFileRequest(sent[r])
    BY DEF FilesInv, Doing
  <2>1. ASSUME NEW n \in 1 .. BatchSize, F!upload_batch_bytes(r, n) PROVE CountInv'
    <3> PICK q : q = [F!NoRequest EXCEPT !.at = "reserve", !.file = <<r, 1>>, !.batch = n]
      OBVIOUS
    <3>1. sent' = [sent EXCEPT ![r] = q] /\ UNCHANGED <<store, counted, lost>> /\ q.flushed = {} /\ q.reserved = 0
          /\ q.read \in Nat /\ q.at = "reserve"
      BY <2>1 DEF F!upload_batch_bytes, F!Notes, F!NoRequest, F!usageVars
    <3> QED
      BY <3>1, CountQuiet
  <2>2. CASE F!UploadRefused(r) \/ F!UploadCommits(r) \/ F!CompleteCommits(r) \/ F!DownloadAnswers(r) \/ F!DeleteCommits(r)
             \/ F!PurgeCommits(r) \/ F!RollsBack(r)
    BY <2>2, CountEnds DEF F!UploadRefused, F!UploadCommits, F!CompleteCommits, F!DownloadAnswers, F!DeleteCommits,
                           F!PurgeCommits, F!RollsBack, F!usageVars
  <2>3. CASE F!put_file(r) \/ F!StoreFails(r) \/ F!InitiateCommits(r) \/ F!CompleteStores(r) \/ F!DeleteRemoves(r)
    <3>1. \E place : /\ F!Goes(r, place) /\ UNCHANGED <<store, counted, lost>>
                     /\ place \notin {"missing", "refused", "write"} /\ (place \in Busy => sent[r].at \in Busy)
      BY <2>3 DEF F!put_file, F!StoreFails, F!InitiateCommits, F!CompleteStores, F!DeleteRemoves, F!At, F!usageVars, Busy
    <3> QED
      BY <3>1, CountGoes
  <2>4. CASE QuotaStep(r)
    BY <2>4, CountBooks
  <2>5. CASE F!Flushes(r)
    BY <2>5, CountFlushes
  <2>6. CASE F!create_presigned_upload(r) \/ F!initiate_multipart_upload(r)
    <3> PICK q : q = [F!NoRequest EXCEPT !.at = "initiated", !.flushed = {<<r, 1>>}]
      OBVIOUS
    <3>1. sent' = [sent EXCEPT ![r] = q] /\ UNCHANGED <<store, counted, lost>> /\ q.batch = 0
          /\ q.read \in Nat /\ q.at = "initiated"
      BY <2>6 DEF F!create_presigned_upload, F!initiate_multipart_upload, F!Notes, F!NoRequest, F!usageVars
    <3> QED
      BY <3>1, CountQuiet
  <2>7. CASE F!PurgeRemoves(r)
    <3>1. PICK old : /\ sent' = [sent EXCEPT ![r] = [sent[r] EXCEPT !.removed = @ \cup {old.file}]]
                     /\ UNCHANGED <<store, counted, lost>>
      BY <2>7 DEF F!PurgeRemoves, F!Notes, F!usageVars
    <3> PICK q : q = [sent[r] EXCEPT !.removed = @ \cup {old.file}]
      OBVIOUS
    <3>2. /\ q.at = sent[r].at /\ q.batch = sent[r].batch /\ q.flushed = sent[r].flushed
          /\ q.file = sent[r].file /\ q.reserved = sent[r].reserved /\ q.read = sent[r].read
      BY <2>0 DEF IsFileRequest
    <3>3. q.read \in Nat /\ (store = "memory" => q.at \notin {"missing", "refused", "write"})
      BY <3>2 DEF CountInv
    <3> QED
      BY <3>1, <3>2, <3>3, CountQuiet
  <2>8. CASE F!PurgeSelects(r)
    <3>1. \E chosen : F!Load(r, "purge", chosen) /\ UNCHANGED <<store, counted, lost>>
      BY <2>8 DEF F!PurgeSelects, F!usageVars
    <3> QED
      BY <3>1, CountLoads
  <2>9. ASSUME NEW f \in F!FileIds, F!CompleteLoads(r, f) \/ F!DownloadLoads(r, f) \/ F!DeleteLoads(r, f) PROVE CountInv'
    <3>1. \E place \in {"complete", "download", "delete", "purge"} : \E chosen :
            F!Load(r, place, chosen) /\ UNCHANGED <<store, counted, lost>>
      BY <2>9 DEF F!CompleteLoads, F!DownloadLoads, F!DeleteLoads, F!usageVars
    <3> QED
      BY <3>1, CountLoads
  <2> QED
    BY <1>3, <2>1, <2>2, <2>3, <2>4, <2>5, <2>6, <2>7, <2>8, <2>9 DEF F!RequestStep, QuotaStep
<1> QED
  BY <1>2, <1>3 DEF F!Next

(* Files are accounted for, for any requests, tenants, batches, sizes and    *)
(* limits and with either usage store: with a retention an available file    *)
(* has its object, and what was stored and kept is counted in every rule for *)
(* its tenant until the database store has lost a reservation (upload_bytes, *)
(* delete_file, purge_deleted_files, _reserve_upload_quotas).                *)
THEOREM FilesAreAccountedFor ==
  ASSUME FilesConstants
  PROVE  F!Spec => []ObjectsAccountedFor
<1>1. F!Init => FilesInv /\ CountInv
  <2> SUFFICES ASSUME F!Init PROVE FilesInv /\ CountInv
    OBVIOUS
  <2>1. /\ \A f \in F!FileIds : Status(f) = "none"
        /\ \A r \in Clients : sent[r] = F!NoRequest
        /\ uploads = {} /\ files = [f \in F!FileIds |-> files[f]] /\ sent = [r \in Clients |-> sent[r]]
        /\ counted = [key \in F!UsageKeys |-> 0] /\ lost = {}
    BY DEF F!Init, Status, F!NoRow
  <2>2. F!NoRequest.at = "idle" /\ F!NoRequest.batch = 0 /\ F!NoRequest.read = 0
    BY DEF F!NoRequest
  <2>3. \A r \in Clients : Doing(r, sent[r])
    BY <2>1, OverDoing
  <2>4. FilesInv
    BY <2>1, <2>2, <2>3 DEF FilesInv, OneCompletes, F!AvailableHasObject, Status
  <2>5. \A key \in F!UsageKeys : Counted(key) = {}
    BY <2>1, <2>2 DEF Counted
  <2>6. \A k : F!QuotaAmount(k) \in Nat /\ F!QuotaAmount(k) * 0 = 0
    BY AmountType
  <2>7. CountInv
    <3>1. \A key \in F!UsageKeys : counted[key] = 0 /\ IsFiniteSet(Counted(key)) /\ Cardinality(Counted(key)) = 0
      BY <2>1, <2>5, FS_EmptySet
    <3>2. \A key \in F!UsageKeys : F!QuotaAmount(key[1]) * Cardinality(Counted(key)) = 0
      BY <2>6, <3>1
    <3>3. \A key \in F!UsageKeys : CountOk(key)
      BY <3>1, <3>2 DEF CountOk
    <3> QED
      BY <2>1, <2>2, <3>3 DEF CountInv
  <2> QED
    BY <2>4, <2>7
<1>2. FilesInv /\ CountInv /\ [F!Next]_F!fileVars => FilesInv' /\ CountInv'
  <2>1. ASSUME FilesInv, CountInv, UNCHANGED F!fileVars PROVE FilesInv' /\ CountInv'
    <3>1. FilesInv'
      BY <2>1, TablesMove DEF F!fileVars, FilesInv, Status
    <3>2. CountInv'
      BY <2>1, CountStays DEF F!fileVars, F!usageVars
    <3> QED
      BY <3>1, <3>2
  <2> QED
    BY <2>1, FilesNext, CountNext
<1>3. FilesInv /\ CountInv => ObjectsAccountedFor
  <2> SUFFICES ASSUME FilesInv, CountInv, NEW k \in F!Rules, NEW t \in {TenantOf[r] : r \in Clients},
                      store = "memory" \/ <<k, t>> \notin lost
               PROVE  LET kept == {f \in F!FileIds : TenantOf[f[1]] = t /\ files[f].status = "available"
                                     /\ f \in sent[f[1]].flushed /\ sent[f[1]].batch > 0}
                      IN  F!QuotaAmount(k) * Cardinality(kept) <= counted[<<k, t>>]
    BY SameCardinality DEF ObjectsAccountedFor, F!ObjectsAccountedFor, F!StoredIsCounted, FilesInv
  <2> DEFINE kept == {f \in F!FileIds : TenantOf[f[1]] = t /\ files[f].status = "available"
                        /\ f \in sent[f[1]].flushed /\ sent[f[1]].batch > 0}
             key == <<k, t>>
  <2>0. key \in F!UsageKeys /\ key[1] = k /\ key[2] = t /\ key \notin lost /\ CountOk(key)
    BY DEF F!UsageKeys, CountInv
  <2>1. kept \subseteq Counted(key) /\ IsFiniteSet(Counted(key))
    BY <2>0 DEF Counted, CountOk, F!FileIds
  <2> HIDE DEF kept, key
  <2>2. Cardinality(kept) <= Cardinality(Counted(key)) /\ Cardinality(kept) \in Nat /\ Cardinality(Counted(key)) \in Nat
    BY <2>1, FS_Subset, FS_CardinalityType
  <2>3. PICK a \in Nat, m \in Nat, n \in Nat :
          a = F!QuotaAmount(k) /\ m = Cardinality(kept) /\ n = Cardinality(Counted(key))
    BY <2>2, AmountType
  <2>4. a * m <= a * n /\ a * m \in Nat /\ a * n \in Nat /\ a * n <= counted[key] /\ counted[key] \in Nat
    BY <2>0, <2>2, <2>3, Times DEF CountOk
  <2>5. F!QuotaAmount(k) * Cardinality(kept) <= counted[key]
    BY <2>3, <2>4
  <2> QED
    BY <2>5 DEF kept, key
<1> QED
  BY <1>1, <1>2, <1>3, PTL DEF F!Spec

-----------------------------------------------------------------------------
(* Routes                                                                   *)

\* What the routers of the platform apps have in common.
Declared(route) ==
  LET router == route.router IN
  /\ route.tenant \in {"none", "context", "path"}
  /\ (router.auth_required <=> ~router.public)
  /\ router.public => router.permissions = {} /\ ~router.tenant_required
  /\ route.tenant # "none" => router.tenant_required
  /\ router.permissions # {} => (route.tenant = "none" <=> router.permission_scope = "platform")
  /\ route.tenant = "path" => \E need \in route.needs : ~need.again
  /\ \A need \in route.needs :
       /\ router.permissions # {}
       /\ need.again => route.tenant = "context"
       /\ need.handed => \A p \in router.permissions : p[1] = need.resource /\ p[2] \in need.actions

\* A need of a route that declares one permission.
Suits(need, resource, action, from) ==
  /\ need.again => from = "context"
  /\ need.handed => need.resource = resource /\ action \in need.actions

LEMMA NeedSuits ==
  ASSUME NEW resource, NEW action, NEW actions, NEW platform, NEW from, action \in actions
  PROVE  /\ Suits(R!Need(resource, actions, platform), resource, action, from)
         /\ ~R!Need(resource, actions, platform).again
BY DEF Suits, R!Need

LEMMA TenantRoute ==
  ASSUME NEW resource, NEW action, NEW operation, NEW from \in {"context", "path"}, NEW needs,
         \A need \in needs : Suits(need, resource, action, from),
         from = "path" => \E need \in needs : ~need.again
  PROVE  Declared(R!Route(R!Tenant(resource, action, operation), from, needs))
<1>1. PICK router : router = R!Tenant(resource, action, operation)
  OBVIOUS
<1>2. router.auth_required = ~router.public /\ ~router.public /\ router.tenant_required
      /\ router.permissions = {<<resource, action>>} /\ router.permission_scope # "platform"
  BY <1>1 DEF R!Tenant, R!Router
<1>p. router.permissions # {} /\ \A p \in router.permissions : p[1] = resource /\ p[2] = action
  <2>1. \A p \in {<<resource, action>>} : p[1] = resource /\ p[2] = action
    OBVIOUS
  <2> QED
    BY <1>2, <2>1
<1>b. router.auth_required <=> ~router.public
  BY <1>2
<1>q. ~router.public /\ (router.tenant_required /\ router.permission_scope # "platform")
  BY <1>2
<1>3. PICK route : route = R!Route(router, from, needs)
  OBVIOUS
<1>4. route.router = router /\ route.tenant = from /\ route.needs = needs
  BY <1>3 DEF R!Route
<1>5. Declared(route)
  BY <1>p, <1>b, <1>q, <1>4 DEF Declared, Suits
<1> QED
  BY <1>1, <1>3, <1>5

LEMMA PlatformRoute ==
  ASSUME NEW resource, NEW action, NEW needs, \A need \in needs : Suits(need, resource, action, "none")
  PROVE  Declared(R!Route(R!Platform(resource, action), "none", needs))
<1>1. PICK router : router = R!Platform(resource, action)
  OBVIOUS
<1>2. router.auth_required = ~router.public /\ ~router.public
      /\ router.permissions = {<<resource, action>>} /\ router.permission_scope = "platform"
  BY <1>1 DEF R!Platform, R!Router
<1>p. router.permissions # {} /\ \A p \in router.permissions : p[1] = resource /\ p[2] = action
  <2>1. \A p \in {<<resource, action>>} : p[1] = resource /\ p[2] = action
    OBVIOUS
  <2> QED
    BY <1>2, <2>1
<1>b. router.auth_required <=> ~router.public
  BY <1>2
<1>q. ~router.public /\ (router.permission_scope = "platform")
  BY <1>2
<1>3. PICK route : route = R!Route(router, "none", needs)
  OBVIOUS
<1>4. route.router = router /\ route.tenant = "none" /\ route.needs = needs
  BY <1>3 DEF R!Route
<1>5. Declared(route)
  BY <1>p, <1>b, <1>q, <1>4 DEF Declared, Suits
<1> QED
  BY <1>1, <1>3, <1>5

\* Routes whose service asserts nothing, and those that declare no permission.
LEMMA PlainRoutes ==
  /\ \A resource, action : Declared(R!Route(R!Platform(resource, action), "none", {}))
  /\ \A resource, action, operation : Declared(R!Route(R!Tenant(resource, action, operation), "context", {}))
  /\ Declared(R!Route(R!Public, "none", {})) /\ Declared(R!Route(R!Authenticated, "none", {}))
  /\ Declared(R!Route(R!Member, "context", {}))
<1>1. ASSUME NEW resource, NEW action PROVE Declared(R!Route(R!Platform(resource, action), "none", {}))
  BY PlatformRoute
<1>2. ASSUME NEW resource, NEW action, NEW operation
      PROVE  Declared(R!Route(R!Tenant(resource, action, operation), "context", {}))
  BY TenantRoute
<1>3. /\ Declared(R!Route(R!Public, "none", {})) /\ Declared(R!Route(R!Authenticated, "none", {}))
      /\ Declared(R!Route(R!Member, "context", {}))
  BY DEF Declared, R!Route, R!Public, R!Authenticated, R!Member, R!Router
<1> QED
  BY <1>1, <1>2, <1>3

LEMMA AccessRoutes == \A route \in R!access_routes : Declared(route)
<1>1. \A route \in R!catalog_routes \union R!template_routes \union R!effective_routes \union R!reconcile_routes
                     \union R!frontend_config_routes \union R!my_access_routes : Declared(route)
  BY PlainRoutes DEF R!catalog_routes, R!template_routes, R!effective_routes, R!reconcile_routes,
                     R!frontend_config_routes, R!my_access_routes
<1>2. \A route \in R!platform_admin_routes : Declared(route)
  BY NeedSuits, PlatformRoute DEF R!platform_admin_routes
<1>3. ASSUME NEW mutation
      PROVE  Declared(R!Route(R!Tenant("role_grant", mutation, "write"), "context",
                            {R!_assert_role_grant_mutation_authorized(mutation)}))
  BY NeedSuits, TenantRoute DEF R!_assert_role_grant_mutation_authorized
<1>4. \A route \in R!grant_routes : Declared(route)
  BY <1>3, PlainRoutes DEF R!grant_routes
<1> QED
  BY <1>1, <1>2, <1>4 DEF R!access_routes

LEMMA AccountRoutes == \A route \in R!account_routes : Declared(route)
<1>1. \A route \in R!login_routes \union R!me_routes : Declared(route)
  BY PlainRoutes DEF R!login_routes, R!me_routes
<1>2. ASSUME NEW resource, NEW action, NEW mutation, action \in {"manage", mutation}
      PROVE  Declared(R!Route(R!Platform(resource, action), "none",
                            {R!_assert_accounts_mutation_authorized(resource, mutation)}))
  BY <1>2, NeedSuits, PlatformRoute DEF R!_assert_accounts_mutation_authorized
<1>3. \A route \in R!user_routes : Declared(route)
  BY <1>2, PlainRoutes DEF R!user_routes
<1> QED
  BY <1>1, <1>3 DEF R!account_routes

LEMMA TenantRoutes == \A route \in R!tenant_routes : Declared(route)
<1>1. \A route \in R!provision_routes \union R!accept_routes : Declared(route)
  <2>1. Declared(R!Route(R!Platform("tenant", "manage"), "none", {R!Need("tenant", {"manage", "provision"}, "only")}))
    BY NeedSuits, PlatformRoute
  <2> QED
    BY <2>1, PlainRoutes DEF R!provision_routes, R!accept_routes
<1>2. \A route \in R!member_routes : Declared(route)
  <2>1. ASSUME NEW from \in {"path", "context"}, NEW action, NEW operation, NEW actions, action \in actions
        PROVE  Declared(R!Route(R!Tenant("tenant_member", action, operation), from, {R!_assert_member_authorized(actions)}))
    BY <2>1, NeedSuits, TenantRoute DEF R!_assert_member_authorized
  <2> QED
    BY <2>1 DEF R!member_routes
<1>3. \A route \in R!invitation_routes : Declared(route)
  <2>1. ASSUME NEW mutation
        PROVE  /\ \A from : Suits(R!_assert_invitation_mutation_authorized(mutation), "tenant_invitation", mutation, from)
               /\ ~R!_assert_invitation_mutation_authorized(mutation).again
    BY NeedSuits DEF R!_assert_invitation_mutation_authorized
  <2>2. \A resource, action, from : Suits(R!_assert_role_grant_authorized, resource, action, from)
    BY DEF Suits, R!_assert_role_grant_authorized, R!Need
  <2>3. ASSUME NEW mutation, NEW from \in {"path", "context"}
        PROVE  Declared(R!Route(R!Tenant("tenant_invitation", mutation, "write"), from,
                              {R!_assert_invitation_mutation_authorized(mutation)}))
    BY <2>1, TenantRoute
  <2>4. ASSUME NEW from \in {"path", "context"}
        PROVE  Declared(R!Route(R!Tenant("tenant_invitation", "invite", "write"), from,
                              {R!_assert_invitation_mutation_authorized("invite"), R!_assert_role_grant_authorized}))
    BY <2>1, <2>2, TenantRoute
  <2> QED
    BY <2>3, <2>4 DEF R!invitation_routes
<1> QED
  BY <1>1, <1>2, <1>3 DEF R!tenant_routes

LEMMA OtherRoutes == \A route \in R!setting_routes \union R!audit_routes \union R!file_routes : Declared(route)
<1>1. \A route \in R!setting_routes \union R!audit_routes : Declared(route)
  BY PlainRoutes DEF R!setting_routes, R!definition_routes, R!value_read_routes, R!value_manage_routes,
                     R!tenant_value_routes, R!audit_routes, R!log_routes, R!export_routes
<1>2. ASSUME NEW action, NEW operation PROVE Declared(R!FileRoute(action, operation))
  <2>1. PICK need : need = [R!Need("file", {action}, "also") EXCEPT !.again = TRUE]
    OBVIOUS
  <2>2. Suits(need, "file", action, "context")
    BY <2>1 DEF Suits, R!Need
  <2> QED
    BY <2>1, <2>2, TenantRoute DEF R!FileRoute
<1>3. \A route \in R!file_routes : Declared(route)
  BY <1>2 DEF R!file_routes, R!upload_routes, R!download_routes, R!delete_routes
<1> QED
  BY <1>1, <1>3

LEMMA RoutesDeclared == \A route \in R!Routes : Declared(route)
BY AccessRoutes, AccountRoutes, TenantRoutes, OtherRoutes DEF R!Routes
-----------------------------------------------------------------------------
\* The tenant of the session is a tenant.
DistinctTenants == Home # "none" /\ Home # R!PLATFORM_TENANT_ID

IsRouteRequest(x) ==
  /\ x = [f \in {"at", "route", "pipeline", "header", "session_tenant", "path", "user", "tenant", "decision"} |-> x[f]]
  /\ x.route \in R!Routes
  /\ x.session_tenant \in {Home, "none"} /\ x.path \in {Home, Elsewhere}
  /\ x.tenant \in {x.session_tenant, "none"}
  /\ x.user \in BOOLEAN

Resolves(x) ==
  LET router == x.route.router IN
  router.tenant_required \/ (router.permissions # {} /\ router.permission_scope # "platform")

DomainOf(x) == IF x.route.router.permission_scope = "platform" THEN R!PLATFORM_TENANT_ID ELSE x.tenant

\* What a request in state x has shown, at some moment since it began.
Shown(x) ==
  LET router == x.route.router IN
  /\ x.at = "received" => ~x.user /\ x.tenant = "none" /\ ~x.decision.allowed
  /\ x.at = "authenticated" => x.pipeline /\ (\E f \in seen : f.session) /\ ~x.decision.allowed
  /\ x.at = "resolved" => ~x.decision.allowed
  /\ x.user => x.pipeline /\ x.at # "authenticated" /\ \E f \in seen : f.session
  /\ x.user /\ Resolves(x) =>
       /\ x.tenant = Home
       /\ \E f \in seen : f.member /\ R!is_tenant_operation_allowed(f.status, router.tenant_operation, {})
  /\ x.decision.allowed => x.decision.tenant = DomainOf(x)
  /\ x.at \in {"authorized", "served"} =>
       /\ router.auth_required => x.user
       /\ router.permissions # {} => \E f \in seen : DomainOf(x) \in f.policies
  /\ x.at = "served" /\ x.route.tenant = "path" => x.path = Home

\* It may enter the tenant of its session.
MayEnter(x) ==
  /\ ~x.header /\ x.session_tenant # "none" /\ facts.member
  /\ R!is_tenant_operation_allowed(facts.status, x.route.router.tenant_operation, {})

\* Why a request that nothing disturbed is refused.
Reasons(x) ==
  LET router == x.route.router IN
  \/ ~facts.session
  \/ Resolves(x) /\ ~MayEnter(x)
  \/ router.permissions # {}
       /\ (IF router.permission_scope = "platform" THEN R!PLATFORM_TENANT_ID ELSE Home) \notin facts.policies
  \/ x.route.tenant = "path" /\ x.path = Elsewhere

\* A request in state x that nothing has disturbed so far.
Undisturbed(x) ==
  LET router == x.route.router IN
  x.pipeline /\ seen = {facts} /\ (\A need \in x.route.needs : need.handed) =>
    /\ x.at = "authenticated" => router.auth_required /\ facts.session
    /\ x.at \in {"resolved", "authorized"} /\ router.auth_required =>
         x.user /\ facts.session /\ (Resolves(x) => x.tenant = Home /\ MayEnter(x))
    /\ x.at = "authorized" /\ router.permissions # {} =>
         /\ DomainOf(x) \in facts.policies
         /\ x.decision.allowed /\ x.decision.tenant = DomainOf(x)
         /\ \E p \in router.permissions : x.decision.resource = p[1] /\ x.decision.action = p[2]
    /\ x.at = "refused" => Reasons(x)

RouteInv ==
  /\ facts \in seen
  /\ IsRouteRequest(req) /\ Shown(req) /\ Undisturbed(req)

LEMMA RouteInit == R!Init => RouteInv
<1> SUFFICES ASSUME R!Init PROVE RouteInv
  OBVIOUS
<1>1. PICK x : x = req
  OBVIOUS
<1>2. /\ x = [f \in {"at", "route", "pipeline", "header", "session_tenant", "path", "user", "tenant", "decision"} |-> x[f]]
      /\ x.route \in R!Routes /\ x.session_tenant \in {Home, "none"} /\ x.path \in {Home, Elsewhere}
      /\ x.at = "received" /\ x.user = FALSE /\ x.tenant = "none" /\ x.decision = R!NoDecision
  BY <1>1 DEF R!Init, R!Requests
<1>3. ~R!NoDecision.allowed
  BY DEF R!NoDecision
<1>4. IsRouteRequest(x)
  BY <1>2 DEF IsRouteRequest
<1>5. Shown(x)
  BY <1>2, <1>3 DEF Shown
<1>6. Undisturbed(x)
  BY <1>2 DEF Undisturbed
<1> QED
  BY <1>1, <1>4, <1>5, <1>6 DEF RouteInv, R!Init

\* The request goes on and nothing else changes.
LEMMA RouteRequestMoves ==
  ASSUME NEW y, req' = y, IsRouteRequest(y), Shown(y), Undisturbed(y), RouteInv, UNCHANGED <<facts, seen>>
  PROVE  RouteInv'
<1>1. IsRouteRequest(req') /\ Shown(req') /\ Undisturbed(req')
  OBVIOUS
<1>2. IsRouteRequest(req)' /\ Shown(req)' /\ Undisturbed(req)'
  BY <1>1 DEF IsRouteRequest, Shown, Undisturbed, Reasons, MayEnter
<1> QED
  BY <1>2 DEF RouteInv

LEMMA RouteNext ==
  ASSUME DistinctTenants, RouteInv, [R!Next]_R!routeVars
  PROVE  RouteInv'
<1>1. PICK x : x = req
  OBVIOUS
<1>2. IsRouteRequest(x) /\ Shown(x) /\ Undisturbed(x) /\ facts \in seen
  BY <1>1 DEF RouteInv
<1>3. PICK route : route = x.route
  OBVIOUS
<1>d. Declared(route)
  BY <1>2, <1>3, RoutesDeclared DEF IsRouteRequest
<1>4. ASSUME NEW place PROVE
        LET y == [x EXCEPT !.at = place] IN
        /\ IsRouteRequest(y) /\ y.at = place
        /\ y.route = x.route /\ y.pipeline = x.pipeline /\ y.header = x.header
        /\ y.session_tenant = x.session_tenant /\ y.path = x.path
        /\ y.user = x.user /\ y.tenant = x.tenant /\ y.decision = x.decision
  BY <1>2 DEF IsRouteRequest
<1>5. ASSUME R!Authenticates PROVE RouteInv'
  <2>1. PICK y : y = [x EXCEPT !.at = "authenticated"]
    OBVIOUS
  <2>2. req' = y /\ UNCHANGED <<facts, seen>>
    BY <1>1, <1>5, <2>1 DEF R!Authenticates, R!Goes
  <2>3. x.at = "received" /\ x.pipeline /\ x.route.router.auth_required /\ facts.session
    BY <1>1, <1>5 DEF R!Authenticates, R!At, R!policy
  <2>4. Shown(y)
    BY <1>2, <1>4, <2>1, <2>3 DEF Shown, Resolves, DomainOf
  <2>5. Undisturbed(y)
    BY <1>4, <2>1, <2>3 DEF Undisturbed
  <2> QED
    BY <1>4, <2>1, <2>2, <2>4, <2>5, RouteRequestMoves
<1>6. ASSUME R!Refuse, Undisturbed([x EXCEPT !.at = "refused"]) PROVE RouteInv'
  <2>1. PICK y : y = [x EXCEPT !.at = "refused"]
    OBVIOUS
  <2>2. req' = y /\ UNCHANGED <<facts, seen>>
    BY <1>1, <1>6, <2>1 DEF R!Refuse, R!Goes
  <2>4. Shown(y)
    BY <1>2, <1>4, <2>1 DEF Shown, Resolves, DomainOf
  <2> QED
    BY <1>4, <1>6, <2>1, <2>2, <2>4, RouteRequestMoves
<1>7. ASSUME R!AuthenticationFails PROVE RouteInv'
  <2>1. Undisturbed([x EXCEPT !.at = "refused"])
    BY <1>4, <1>7 DEF R!AuthenticationFails, Undisturbed, Reasons
  <2> QED
    BY <1>6, <1>7, <2>1 DEF R!AuthenticationFails
<1>8. ASSUME R!SkipsResolver PROVE RouteInv'
  <2>1. PICK y : y = [x EXCEPT !.at = "resolved"]
    OBVIOUS
  <2>2. req' = y /\ UNCHANGED <<facts, seen>>
    BY <1>1, <1>8, <2>1 DEF R!SkipsResolver, R!Goes
  <2>3. x.at = "received" /\ (x.route.router.public \/ ~x.pipeline)
    BY <1>1, <1>8 DEF R!SkipsResolver, R!At, R!policy
  <2>4. Shown(y)
    BY <1>2, <1>4, <2>1, <2>3 DEF Shown, Resolves, DomainOf
  <2>5. Undisturbed(y)
    BY <1>3, <1>d, <1>4, <2>1, <2>3 DEF Undisturbed, Declared
  <2> QED
    BY <1>4, <2>1, <2>2, <2>4, <2>5, RouteRequestMoves
<1>9. ASSUME NEW y, y = [x EXCEPT !.at = "resolved", !.user = TRUE, !.tenant = x.session_tenant]
      PROVE  /\ IsRouteRequest(y) /\ y.at = "resolved" /\ y.user = TRUE /\ y.tenant = x.session_tenant
             /\ y.route = x.route /\ y.pipeline = x.pipeline /\ y.header = x.header
             /\ y.session_tenant = x.session_tenant /\ y.path = x.path /\ y.decision = x.decision
  BY <1>2, <1>9 DEF IsRouteRequest
<1>10. ASSUME R!ResolvesTenant PROVE RouteInv'
  <2>1. PICK y : y = [x EXCEPT !.at = "resolved", !.user = TRUE, !.tenant = x.session_tenant]
    OBVIOUS
  <2>2. req' = y /\ UNCHANGED <<facts, seen>>
    BY <1>1, <1>10, <2>1 DEF R!ResolvesTenant
  <2>3. x.at = "authenticated" /\ MayEnter(x)
    BY <1>1, <1>10 DEF R!ResolvesTenant, R!At, R!MayEnterTenant, MayEnter, R!policy
  <2>4. x.session_tenant = Home
    BY <1>2, <2>3 DEF MayEnter, IsRouteRequest
  <2>5. Shown(y)
    BY <1>2, <1>9, <2>1, <2>3, <2>4 DEF Shown, Resolves, DomainOf, MayEnter
  <2>6. MayEnter(y)
    BY <1>9, <2>1, <2>3 DEF MayEnter
  <2>7. Undisturbed(y)
    BY <1>2, <1>9, <2>1, <2>3, <2>4, <2>6 DEF Undisturbed, Resolves
  <2> QED
    BY <1>9, <2>1, <2>2, <2>5, <2>7, RouteRequestMoves
<1>11. ASSUME R!TenantFails PROVE RouteInv'
  <2>1. Resolves(x) /\ ~MayEnter(x)
    BY <1>1, <1>11 DEF R!TenantFails, R!_requires_tenant_resolution, Resolves, R!MayEnterTenant, MayEnter, R!policy
  <2>2. Undisturbed([x EXCEPT !.at = "refused"])
    BY <1>4, <2>1 DEF Undisturbed, Reasons, Resolves, MayEnter
  <2> QED
    BY <1>6, <1>11, <2>2 DEF R!TenantFails
<1>12. ASSUME R!_bind_authenticated_user PROVE RouteInv'
  <2>1. PICK y : y = [x EXCEPT !.at = "resolved", !.user = TRUE, !.tenant = x.session_tenant]
    OBVIOUS
  <2>2. req' = y /\ UNCHANGED <<facts, seen>>
    BY <1>1, <1>12, <2>1 DEF R!_bind_authenticated_user
  <2>3. x.at = "authenticated" /\ ~Resolves(x)
    BY <1>1, <1>12 DEF R!_bind_authenticated_user, R!At, R!_requires_tenant_resolution, Resolves, R!policy
  <2>4. Shown(y)
    BY <1>2, <1>9, <2>1, <2>3 DEF Shown, Resolves, DomainOf
  <2>5. Undisturbed(y)
    BY <1>2, <1>9, <2>1, <2>3 DEF Undisturbed, Resolves
  <2> QED
    BY <1>9, <2>1, <2>2, <2>4, <2>5, RouteRequestMoves
<1>13. ASSUME R!Enforced
       PROVE  /\ x.route.router.auth_required => x.user
              /\ x.route.router.tenant_required => x.tenant # "none"
              /\ x.route.router.permissions # {} => x.pipeline
  BY <1>1, <1>13 DEF R!Enforced, R!policy
<1>14. R!Domain = DomainOf(x)
  BY <1>1 DEF R!Domain, DomainOf, R!policy
<1>15. ASSUME R!Authorizes PROVE RouteInv'
  <2>1. PICK p \in x.route.router.permissions :
          req' = [x EXCEPT !.at = "authorized",
                    !.decision = [allowed |-> TRUE, tenant |-> R!Domain, resource |-> p[1], action |-> p[2]]]
    BY <1>1, <1>15 DEF R!Authorizes, R!policy
  <2>2. PICK decision : decision = [allowed |-> TRUE, tenant |-> R!Domain, resource |-> p[1], action |-> p[2]]
    OBVIOUS
  <2>3. PICK y : y = [x EXCEPT !.at = "authorized", !.decision = decision]
    OBVIOUS
  <2>4. req' = y /\ UNCHANGED <<facts, seen>>
    BY <1>15, <2>1, <2>2, <2>3 DEF R!Authorizes
  <2>5. x.at = "resolved" /\ DomainOf(x) \in facts.policies /\ R!Enforced
    BY <1>1, <1>14, <1>15 DEF R!Authorizes, R!At
  <2>6. decision.allowed /\ decision.tenant = DomainOf(x) /\ decision.resource = p[1] /\ decision.action = p[2]
    BY <1>14, <2>2
  <2>7. /\ IsRouteRequest(y) /\ y.at = "authorized" /\ y.decision = decision
        /\ y.route = x.route /\ y.pipeline = x.pipeline /\ y.header = x.header
        /\ y.session_tenant = x.session_tenant /\ y.path = x.path /\ y.user = x.user /\ y.tenant = x.tenant
    BY <1>2, <2>3 DEF IsRouteRequest
  <2>8. Shown(y)
    BY <1>2, <1>13, <2>5, <2>6, <2>7 DEF Shown, Resolves, DomainOf
  <2>9. Undisturbed(y)
    BY <1>2, <2>5, <2>6, <2>7 DEF Undisturbed, Resolves, DomainOf, MayEnter
  <2> QED
    BY <2>4, <2>7, <2>8, <2>9, RouteRequestMoves
<1>16. ASSUME R!NothingToAuthorize PROVE RouteInv'
  <2>1. PICK y : y = [x EXCEPT !.at = "authorized"]
    OBVIOUS
  <2>2. req' = y /\ UNCHANGED <<facts, seen>>
    BY <1>1, <1>16, <2>1 DEF R!NothingToAuthorize, R!Goes
  <2>3. x.at = "resolved" /\ x.route.router.permissions = {} /\ R!Enforced
    BY <1>1, <1>16 DEF R!NothingToAuthorize, R!At, R!policy
  <2>4. Shown(y)
    BY <1>2, <1>4, <1>13, <2>1, <2>3 DEF Shown, Resolves, DomainOf
  <2>5. Undisturbed(y)
    BY <1>2, <1>4, <2>1, <2>3 DEF Undisturbed, Resolves, MayEnter
  <2> QED
    BY <1>4, <2>1, <2>2, <2>4, <2>5, RouteRequestMoves
<1>17. ASSUME R!EnforcementFails PROVE RouteInv'
  <2>1. x.at = "resolved" /\ R!Refuse
        /\ (~R!Enforced \/ (x.route.router.permissions # {} /\ DomainOf(x) \notin facts.policies))
    BY <1>1, <1>14, <1>17 DEF R!EnforcementFails, R!At, R!policy
  <2>2. ASSUME x.pipeline, seen = {facts}, \A need \in x.route.needs : need.handed PROVE Reasons(x)
    <3>1. x.route.router.auth_required =>
            x.user /\ facts.session /\ (Resolves(x) => x.tenant = Home /\ MayEnter(x))
      BY <1>2, <2>1, <2>2 DEF Undisturbed
    <3>2. x.route.router.public => x.route.router.permissions = {} /\ ~x.route.router.tenant_required
      BY <1>3, <1>d DEF Declared
    <3>3. x.route.router.auth_required <=> ~x.route.router.public
      BY <1>3, <1>d DEF Declared
    <3>4. R!Enforced
      BY <1>1, <2>2, <3>1, <3>2, <3>3 DEF R!Enforced, Resolves, R!policy, DistinctTenants
    <3> QED
      BY <2>1, <3>1, <3>2, <3>3, <3>4 DEF Reasons, Resolves, DomainOf
  <2>3. Undisturbed([x EXCEPT !.at = "refused"])
    BY <1>4, <2>2 DEF Undisturbed, Reasons, Resolves, MayEnter
  <2> QED
    BY <1>6, <2>1, <2>3
<1>18. ASSUME R!Serves PROVE RouteInv'
  <2>1. PICK y : y = [x EXCEPT !.at = "served"]
    OBVIOUS
  <2>2. req' = y /\ UNCHANGED <<facts, seen>>
    BY <1>1, <1>18, <2>1 DEF R!Serves, R!Goes
  <2>3. x.at = "authorized" /\ \A need \in x.route.needs : R!Satisfied(need)
    BY <1>1, <1>18 DEF R!Serves, R!At
  <2>4. ASSUME x.route.tenant = "path" PROVE x.path = Home
    <3>1. PICK need \in x.route.needs : ~need.again
      BY <1>3, <1>d, <2>4 DEF Declared
    <3>2. R!assert_authorization_decision(need)
      BY <2>3, <3>1 DEF R!Satisfied
    <3>3. x.decision.allowed /\ x.decision.tenant \in {R!Target, R!PLATFORM_TENANT_ID}
      BY <1>1, <3>2 DEF R!assert_authorization_decision, R!NoDecision
    <3>4. R!Target = x.path
      BY <1>1, <2>4 DEF R!Target
    <3>5. x.route.router.tenant_required /\ x.route.router.auth_required
          /\ x.route.router.permission_scope # "platform"
      BY <1>3, <1>d, <2>4, <3>1 DEF Declared
    <3>6. x.decision.tenant = Home
      BY <1>2, <2>3, <3>3, <3>5 DEF Shown, DomainOf, Resolves
    <3> QED
      BY <3>3, <3>4, <3>6 DEF DistinctTenants
  <2>5. Shown(y)
    BY <1>2, <1>4, <2>1, <2>3, <2>4 DEF Shown, Resolves, DomainOf
  <2>6. Undisturbed(y)
    BY <1>4, <2>1 DEF Undisturbed
  <2> QED
    BY <1>4, <2>1, <2>2, <2>5, <2>6, RouteRequestMoves
<1>19. ASSUME R!ServiceFails PROVE RouteInv'
  <2>1. x.at = "authorized" /\ R!Refuse
        /\ \/ x.route.tenant = "context" /\ x.tenant = "none"
           \/ \E need \in x.route.needs : ~R!Satisfied(need)
    BY <1>1, <1>19 DEF R!ServiceFails, R!At
  <2>2. ASSUME x.pipeline, seen = {facts}, \A need \in x.route.needs : need.handed, ~Reasons(x) PROVE FALSE
    <3>1. x.route.router.auth_required =>
            x.user /\ facts.session /\ (Resolves(x) => x.tenant = Home /\ MayEnter(x))
      BY <1>2, <2>1, <2>2 DEF Undisturbed
    <3>2. x.route.router.auth_required <=> ~x.route.router.public
      BY <1>3, <1>d DEF Declared
    <3>3. x.route.tenant # "none" => x.tenant = Home
      BY <1>3, <1>d, <3>1, <3>2 DEF Declared, Resolves
    <3>4. PICK need \in x.route.needs : ~R!Satisfied(need)
      BY <2>1, <3>3 DEF DistinctTenants
    <3>5. /\ x.route.router.permissions # {}
          /\ need.again => x.route.tenant = "context"
          /\ \A p \in x.route.router.permissions : p[1] = need.resource /\ p[2] \in need.actions
      BY <1>3, <1>d, <2>2 DEF Declared
    <3>6. /\ DomainOf(x) \in facts.policies /\ x.decision.allowed /\ x.decision.tenant = DomainOf(x)
          /\ \E p \in x.route.router.permissions : x.decision.resource = p[1] /\ x.decision.action = p[2]
      BY <1>2, <2>1, <2>2, <3>5 DEF Undisturbed
    <3>7. R!Target = DomainOf(x)
      <4>1. x.route.tenant \in {"none", "context", "path"}
            /\ (x.route.tenant = "none" <=> x.route.router.permission_scope = "platform")
        BY <1>3, <1>d, <3>5 DEF Declared
      <4>2. x.route.tenant = "path" => x.path = Home
        BY <1>2, <2>2 DEF IsRouteRequest, Reasons
      <4> QED
        BY <1>1, <3>3, <4>1, <4>2 DEF R!Target, DomainOf
    <3>8. CASE need.again
      BY <3>4, <3>6, <3>7, <3>8 DEF R!Satisfied
    <3>9. CASE ~need.again
      <4>1. R!assert_authorization_decision(need)
        BY <1>1, <2>2, <3>5, <3>6, <3>7 DEF R!assert_authorization_decision
      <4> QED
        BY <3>4, <3>9, <4>1 DEF R!Satisfied
    <3> QED
      BY <3>8, <3>9
  <2>3. Undisturbed([x EXCEPT !.at = "refused"])
    BY <1>4, <2>2 DEF Undisturbed, Reasons, Resolves, MayEnter
  <2> QED
    BY <1>6, <2>1, <2>3
<1>20. ASSUME R!Administers PROVE RouteInv'
  <2>1. req' = x /\ seen' = seen \union {facts'} /\ x.at # "refused"
    BY <1>1, <1>20 DEF R!Administers, R!At
  <2>2. Shown(x)'
    BY <1>2, <2>1 DEF Shown
  <2>3. Undisturbed(x)'
    <3>1. seen' = {facts'} => facts' = facts /\ seen = {facts}
      BY <1>2, <2>1
    <3> QED
      BY <1>2, <3>1 DEF Undisturbed, Reasons, MayEnter
  <2> QED
    BY <1>2, <2>1, <2>2, <2>3 DEF RouteInv, IsRouteRequest, Shown, Undisturbed, Reasons, MayEnter
<1>21. CASE UNCHANGED R!routeVars
  <2>1. req' = x /\ UNCHANGED <<facts, seen>>
    BY <1>1, <1>21 DEF R!routeVars
  <2> QED
    BY <1>2, <2>1, RouteRequestMoves DEF RouteInv
<1> QED
  BY <1>5, <1>7, <1>8, <1>10, <1>11, <1>12, <1>15, <1>16, <1>17, <1>18, <1>19, <1>20, <1>21
  DEF R!Next, R!Step

(* Whatever administrators change while a request is under way, of every route  *)
(* of the platform apps: it is served only to a caller whose session, tenant    *)
(* and permission were good during the request, and one whose caller has all    *)
(* the router asks for, undisturbed, is not refused (RouteAuthorization).       *)
THEOREM RoutesServeAsAuthorized ==
  ASSUME DistinctTenants
  PROVE  R!Spec => []ServedAsAuthorized
<1>1. RouteInv => R!ServedIsAuthorized
  <2> SUFFICES ASSUME RouteInv, R!At("served"), ~R!policy.public PROVE
         /\ req.pipeline
         /\ \E f \in seen : f.session
         /\ req.route.tenant # "none" =>
              /\ R!Target = Home /\ req.session_tenant = Home
              /\ \E f \in seen : f.member /\ R!is_tenant_operation_allowed(f.status, R!policy.tenant_operation, {})
         /\ R!policy.permissions # {} => \E f \in seen : R!Target \in f.policies
    BY DEF R!ServedIsAuthorized
  <2>1. PICK x : x = req
    OBVIOUS
  <2>2. PICK route : route = x.route
    OBVIOUS
  <2>3. IsRouteRequest(x) /\ Shown(x) /\ x.at = "served" /\ ~x.route.router.public
    BY <2>1 DEF RouteInv, R!At, R!policy
  <2>4. Declared(route)
    BY <2>2, <2>3, RoutesDeclared DEF IsRouteRequest
  <2>5. x.user /\ x.pipeline /\ \E f \in seen : f.session
    BY <2>2, <2>3, <2>4 DEF Shown, Declared
  <2>6. route.tenant # "none" => x.tenant = Home /\ x.session_tenant = Home
          /\ \E f \in seen : f.member /\ R!is_tenant_operation_allowed(f.status, route.router.tenant_operation, {})
    BY <2>2, <2>3, <2>4, <2>5 DEF Shown, Declared, Resolves, IsRouteRequest, DistinctTenants
  <2>7. /\ route.tenant # "none" => R!Target = Home
        /\ route.tenant = "none" => R!Target = R!PLATFORM_TENANT_ID
    BY <2>1, <2>2, <2>3, <2>4, <2>6 DEF R!Target, Shown, Declared
  <2>8. route.router.permissions # {} => \E f \in seen : DomainOf(x) \in f.policies
    BY <2>2, <2>3 DEF Shown
  <2>9. route.router.permissions # {} => DomainOf(x) = R!Target
    BY <2>2, <2>4, <2>6, <2>7 DEF Declared, DomainOf
  <2> QED
    BY <2>1, <2>2, <2>5, <2>6, <2>7, <2>8, <2>9 DEF R!policy
<1>2. RouteInv => R!PermittedIsServed
  <2> SUFFICES ASSUME RouteInv PROVE R!PermittedIsServed
    OBVIOUS
  <2>1. Undisturbed(req)
    BY DEF RouteInv
  <2> QED
    BY <2>1 DEF R!PermittedIsServed, Undisturbed, Reasons, R!At, R!policy, R!_requires_tenant_resolution, Resolves,
                R!MayEnterTenant, MayEnter
<1>3. RouteInv /\ [R!Next]_R!routeVars => RouteInv'
  BY RouteNext
<1>4. RouteInv => ServedAsAuthorized
  BY <1>1, <1>2 DEF ServedAsAuthorized, R!ServedAsAuthorized
<1> QED
  BY RouteInit, <1>3, <1>4, PTL DEF R!Spec

-----------------------------------------------------------------------------
(* Rows of tenants                                                          *)

UnitsOfWork(s) == I!Places(s, "unit")

(* What a task's blocks say of its session: it is open inside a unit, units *)
(* agree, and the outermost unit knows whether one in it has failed.        *)
StackOK(s, e) ==
  /\ e.open <=> UnitsOfWork(s) # {}
  /\ e.open => e.conn \in Connections
  /\ ~e.open => e.conn = Null
  /\ \A i, j \in UnitsOfWork(s) : i < j /\ s[i].tenant # Null => s[j].tenant = s[i].tenant
  /\ \A i \in UnitsOfWork(s) :
       (\A j \in UnitsOfWork(s) : i <= j) => (s[i].rollback_only <=> e.failed)

(* A connection in use carries the tenant of its session, and no other      *)
(* session uses it; an idle one carries none.                               *)
ConnectionsOK ==
  /\ \A t, u \in Tasks :
       session[t].open /\ session[u].open /\ t # u => session[t].conn # session[u].conn
  /\ row_policies =>
       \A t \in Tasks : session[t].open => variable[session[t].conn] = session[t].tenant
  /\ \A c \in Connections :
       (\A t \in Tasks : session[t].open => session[t].conn # c) => variable[c] = Null

LastOK == I!ScopedToTenant /\ I!KeptInSession /\ I!WholeUnits

IsolationInv ==
  /\ I!TypeOK
  /\ \A t \in Tasks : StackOK(stack[t], session[t])
  /\ ConnectionsOK
  /\ LastOK

-----------------------------------------------------------------------------
(* Natural numbers and the innermost block.                                *)

LEMMA Least ==
  ASSUME NEW T, T \subseteq Nat, T # {}
  PROVE  \E x \in T : \A y \in T : x <= y
<1> DEFINE Before == {ss \in Nat \X Nat : ss[1] < ss[2]}
<1>1. IsWellFoundedOn(Before, Nat)
  BY NatLessThanWellFounded DEF OpToRel
<1>2. PICK x \in T : \A y \in T : <<y, x>> \notin Before
  BY <1>1, WFMin
<1>3. ASSUME NEW y \in T PROVE x <= y
  <2>1. <<y, x>> \in Nat \X Nat /\ ~(y < x)
    BY <1>2
  <2> QED BY <2>1
<1> QED BY <1>3

LEMMA Greatest ==
  ASSUME NEW n \in Nat, NEW T, T \subseteq 1..n, T # {}
  PROVE  \E x \in T : \A y \in T : x >= y
<1> DEFINE D == {n - i : i \in T}
<1>1. \A i \in T : i \in Nat /\ n - i \in Nat
  OBVIOUS
<1>2. D \subseteq Nat /\ D # {}
  BY <1>1
<1>3. PICK d \in D : \A e \in D : d <= e
  BY <1>2, Least
<1>4. PICK x \in T : d = n - x
  OBVIOUS
<1>5. \A y \in T : n - x <= n - y
  BY <1>3, <1>4
<1> QED BY <1>1, <1>5

(* The innermost block of a kind is one, and none of the kind is inside it. *)
LEMMA InnermostIs ==
  ASSUME NEW s \in Seq(I!Block), NEW kind
  PROVE  /\ I!Innermost(s, kind) = 0 <=> I!Places(s, kind) = {}
         /\ I!Innermost(s, kind) # 0 =>
              /\ I!Innermost(s, kind) \in I!Places(s, kind)
              /\ \A i \in I!Places(s, kind) : i <= I!Innermost(s, kind)
<1>1. I!Places(s, kind) \subseteq 1..Len(s) /\ Len(s) \in Nat
  BY DEF I!Places
<1>2. CASE I!Places(s, kind) = {}
  BY <1>2 DEF I!Innermost
<1>3. CASE I!Places(s, kind) # {}
  <2>1. \E x \in I!Places(s, kind) : \A y \in I!Places(s, kind) : x >= y
    BY <1>1, <1>3, Greatest
  <2>2. /\ I!Max(I!Places(s, kind)) \in I!Places(s, kind)
        /\ \A y \in I!Places(s, kind) : I!Max(I!Places(s, kind)) >= y
    BY <2>1 DEF I!Max
  <2>3. I!Innermost(s, kind) = I!Max(I!Places(s, kind))
    BY <1>3 DEF I!Innermost
  <2> HIDE DEF I!Max
  <2>4. I!Innermost(s, kind) # 0
    BY <1>1, <2>2, <2>3
  <2> QED BY <1>1, <1>3, <2>2, <2>3, <2>4
<1> QED BY <1>2, <1>3

-----------------------------------------------------------------------------
(* What becomes of StackOK when blocks are entered and left.               *)

LEMMA UnitsAre ==
  ASSUME NEW s \in Seq(I!Block), NEW i \in UnitsOfWork(s)
  PROVE  /\ Len(s) \in Nat /\ i \in Nat /\ 1 <= i /\ i <= Len(s)
         /\ s[i].kind = "unit"
         /\ s[i].tenant \in Tenants \cup {Null}
<1>1. i \in 1..Len(s) /\ Len(s) \in Nat /\ s[i].kind = "unit"
  BY DEF UnitsOfWork, I!Places
<1>2. s[i] \in I!Block
  BY <1>1
<1> QED BY <1>1, <1>2 DEF I!Block

(* A new block is the last one; the others keep their places.               *)
LEMMA Appended ==
  ASSUME NEW s \in Seq(I!Block), NEW b \in I!Block
  PROVE  /\ Append(s, b) \in Seq(I!Block)
         /\ UnitsOfWork(Append(s, b)) = UnitsOfWork(s) \cup (IF b.kind = "unit" THEN {Len(s) + 1} ELSE {})
         /\ \A i \in UnitsOfWork(s) : Append(s, b)[i] = s[i]
         /\ Append(s, b)[Len(s) + 1] = b
BY DEF UnitsOfWork, I!Places

(* Leaving the last block keeps the others.                                 *)
LEMMA Popped ==
  ASSUME NEW s \in Seq(I!Block), Len(s) > 0
  PROVE  LET rest == SubSeq(s, 1, Len(s) - 1) IN
         /\ rest \in Seq(I!Block)
         /\ UnitsOfWork(rest) = UnitsOfWork(s) \ {Len(s)}
         /\ \A i \in UnitsOfWork(rest) : rest[i] = s[i]
<1> DEFINE rest == SubSeq(s, 1, Len(s) - 1)
<1>1. Len(s) \in Nat /\ Len(s) - 1 \in Nat /\ \A i \in 1..Len(s) - 1 : s[i] \in I!Block
  OBVIOUS
<1>2. rest \in Seq(I!Block) /\ Len(rest) = Len(s) - 1 /\ \A i \in 1..Len(s) - 1 : rest[i] = s[i]
  <2>1. /\ rest \in Seq(I!Block)
        /\ Len(rest) = IF 1 <= Len(s) - 1 THEN (Len(s) - 1) - 1 + 1 ELSE 0
        /\ \A i \in 1 .. (Len(s) - 1) - 1 + 1 : rest[i] = s[1 + i - 1]
    BY <1>1, SubSeqProperties
  <2> HIDE DEF rest
  <2>2. Len(rest) = Len(s) - 1
    <3>1. ASSUME NEW n \in Nat PROVE n = IF 1 <= n THEN n - 1 + 1 ELSE 0
      OBVIOUS
    <3> QED BY <1>1, <2>1, <3>1
  <2>3. \A i \in 1..Len(s) - 1 : i \in 1 .. (Len(s) - 1) - 1 + 1 /\ 1 + i - 1 = i
    BY <1>1
  <2> QED BY <2>1, <2>2, <2>3
<1> HIDE DEF rest
<1>3. DOMAIN rest = 1..Len(s) - 1 /\ DOMAIN s = 1..Len(s)
  BY <1>2
<1>4. UnitsOfWork(rest) = UnitsOfWork(s) \ {Len(s)}
  BY <1>1, <1>2, <1>3 DEF UnitsOfWork, I!Places
<1>5. \A i \in UnitsOfWork(rest) : rest[i] = s[i]
  BY <1>2, <1>3 DEF UnitsOfWork, I!Places
<1> QED BY <1>2, <1>4, <1>5 DEF rest

(* Blocks with the same units say the same.                                 *)
LEMMA SameUnits ==
  ASSUME NEW s, NEW r, NEW e, StackOK(s, e), UnitsOfWork(r) = UnitsOfWork(s),
         \A i \in UnitsOfWork(s) : r[i] = s[i]
  PROVE  StackOK(r, e)
BY DEF StackOK

LEMMA EntersContext ==
  ASSUME NEW s \in Seq(I!Block), NEW e \in I!Session, NEW b \in I!Block, b.kind = "context",
         StackOK(s, e)
  PROVE  Append(s, b) \in Seq(I!Block) /\ StackOK(Append(s, b), e)
<1>1. /\ Append(s, b) \in Seq(I!Block)
      /\ UnitsOfWork(Append(s, b)) = UnitsOfWork(s)
      /\ \A i \in UnitsOfWork(s) : Append(s, b)[i] = s[i]
  <2> DEFINE a == Append(s, b)
  <2>1. /\ a \in Seq(I!Block)
        /\ UnitsOfWork(a) = UnitsOfWork(s) \cup (IF b.kind = "unit" THEN {Len(s) + 1} ELSE {})
        /\ \A i \in UnitsOfWork(s) : a[i] = s[i]
    BY Appended
  <2> HIDE DEF a
  <2>2. a \in Seq(I!Block) /\ UnitsOfWork(a) = UnitsOfWork(s) /\ \A i \in UnitsOfWork(s) : a[i] = s[i]
    BY <2>1
  <2> QED BY <2>2 DEF a
<1> QED BY <1>1, SameUnits

(* A unit that agrees with the innermost agrees with all.                   *)
LEMMA EntersUnit ==
  ASSUME NEW s \in Seq(I!Block), NEW e \in I!Session, StackOK(s, e), e.open,
         NEW tenant \in Tenants \cup {Null},
         I!Agree(tenant, s[I!Innermost(s, "unit")].tenant)
  PROVE  LET active == s[I!Innermost(s, "unit")].tenant
             b == I!Unit(IF tenant # Null THEN tenant ELSE active) IN
         Append(s, b) \in Seq(I!Block) /\ StackOK(Append(s, b), e)
<1> DEFINE m == I!Innermost(s, "unit")
           active == s[m].tenant
           b == I!Unit(IF tenant # Null THEN tenant ELSE active)
           a == Append(s, b)
<1>1. m \in UnitsOfWork(s) /\ \A i \in UnitsOfWork(s) : i <= m
  BY InnermostIs DEF StackOK, UnitsOfWork
<1> HIDE DEF m
<1>2. active \in Tenants \cup {Null}
  BY <1>1, UnitsAre
<1>3. b \in I!Block /\ b.kind = "unit" /\ b.tenant = (IF tenant # Null THEN tenant ELSE active)
  BY <1>2 DEF I!Unit, I!Block
<1>4. I!Agree(tenant, active)
  BY DEF m
<1> HIDE DEF b, active
<1>5. /\ a \in Seq(I!Block)
      /\ UnitsOfWork(a) = UnitsOfWork(s) \cup {Len(s) + 1}
      /\ \A i \in UnitsOfWork(s) : a[i] = s[i]
      /\ a[Len(s) + 1] = b
  BY <1>3, Appended
<1> HIDE DEF a
<1>6. ASSUME NEW i \in UnitsOfWork(s), s[i].tenant # Null PROVE b.tenant = s[i].tenant
  <2>1. s[i].tenant = active
    <3>1. CASE i = m
      BY <3>1 DEF active
    <3>2. CASE i # m
      <4>1. i < m
        BY <1>1, <3>2, UnitsAre
      <4> QED BY <4>1, <1>1, <1>6 DEF StackOK, active
    <3> QED BY <3>1, <3>2
  <2> QED BY <2>1, <1>3, <1>4, <1>6 DEF I!Agree
<1>7. \A i \in UnitsOfWork(s) : i # Len(s) + 1 /\ i < Len(s) + 1 /\ ~(Len(s) + 1 < i)
  BY UnitsAre
<1>8. ASSUME NEW i \in UnitsOfWork(a), NEW j \in UnitsOfWork(a), i < j, a[i].tenant # Null
      PROVE  a[j].tenant = a[i].tenant
  <2>1. i \in UnitsOfWork(s)
    <3>1. CASE i = Len(s) + 1
      <4>1. j \in UnitsOfWork(s) \/ j = i
        BY <1>5, <3>1
      <4>2. Len(s) \in Nat
        OBVIOUS
      <4>3. ~(i < i)
        BY <3>1, <4>2
      <4> QED BY <1>7, <1>8, <3>1, <4>1, <4>3
    <3> QED BY <3>1, <1>5
  <2>2. CASE j \in UnitsOfWork(s)
    BY <2>1, <2>2, <1>5, <1>8 DEF StackOK
  <2>3. CASE j = Len(s) + 1
    BY <2>1, <2>3, <1>5, <1>6, <1>8
  <2> QED BY <2>2, <2>3, <1>5
<1>9. ASSUME NEW i \in UnitsOfWork(a), \A j \in UnitsOfWork(a) : i <= j
      PROVE  a[i].rollback_only <=> e.failed
  <2>1. i \in UnitsOfWork(s)
    <3>1. i <= m /\ m \in UnitsOfWork(s) /\ m \in Nat /\ m <= Len(s) /\ Len(s) \in Nat
      BY <1>1, <1>5, <1>9, UnitsAre
    <3>2. i # Len(s) + 1
      BY <3>1
    <3> QED BY <3>2, <1>5
  <2>2. \A j \in UnitsOfWork(s) : i <= j
    BY <1>5, <1>9
  <2> QED BY <2>1, <2>2, <1>5 DEF StackOK
<1>10. e.open /\ UnitsOfWork(a) # {}
  BY <1>5
<1>11. StackOK(a, e)
  BY <1>8, <1>9, <1>10 DEF StackOK
<1> QED BY <1>5, <1>11 DEF b, active, m, a

(* A unit opened where there is none is the outermost.                      *)
LEMMA OpensStack ==
  ASSUME NEW s \in Seq(I!Block), NEW e \in I!Session, UnitsOfWork(s) = {},
         NEW b \in I!Block, b.kind = "unit", ~b.rollback_only,
         e.open, e.conn \in Connections, ~e.failed
  PROVE  Append(s, b) \in Seq(I!Block) /\ StackOK(Append(s, b), e)
<1> DEFINE a == Append(s, b)
<1>1. /\ a \in Seq(I!Block)
      /\ UnitsOfWork(a) = UnitsOfWork(s) \cup (IF b.kind = "unit" THEN {Len(s) + 1} ELSE {})
      /\ a[Len(s) + 1] = b
  BY Appended
<1> HIDE DEF a
<1>2. UnitsOfWork(a) = {Len(s) + 1} /\ Len(s) + 1 \in Nat
  BY <1>1
<1>3. ASSUME NEW i \in UnitsOfWork(a), NEW j \in UnitsOfWork(a), i < j PROVE FALSE
  BY <1>2, <1>3
<1>4. \A i \in UnitsOfWork(a) : ~a[i].rollback_only
  BY <1>1, <1>2
<1>5. StackOK(a, e)
  BY <1>2, <1>3, <1>4 DEF StackOK
<1> QED BY <1>1, <1>5 DEF a

(* The resolver replaces a context by a context.                            *)
LEMMA ReplacesContext ==
  ASSUME NEW s \in Seq(I!Block), NEW e \in I!Session, NEW b \in I!Block, b.kind = "context",
         NEW i \in I!Places(s, "context"), StackOK(s, e)
  PROVE  [s EXCEPT ![i] = b] \in Seq(I!Block) /\ StackOK([s EXCEPT ![i] = b], e)
<1> DEFINE r == [s EXCEPT ![i] = b]
<1>1. i \in 1..Len(s) /\ s[i].kind = "context"
  BY DEF I!Places
<1>2. r \in Seq(I!Block) /\ DOMAIN r = DOMAIN s /\ r[i] = b
      /\ \A j \in DOMAIN s : j # i => r[j] = s[j]
  BY <1>1
<1> HIDE DEF r
<1>3. UnitsOfWork(r) = UnitsOfWork(s) /\ \A j \in UnitsOfWork(s) : r[j] = s[j]
  BY <1>1, <1>2 DEF UnitsOfWork, I!Places
<1>4. StackOK(r, e)
  BY <1>3, SameUnits
<1> QED BY <1>2, <1>4 DEF r

(* Leaving a context, or a unit inside another one, keeps what is said of   *)
(* the session.                                                             *)
LEMMA LeavesInner ==
  ASSUME NEW s \in Seq(I!Block), NEW e \in I!Session, StackOK(s, e), Len(s) > 0,
         \/ s[Len(s)].kind = "context"
         \/ I!Places(SubSeq(s, 1, Len(s) - 1), "unit") # {}
  PROVE  StackOK(SubSeq(s, 1, Len(s) - 1), e)
<1> DEFINE r == SubSeq(s, 1, Len(s) - 1)
           n == Len(s)
<1>1. r \in Seq(I!Block) /\ UnitsOfWork(r) = UnitsOfWork(s) \ {n} /\ \A i \in UnitsOfWork(r) : r[i] = s[i]
  BY Popped
<1>2. s[n].kind = "context" \/ UnitsOfWork(r) # {}
  BY DEF UnitsOfWork
<1>3. n \in Nat
  OBVIOUS
<1> HIDE DEF r, n
<1>4. CASE n \notin UnitsOfWork(s)
  BY <1>1, <1>4, SameUnits DEF r
<1>5. CASE n \in UnitsOfWork(s)
  <2>1. s[n].kind = "unit"
    BY <1>5, UnitsAre
  <2>2. UnitsOfWork(r) # {} /\ UnitsOfWork(s) # {}
    BY <1>2, <1>5, <2>1
  <2>3. \A i, j \in UnitsOfWork(r) : i < j /\ r[i].tenant # Null => r[j].tenant = r[i].tenant
    BY <1>1 DEF StackOK
  <2>4. \A i \in UnitsOfWork(r) : i <= n
    BY <1>1, UnitsAre DEF n
  <2>5. ASSUME NEW i \in UnitsOfWork(r), \A j \in UnitsOfWork(r) : i <= j
        PROVE  r[i].rollback_only <=> e.failed
    <3>1. i \in UnitsOfWork(s) /\ \A j \in UnitsOfWork(s) : i <= j
      BY <1>1, <2>4, <2>5
    <3> QED BY <3>1, <1>1 DEF StackOK
  <2> QED BY <2>2, <2>3, <2>5 DEF StackOK, r
<1> QED BY <1>4, <1>5

(* mark_rollback_only keeps the units and marks each of them.               *)
LEMMA Marks ==
  ASSUME NEW s \in Seq(I!Block), NEW e \in I!Session, StackOK(s, e), e.open
  PROVE  /\ I!mark_rollback_only(s) \in Seq(I!Block)
         /\ StackOK(I!mark_rollback_only(s), [e EXCEPT !.failed = TRUE])
<1> DEFINE r == I!mark_rollback_only(s)
           f == [e EXCEPT !.failed = TRUE]
<1>1. DOMAIN s = 1..Len(s) /\ Len(s) \in Nat /\ \A i \in DOMAIN s : s[i] \in I!Block
  OBVIOUS
<1>2. DOMAIN r = 1..Len(s)
      /\ \A i \in 1..Len(s) :
           r[i] = IF s[i].kind = "unit" THEN [s[i] EXCEPT !.rollback_only = TRUE] ELSE s[i]
  BY <1>1 DEF I!mark_rollback_only
<1>3. \A i \in 1..Len(s) : /\ r[i] \in I!Block /\ r[i].kind = s[i].kind /\ r[i].tenant = s[i].tenant
                           /\ r[i].kind = "unit" => r[i].rollback_only = TRUE
  <2>1. ASSUME NEW x \in I!Block
        PROVE  LET y == [x EXCEPT !.rollback_only = TRUE] IN
               y \in I!Block /\ y.kind = x.kind /\ y.tenant = x.tenant /\ y.rollback_only = TRUE
    BY DEF I!Block
  <2> HIDE DEF r
  <2>2. ASSUME NEW i \in 1..Len(s)
        PROVE  /\ r[i] \in I!Block /\ r[i].kind = s[i].kind /\ r[i].tenant = s[i].tenant
               /\ r[i].kind = "unit" => r[i].rollback_only = TRUE
    <3>1. CASE s[i].kind = "unit"
      <4>1. s[i] \in I!Block /\ r[i] = [s[i] EXCEPT !.rollback_only = TRUE]
        BY <1>1, <1>2, <3>1
      <4> QED BY <2>1, <4>1
    <3>2. CASE s[i].kind # "unit"
      BY <1>1, <1>2, <3>2
    <3> QED BY <3>1, <3>2
  <2> QED BY <2>2
<1>4. r \in [1..Len(s) -> I!Block]
  <2>1. r = [i \in 1..Len(s) |-> r[i]]
    BY <1>1 DEF I!mark_rollback_only
  <2> QED BY <1>3, <2>1
<1>5. r \in Seq(I!Block)
  BY <1>1, <1>4
<1> HIDE DEF r
<1>6. UnitsOfWork(r) = UnitsOfWork(s) /\ \A i \in UnitsOfWork(s) : r[i].tenant = s[i].tenant /\ r[i].rollback_only = TRUE
  BY <1>1, <1>2, <1>3 DEF UnitsOfWork, I!Places
<1>7. f.open = e.open /\ f.conn = e.conn /\ f.failed = TRUE
  BY DEF I!Session
<1> HIDE DEF f
<1>8. StackOK(r, f)
  BY <1>6, <1>7 DEF StackOK
<1> QED BY <1>5, <1>8 DEF r, f

-----------------------------------------------------------------------------
(* The steps.                                                              *)

(* One task moves; its session keeps its connection and tenant, if open.    *)
LEMMA SessionKept ==
  ASSUME IsolationInv, UNCHANGED row_policies, NEW t \in Tasks, NEW e \in I!Session, session' = [session EXCEPT ![t] = e],
         e.open = session[t].open, e.conn = session[t].conn, e.tenant = session[t].tenant,
         variable' = variable
  PROVE  session' \in [Tasks -> I!Session] /\ ConnectionsOK'
<1>1. session \in [Tasks -> I!Session]
  BY DEF IsolationInv, I!TypeOK
<1>2. \A u \in Tasks : /\ session'[u].open = session[u].open
                       /\ session'[u].conn = session[u].conn
                       /\ session'[u].tenant = session[u].tenant
  BY <1>1
<1>3. ConnectionsOK'
  BY <1>2 DEF IsolationInv, ConnectionsOK
<1> QED BY <1>1, <1>3

(* One task moves, to a stack and a session that go together.               *)
LEMMA StacksKept ==
  ASSUME IsolationInv, NEW t \in Tasks, NEW s \in Seq(I!Block), NEW e \in I!Session,
         stack' = [stack EXCEPT ![t] = s], session' = [session EXCEPT ![t] = e],
         StackOK(s, e)
  PROVE  /\ stack' \in [Tasks -> Seq(I!Block)]
         /\ \A u \in Tasks : StackOK(stack'[u], session'[u])
<1>1. stack \in [Tasks -> Seq(I!Block)] /\ session \in [Tasks -> I!Session]
      /\ \A u \in Tasks : StackOK(stack[u], session[u])
  BY DEF IsolationInv, I!TypeOK
<1>2. stack' \in [Tasks -> Seq(I!Block)]
  BY <1>1
<1>3. \A u \in Tasks : stack'[u] = (IF u = t THEN s ELSE stack[u])
                       /\ session'[u] = (IF u = t THEN e ELSE session[u])
  BY <1>1
<1>4. \A u \in Tasks : StackOK(stack'[u], session'[u])
  BY <1>1, <1>3
<1> QED BY <1>2, <1>4

(* A step that changes blocks only, and leaves no statement behind.         *)
LEMMA BlocksOnly ==
  ASSUME IsolationInv, UNCHANGED row_policies, NEW t \in Tasks, NEW s \in Seq(I!Block), StackOK(s, session[t]),
         stack' = [stack EXCEPT ![t] = s], raising' \in [Tasks -> BOOLEAN],
         last' = I!Nothing, UNCHANGED <<table, variable, session>>
  PROVE  IsolationInv'
<1>1. session[t] \in I!Session /\ session' = [session EXCEPT ![t] = session[t]]
  BY DEF IsolationInv, I!TypeOK
<1>2. session' \in [Tasks -> I!Session] /\ ConnectionsOK'
  BY <1>1, SessionKept
<1>3. stack' \in [Tasks -> Seq(I!Block)] /\ \A u \in Tasks : StackOK(stack'[u], session'[u])
  BY <1>1, StacksKept
<1>4. I!TypeOK'
  BY <1>2, <1>3 DEF IsolationInv, I!TypeOK
<1>5. LastOK'
  BY DEF LastOK, I!ScopedToTenant, I!KeptInSession, I!WholeUnits, I!Nothing
<1> QED BY <1>2, <1>3, <1>4, <1>5 DEF IsolationInv

(* A statement changes the writes of its session, or breaks it.             *)
LEMMA StatementStep ==
  ASSUME IsolationInv, UNCHANGED row_policies, NEW t \in Tasks, NEW e \in I!Session, session' = [session EXCEPT ![t] = e],
         e.open = session[t].open, e.conn = session[t].conn, e.tenant = session[t].tenant,
         e.failed = session[t].failed, raising' \in [Tasks -> BOOLEAN],
         UNCHANGED <<table, variable, stack>>, LastOK'
  PROVE  IsolationInv'
<1>1. session' \in [Tasks -> I!Session] /\ ConnectionsOK'
  BY SessionKept
<1>2. stack[t] \in Seq(I!Block) /\ stack' = [stack EXCEPT ![t] = stack[t]]
  BY DEF IsolationInv, I!TypeOK
<1>3. StackOK(stack[t], e)
  BY DEF IsolationInv, StackOK
<1>4. \A u \in Tasks : StackOK(stack'[u], session'[u])
  BY <1>2, <1>3, StacksKept
<1>5. I!TypeOK'
  BY <1>1 DEF IsolationInv, I!TypeOK
<1> QED BY <1>1, <1>4, <1>5 DEF IsolationInv

(* With the row policies a session sees rows of its own tenant only.        *)
LEMMA SeesOwn ==
  ASSUME IsolationInv, NEW t \in Tasks, I!InUnit(t), row_policies, NEW r \in I!Visible(t)
  PROVE  I!Holds(t, r) = session[t].tenant
BY DEF IsolationInv, ConnectionsOK, I!InUnit, I!Visible

LEMMA ExecutesStep ==
  ASSUME IsolationInv, UNCHANGED row_policies, NEW t \in Tasks, I!InUnit(t), NEW how \in {"scoped", "named", "across"}, NEW asked, NEW of,
         NEW draft \in [Rows -> Tenants \cup {Null}], I!Executes(t, how, asked, of, draft),
         of \subseteq {I!Holds(t, r) : r \in I!Visible(t)},
         how = "scoped" => of \subseteq {asked},
         UNCHANGED <<table, variable, stack>>
  PROVE  IsolationInv'
<1> DEFINE e == session[t]
<1>1. e \in I!Session /\ raising \in [Tasks -> BOOLEAN]
  BY DEF IsolationInv, I!TypeOK
<1>2. CASE I!FlushRefused(t)
  <2> DEFINE f == [e EXCEPT !.broken = TRUE]
  <2>1. /\ f \in I!Session /\ f.open = e.open /\ f.conn = e.conn /\ f.tenant = e.tenant
        /\ f.failed = e.failed
    BY <1>1 DEF I!Session
  <2>2. session' = [session EXCEPT ![t] = f] /\ last' = I!Nothing /\ raising' \in [Tasks -> BOOLEAN]
    BY <1>1, <1>2 DEF I!Executes, I!Raise
  <2>3. LastOK'
    BY <2>2 DEF LastOK, I!ScopedToTenant, I!KeptInSession, I!WholeUnits, I!Nothing
  <2> HIDE DEF f
  <2> QED BY <2>1, <2>2, <2>3, StatementStep
<1>3. CASE ~I!FlushRefused(t)
  <2> DEFINE f == [e EXCEPT !.draft = draft]
  <2>1. /\ f \in I!Session /\ f.open = e.open /\ f.conn = e.conn /\ f.tenant = e.tenant
        /\ f.failed = e.failed
    BY <1>1 DEF I!Session
  <2>2. /\ session' = [session EXCEPT ![t] = f] /\ raising' \in [Tasks -> BOOLEAN]
        /\ last' = [how |-> how, asked |-> asked, of |-> of, kept |-> session[t].tenant]
    BY <1>1, <1>3 DEF I!Executes
  <2>3. row_policies => of \subseteq {session[t].tenant}
    BY SeesOwn
  <2>4. LastOK'
    BY <2>2, <2>3 DEF LastOK, I!ScopedToTenant, I!KeptInSession, I!WholeUnits
  <2> HIDE DEF f
  <2> QED BY <2>1, <2>2, <2>4, StatementStep
<1> QED BY <1>2, <1>3

(* A task that raises leaves everything else alone.                         *)
LEMMA RaisesStep ==
  ASSUME IsolationInv, UNCHANGED row_policies, NEW t \in Tasks, raising' \in [Tasks -> BOOLEAN], last' = I!Nothing,
         UNCHANGED <<table, variable, stack, session>>
  PROVE  IsolationInv'
<1>1. /\ stack[t] \in Seq(I!Block) /\ stack' = [stack EXCEPT ![t] = stack[t]]
      /\ StackOK(stack[t], session[t])
  BY DEF IsolationInv, I!TypeOK
<1> QED BY <1>1, BlocksOnly

LEMMA RefusesStep ==
  ASSUME IsolationInv, UNCHANGED row_policies, NEW t \in Tasks, I!Refuses(t), UNCHANGED <<table, variable, stack>>
  PROVE  IsolationInv'
<1>1. raising' \in [Tasks -> BOOLEAN] /\ last' = I!Nothing /\ UNCHANGED session
  BY DEF I!Refuses, I!Raise, IsolationInv, I!TypeOK
<1> QED BY <1>1, RaisesStep

LEMMA CurrentTenant ==
  ASSUME IsolationInv, NEW t \in Tasks
  PROVE  I!current_tenant_id(t) \in Tenants \cup {Null}
<1> DEFINE s == stack[t]
           i == I!Innermost(s, "context")
<1>1. s \in Seq(I!Block)
  BY DEF IsolationInv, I!TypeOK
<1>2. i # 0 => i \in I!Places(s, "context")
  BY <1>1, InnermostIs
<1> HIDE DEF i, s
<1>3. i # 0 => s[i] \in I!Block
  BY <1>1, <1>2 DEF I!Places
<1>4. i # 0 => s[i].tenant \in Tenants \cup {Null}
  BY <1>3 DEF I!Block
<1> QED BY <1>4 DEF I!current_tenant_id, i, s

LEMMA StatementsStep ==
  ASSUME IsolationInv, UNCHANGED row_policies, NEW t \in Tasks, I!Statements(t)
  PROVE  IsolationInv'
<1> DEFINE e == session[t]
<1>1. e \in I!Session /\ e.draft \in [Rows -> Tenants \cup {Null}] /\ raising \in [Tasks -> BOOLEAN]
  BY DEF IsolationInv, I!TypeOK, I!Session
<1>2. I!current_tenant_id(t) \in Tenants \cup {Null}
  BY CurrentTenant
<1>3. \A tenant : /\ I!Scoped(t, tenant) \subseteq {I!Holds(t, r) : r \in I!Visible(t)}
                  /\ I!Scoped(t, tenant) \subseteq {tenant}
  BY DEF I!Scoped
<1>4. ASSUME I!RepositoryReads(t) PROVE IsolationInv'
  <2>1. I!InUnit(t) /\ UNCHANGED <<table, variable, stack>>
    BY <1>4 DEF I!RepositoryReads
  <2>2. \/ I!Refuses(t)
        \/ I!Executes(t, "scoped", I!current_tenant_id(t), I!Scoped(t, I!current_tenant_id(t)), e.draft)
    BY <1>4 DEF I!RepositoryReads, I!Reads
  <2> HIDE DEF e
  <2> QED BY <1>1, <1>3, <2>1, <2>2, RefusesStep, ExecutesStep
<1>5. ASSUME NEW r \in Rows, NEW given \in Tenants \cup {Null}, I!RepositoryCreates(t, r, given)
      PROVE  IsolationInv'
  <2>1. UNCHANGED <<table, variable, stack>>
    BY <1>5 DEF I!RepositoryCreates
  <2>2. CASE I!Refuses(t)
    BY <2>1, <2>2, RefusesStep
  <2>3. CASE ~I!Refuses(t)
    <3> DEFINE f == [e EXCEPT !.draft = [@ EXCEPT ![r] = I!current_tenant_id(t)]]
    <3>1. /\ f \in I!Session /\ f.open = e.open /\ f.conn = e.conn /\ f.tenant = e.tenant
          /\ f.failed = e.failed
      BY <1>1, <1>2 DEF I!Session
    <3>2. /\ session' = [session EXCEPT ![t] = f] /\ raising' \in [Tasks -> BOOLEAN]
          /\ last' = I!Nothing
      BY <1>1, <1>5, <2>3 DEF I!RepositoryCreates
    <3>3. LastOK'
      BY <3>2 DEF LastOK, I!ScopedToTenant, I!KeptInSession, I!WholeUnits, I!Nothing
    <3> HIDE DEF f
    <3> QED BY <2>1, <3>1, <3>2, <3>3, StatementStep
  <2> QED BY <2>2, <2>3
<1>6. ASSUME NEW r \in Rows, NEW given \in Tenants \cup {Null}, I!RepositoryUpdates(t, r, given)
      PROVE  IsolationInv'
  <2>1. I!InUnit(t) /\ UNCHANGED <<table, variable, stack>>
    BY <1>6 DEF I!RepositoryUpdates
  <2>2. CASE I!Refuses(t)
    BY <2>1, <2>2, RefusesStep
  <2>3. CASE ~I!Refuses(t)
    <3>1. /\ r \in I!Visible(t) /\ I!Holds(t, r) = I!current_tenant_id(t)
          /\ I!Executes(t, "scoped", I!current_tenant_id(t), {I!Holds(t, r)},
                      [e.draft EXCEPT ![r] = I!Holds(t, r)])
      BY <1>6, <2>3 DEF I!RepositoryUpdates
    <3>2. [e.draft EXCEPT ![r] = I!Holds(t, r)] \in [Rows -> Tenants \cup {Null}]
      BY <1>1, <1>2, <3>1
    <3>3. /\ {I!Holds(t, r)} \subseteq {I!Holds(t, x) : x \in I!Visible(t)}
          /\ {I!Holds(t, r)} \subseteq {I!current_tenant_id(t)}
      BY <3>1
    <3> HIDE DEF e
    <3> QED BY <2>1, <3>1, <3>2, <3>3, ExecutesStep
  <2> QED BY <2>2, <2>3
<1>7. ASSUME NEW given \in Tenants \cup {Null}, NEW parameter \in Tenants \cup {Null},
             NEW predicate, I!execute_tenant_scoped(t, given, predicate, parameter)
      PROVE  IsolationInv'
  <2> DEFINE tenant == IF given # Null THEN given ELSE I!current_tenant_id(t)
  <2>1. I!InUnit(t) /\ UNCHANGED <<table, variable, stack>>
    BY <1>7 DEF I!execute_tenant_scoped
  <2>2. \/ I!Refuses(t) \/ I!Executes(t, "scoped", tenant, I!Scoped(t, tenant), e.draft)
        \/ I!Executes(t, "named", tenant, I!Unscoped(t), e.draft)
    BY <1>7 DEF I!execute_tenant_scoped, I!Reads
  <2>3. I!Unscoped(t) = {I!Holds(t, r) : r \in I!Visible(t)}
    BY DEF I!Unscoped
  <2> HIDE DEF tenant, e
  <2>4. CASE I!Executes(t, "named", tenant, I!Unscoped(t), e.draft)
    BY <1>1, <2>1, <2>3, <2>4, ExecutesStep
  <2> QED BY <1>1, <1>3, <2>1, <2>2, <2>4, RefusesStep, ExecutesStep
<1>8. ASSUME NEW via, NEW lacks, I!execute_cross_tenant(t, via, lacks) PROVE IsolationInv'
  <2>1. I!InUnit(t) /\ UNCHANGED <<table, variable, stack>>
    BY <1>8 DEF I!execute_cross_tenant
  <2>2. I!Refuses(t) \/ I!Executes(t, "across", Null, I!Unscoped(t), e.draft)
    BY <1>8 DEF I!execute_cross_tenant, I!Reads
  <2>3. I!Unscoped(t) = {I!Holds(t, r) : r \in I!Visible(t)}
    BY DEF I!Unscoped
  <2> HIDE DEF e
  <2> QED BY <1>1, <2>1, <2>2, <2>3, RefusesStep, ExecutesStep
<1> QED BY <1>4, <1>5, <1>6, <1>7, <1>8 DEF I!Statements

(* An outermost unit opens on a connection that carries no tenant.          *)
LEMMA OpensUnitStep ==
  ASSUME IsolationInv, UNCHANGED row_policies, NEW t \in Tasks, NEW tenant \in Tenants \cup {Null}, NEW fallback \in BOOLEAN,
         NEW conn \in Connections, I!OpensUnit(t, tenant, fallback, conn)
  PROVE  IsolationInv'
<1> DEFINE applies == tenant # Null /\ fallback
           carried == IF applies THEN tenant ELSE Null
           e == [I!Closed EXCEPT !.open = TRUE, !.conn = conn, !.tenant = carried]
           s == Append(stack[t], I!Unit(tenant))
<1>1. /\ e \in I!Session /\ e.open = TRUE /\ e.conn = conn /\ e.tenant = carried /\ e.failed = FALSE
  BY DEF I!Closed, I!Session
<1>2. /\ stack' = [stack EXCEPT ![t] = s] /\ session' = [session EXCEPT ![t] = e]
      /\ variable' = (IF applies THEN I!Applied(conn, tenant) ELSE variable)
      /\ UNCHANGED <<table, raising>> /\ last' = I!Nothing
      /\ ~session[t].open /\ \A u \in Tasks : session[u].conn # conn
  BY DEF I!OpensUnit, I!Enters, I!InUnit
<1>3. /\ variable \in [Connections -> Tenants \cup {Null}] /\ variable[conn] = Null
      /\ session \in [Tasks -> I!Session]
  BY <1>2 DEF IsolationInv, I!TypeOK, ConnectionsOK
<1>4. /\ variable' \in [Connections -> Tenants \cup {Null}]
      /\ row_policies => variable'[conn] = carried
      /\ \A c \in Connections : c # conn => variable'[c] = variable[c]
  BY <1>2, <1>3 DEF I!Applied
<1>5. s \in Seq(I!Block) /\ StackOK(s, e)
  <2>1. stack[t] \in Seq(I!Block) /\ UnitsOfWork(stack[t]) = {}
    BY <1>2 DEF IsolationInv, I!TypeOK, StackOK
  <2>2. I!Unit(tenant) \in I!Block /\ I!Unit(tenant).kind = "unit" /\ ~I!Unit(tenant).rollback_only
    BY DEF I!Unit, I!Block
  <2> HIDE DEF e
  <2> QED BY <1>1, <2>1, <2>2, OpensStack
<1> HIDE DEF e, s, carried
<1>6. stack' \in [Tasks -> Seq(I!Block)] /\ \A u \in Tasks : StackOK(stack'[u], session'[u])
  BY <1>1, <1>2, <1>5, StacksKept
<1>7. \A u \in Tasks : session'[u] = IF u = t THEN e ELSE session[u]
  BY <1>2, <1>3
<1>8. ConnectionsOK'
  <2>1. ASSUME NEW u \in Tasks, NEW w \in Tasks, session'[u].open, session'[w].open, u # w
        PROVE  session'[u].conn # session'[w].conn
    BY <1>1, <1>2, <1>7, <2>1 DEF IsolationInv, ConnectionsOK
  <2>2. ASSUME row_policies, NEW u \in Tasks, session'[u].open
        PROVE  variable'[session'[u].conn] = session'[u].tenant
    <3>1. CASE u = t
      BY <1>1, <1>4, <1>7, <2>2, <3>1
    <3>2. CASE u # t
      <4>1. session'[u] = session[u] /\ session[u].conn # conn /\ session[u].conn \in Connections
        BY <1>2, <1>7, <2>2, <3>2 DEF IsolationInv, StackOK
      <4> QED BY <1>4, <2>2, <4>1 DEF IsolationInv, ConnectionsOK
    <3> QED BY <3>1, <3>2
  <2>3. ASSUME NEW c \in Connections,
               \A u \in Tasks : session'[u].open => session'[u].conn # c
        PROVE  variable'[c] = Null
    <3>1. c # conn
      BY <1>1, <1>7, <2>3
    <3>2. \A u \in Tasks : session[u].open => session[u].conn # c
      BY <1>2, <1>7, <2>3
    <3> QED BY <1>4, <3>1, <3>2 DEF IsolationInv, ConnectionsOK
  <2> QED BY <2>1, <2>2, <2>3 DEF ConnectionsOK
<1>9. I!TypeOK'
  BY <1>1, <1>2, <1>3, <1>4, <1>6 DEF IsolationInv, I!TypeOK
<1>10. LastOK'
  BY <1>2 DEF LastOK, I!ScopedToTenant, I!KeptInSession, I!WholeUnits, I!Nothing
<1> QED BY <1>6, <1>8, <1>9, <1>10 DEF IsolationInv

LEMMA BlocksStep ==
  ASSUME IsolationInv, UNCHANGED row_policies, NEW t \in Tasks, I!Blocks(t)
  PROVE  IsolationInv'
<1> DEFINE s == stack[t]
           e == session[t]
<1>1. s \in Seq(I!Block) /\ e \in I!Session /\ StackOK(s, e) /\ raising \in [Tasks -> BOOLEAN]
  BY DEF IsolationInv, I!TypeOK
<1>2. ASSUME NEW tenant \in Tenants \cup {Null}, NEW frozen \in BOOLEAN,
             I!Enters(t, I!Context(tenant, frozen)), last' = I!Nothing,
             UNCHANGED <<table, variable, session, raising>>
      PROVE  IsolationInv'
  <2>1. I!Context(tenant, frozen) \in I!Block /\ I!Context(tenant, frozen).kind = "context"
    BY DEF I!Context, I!Block
  <2>2. stack' = [stack EXCEPT ![t] = Append(s, I!Context(tenant, frozen))]
    BY <1>2 DEF I!Enters
  <2> HIDE DEF s, e
  <2>3. Append(s, I!Context(tenant, frozen)) \in Seq(I!Block)
        /\ StackOK(Append(s, I!Context(tenant, frozen)), e)
    BY <1>1, <2>1, EntersContext
  <2> QED BY <1>1, <1>2, <2>2, <2>3, BlocksOnly DEF e
<1>3. ASSUME I!RequestContextMiddleware(t) PROVE IsolationInv'
  BY <1>2, <1>3 DEF I!RequestContextMiddleware
<1>4. ASSUME NEW tenant \in Tenants \cup {Null}, I!use_background_context(t, tenant) PROVE IsolationInv'
  BY <1>2, <1>4 DEF I!use_background_context
<1>5. ASSUME NEW tenant \in Tenants, I!resolve_current_tenant(t, tenant) PROVE IsolationInv'
  <2> DEFINE i == I!Innermost(s, "context")
             b == I!Context(tenant, TRUE)
  <2>1. /\ i # 0 /\ last' = I!Nothing /\ UNCHANGED <<table, variable, session>>
        /\ \/ I!Raise(t) /\ UNCHANGED stack
           \/ stack' = [stack EXCEPT ![t][i] = b] /\ UNCHANGED raising
    BY <1>5 DEF I!resolve_current_tenant
  <2>2. i \in I!Places(s, "context")
    BY <1>1, <2>1, InnermostIs
  <2>3. b \in I!Block /\ b.kind = "context"
    BY DEF I!Context, I!Block
  <2> HIDE DEF i, b
  <2>4. CASE I!Raise(t) /\ UNCHANGED stack
    BY <1>1, <2>1, <2>4, RaisesStep DEF I!Raise
  <2>5. CASE stack' = [stack EXCEPT ![t][i] = b] /\ UNCHANGED raising
    <3>1. stack' = [stack EXCEPT ![t] = [s EXCEPT ![i] = b]]
      BY <2>5
    <3> HIDE DEF s, e
    <3>2. [s EXCEPT ![i] = b] \in Seq(I!Block) /\ StackOK([s EXCEPT ![i] = b], e)
      BY <1>1, <2>2, <2>3, ReplacesContext
    <3> QED BY <1>1, <2>1, <2>5, <3>1, <3>2, BlocksOnly DEF e
  <2> QED BY <2>1, <2>4, <2>5
<1>6. ASSUME NEW tenant \in Tenants \cup {Null}, I!JoinsUnit(t, tenant) PROVE IsolationInv'
  <2> DEFINE active == s[I!Innermost(s, "unit")].tenant
             b == I!Unit(IF tenant # Null THEN tenant ELSE active)
  <2>1. /\ e.open /\ last' = I!Nothing /\ UNCHANGED <<table, variable, session>>
        /\ \/ I!Raise(t) /\ UNCHANGED stack
           \/ /\ I!Agree(tenant, active) /\ UNCHANGED raising
              /\ stack' = [stack EXCEPT ![t] = Append(s, b)]
    BY <1>6 DEF I!JoinsUnit, I!Enters, I!InUnit
  <2>2. CASE I!Raise(t) /\ UNCHANGED stack
    BY <1>1, <2>1, <2>2, RaisesStep DEF I!Raise
  <2>3. CASE /\ I!Agree(tenant, active) /\ UNCHANGED raising
             /\ stack' = [stack EXCEPT ![t] = Append(s, b)]
    <3> HIDE DEF s, e
    <3>1. Append(s, b) \in Seq(I!Block) /\ StackOK(Append(s, b), e)
      BY <1>1, <2>1, <2>3, EntersUnit
    <3> DEFINE a == Append(s, b)
    <3>2. a \in Seq(I!Block) /\ StackOK(a, session[t]) /\ stack' = [stack EXCEPT ![t] = a]
      BY <2>3, <3>1 DEF e
    <3> HIDE DEF a
    <3> QED BY <1>1, <2>1, <2>3, <3>2, BlocksOnly
  <2> QED BY <2>1, <2>2, <2>3
<1> QED BY <1>3, <1>4, <1>5, <1>6, OpensUnitStep DEF I!Blocks

(* The end of the outermost unit: its connection goes back without tenant,  *)
(* and what it committed nothing in it has failed.                          *)
LEMMA EndsUnitStep ==
  ASSUME IsolationInv, UNCHANGED row_policies, NEW t \in Tasks, Len(stack[t]) > 0, stack[t][Len(stack[t])].kind # "context",
         I!Places(SubSeq(stack[t], 1, Len(stack[t]) - 1), "unit") = {},
         I!EndsUnit(t, SubSeq(stack[t], 1, Len(stack[t]) - 1), stack[t][Len(stack[t])].rollback_only)
  PROVE  IsolationInv'
<1> DEFINE s == stack[t]
           e == session[t]
           n == Len(s)
           rest == SubSeq(s, 1, n - 1)
           attempt == ~raising[t] /\ ~s[n].rollback_only
           commit == attempt /\ ~I!FlushRefused(t)
<1>1. /\ s \in Seq(I!Block) /\ e \in I!Session /\ StackOK(s, e) /\ raising \in [Tasks -> BOOLEAN]
      /\ session \in [Tasks -> I!Session] /\ variable \in [Connections -> Tenants \cup {Null}]
      /\ table \in [Rows -> Tenants \cup {Null}]
  BY DEF IsolationInv, I!TypeOK
<1>2. /\ rest \in Seq(I!Block) /\ UnitsOfWork(rest) = {} /\ UnitsOfWork(rest) = UnitsOfWork(s) \ {n}
  BY <1>1, Popped DEF UnitsOfWork
<1>3. /\ table' = (IF commit THEN I!Committed(t) ELSE table)
      /\ variable' = [variable EXCEPT ![e.conn] = Null]
      /\ session' = [session EXCEPT ![t] = I!Closed] /\ stack' = [stack EXCEPT ![t] = rest]
      /\ raising' = [raising EXCEPT ![t] = rest # <<>> /\ (@ \/ (attempt /\ ~commit))]
      /\ last' = [how |-> "ended", committed |-> commit, kept |-> e.tenant,
                  of |-> {e.draft[r] : r \in Rows} \ {Null},
                  failed |-> e.failed \/ raising[t] \/ (attempt /\ I!FlushRefused(t))]
  BY DEF I!EndsUnit, I!Released
<1>4. n \in Nat /\ n \in 1..n /\ s[n] \in I!Block /\ s[n].kind = "unit" /\ n \in UnitsOfWork(s)
  <2>1. n \in Nat /\ n \in 1..n /\ s[n] \in I!Block
    BY <1>1
  <2> QED BY <1>1, <2>1 DEF I!Block, UnitsOfWork, I!Places
<1>5. UnitsOfWork(s) = {n}
  BY <1>2, <1>4
<1>6. (s[n].rollback_only <=> e.failed) /\ e.open /\ e.conn \in Connections
  BY <1>1, <1>4, <1>5 DEF StackOK
<1>7. I!Closed \in I!Session /\ I!Closed.open = FALSE /\ I!Closed.conn = Null
  BY DEF I!Closed, I!Session
<1>8. StackOK(rest, I!Closed)
  BY <1>2, <1>7 DEF StackOK
<1>9. stack' \in [Tasks -> Seq(I!Block)] /\ \A u \in Tasks : StackOK(stack'[u], session'[u])
  <2> HIDE DEF rest
  <2> QED BY <1>2, <1>3, <1>7, <1>8, StacksKept
<1> HIDE DEF rest, n
<1>10. I!TypeOK'
  <2>1. table' \in [Rows -> Tenants \cup {Null}]
    BY <1>1, <1>3 DEF I!Committed, I!Session
  <2>2. raising' \in [Tasks -> BOOLEAN]
    <3> HIDE DEF attempt, commit
    <3>1. (rest # <<>> /\ (raising[t] \/ (attempt /\ ~commit))) \in BOOLEAN
      OBVIOUS
    <3> QED BY <1>1, <1>3, <3>1
  <2>3. row_policies' \in BOOLEAN /\ variable' \in [Connections -> Tenants \cup {Null}]
    BY <1>1, <1>3 DEF IsolationInv, I!TypeOK
  <2>4. session' \in [Tasks -> I!Session]
    BY <1>1, <1>3, <1>7
  <2> QED BY <2>1, <2>2, <2>3, <2>4, <1>9 DEF I!TypeOK
<1>11. ConnectionsOK'
  <2>1. \A u \in Tasks : session'[u] = IF u = t THEN I!Closed ELSE session[u]
    BY <1>1, <1>3
  <2>2. \A c \in Connections : variable'[c] = IF c = e.conn THEN Null ELSE variable[c]
    BY <1>1, <1>3
  <2>3. \A u \in Tasks : session'[u].open => u # t /\ session'[u] = session[u]
    BY <2>1, <1>7
  <2>4. \A u \in Tasks : session'[u].open => session[u].conn # e.conn /\ session[u].conn \in Connections
    BY <2>3, <1>6 DEF IsolationInv, ConnectionsOK, StackOK
  <2>5. ASSUME NEW c \in Connections, \A u \in Tasks : session'[u].open => session'[u].conn # c,
               c # e.conn
        PROVE  variable[c] = Null
    <3>1. \A u \in Tasks : session[u].open => session[u].conn # c
      BY <2>1, <2>5
    <3> QED BY <3>1 DEF IsolationInv, ConnectionsOK
  <2> HIDE DEF e
  <2> QED BY <2>2, <2>3, <2>4, <2>5 DEF IsolationInv, ConnectionsOK
<1>12. LastOK'
  <2>1. ASSUME row_policies, commit PROVE {e.draft[r] : r \in Rows} \ {Null} \subseteq {e.tenant}
    <3>1. variable[e.conn] = e.tenant
      BY <1>6, <2>1 DEF IsolationInv, ConnectionsOK
    <3>2. \A r \in Rows : e.draft[r] \in {Null, variable[e.conn]}
      BY <2>1 DEF I!FlushRefused
    <3> QED BY <3>1, <3>2
  <2>2. last'.how = "ended" /\ last'.committed = commit /\ last'.kept = e.tenant
        /\ last'.of = {e.draft[r] : r \in Rows} \ {Null}
        /\ last'.failed = (e.failed \/ raising[t] \/ (attempt /\ I!FlushRefused(t)))
    BY <1>3
  <2>3. commit <=> ~(e.failed \/ raising[t] \/ (attempt /\ I!FlushRefused(t)))
    BY <1>6
  <2> HIDE DEF commit, attempt, e
  <2>4. I!ScopedToTenant' /\ I!KeptInSession'
    BY <2>1, <2>2 DEF I!ScopedToTenant, I!KeptInSession
  <2>5. I!WholeUnits'
    BY <2>2, <2>3 DEF I!WholeUnits
  <2> QED BY <2>4, <2>5 DEF LastOK
<1> QED BY <1>9, <1>10, <1>11, <1>12 DEF IsolationInv

LEMMA LeavesStep ==
  ASSUME IsolationInv, UNCHANGED row_policies, NEW t \in Tasks, I!Leaves(t)
  PROVE  IsolationInv'
<1> DEFINE s == stack[t]
           e == session[t]
           n == Len(s)
           rest == SubSeq(s, 1, n - 1)
<1>1. s \in Seq(I!Block) /\ e \in I!Session /\ StackOK(s, e) /\ raising \in [Tasks -> BOOLEAN]
  BY DEF IsolationInv, I!TypeOK
<1>2. n > 0
  BY DEF I!Leaves
<1>3. rest \in Seq(I!Block)
  BY <1>1, <1>2, Popped
<1>4. CASE s[n].kind = "context"
  <2>1. stack' = [stack EXCEPT ![t] = rest] /\ last' = I!Nothing
        /\ raising' = [raising EXCEPT ![t] = rest # <<>> /\ @]
        /\ UNCHANGED <<table, variable, session>>
    BY <1>4 DEF I!Leaves
  <2>2. StackOK(rest, e)
    <3> HIDE DEF e
    <3> QED BY <1>1, <1>2, <1>4, LeavesInner
  <2> HIDE DEF rest, n
  <2>3. raising' \in [Tasks -> BOOLEAN]
    BY <1>1, <2>1
  <2> QED BY <1>3, <2>1, <2>2, <2>3, BlocksOnly
<1>5. CASE s[n].kind # "context" /\ I!Places(rest, "unit") # {}
  <2> DEFINE f == [e EXCEPT !.failed = @ \/ raising[t]]
             r == IF raising[t] THEN I!mark_rollback_only(rest) ELSE rest
  <2>1. /\ stack' = [stack EXCEPT ![t] = r] /\ session' = [session EXCEPT ![t] = f]
        /\ UNCHANGED <<table, variable, raising>> /\ last' = I!Nothing
    BY <1>5 DEF I!Leaves, I!LeavesJoinedUnit
  <2>2. f \in I!Session /\ f.open = e.open /\ f.conn = e.conn /\ f.tenant = e.tenant
        /\ (~raising[t] => f = e) /\ (raising[t] => f = [e EXCEPT !.failed = TRUE])
    BY <1>1 DEF I!Session
  <2>3. StackOK(rest, e) /\ e.open
    <3>1. StackOK(rest, e)
      <4> HIDE DEF e
      <4> QED BY <1>1, <1>2, <1>5, LeavesInner
    <3> QED BY <3>1, <1>5 DEF StackOK, UnitsOfWork
  <2> HIDE DEF rest, e
  <2>4. r \in Seq(I!Block) /\ StackOK(r, f)
    BY <1>1, <1>3, <2>2, <2>3, Marks
  <2> HIDE DEF r, f
  <2>5. session' \in [Tasks -> I!Session] /\ ConnectionsOK'
    BY <2>1, <2>2, SessionKept DEF e
  <2>6. stack' \in [Tasks -> Seq(I!Block)] /\ \A u \in Tasks : StackOK(stack'[u], session'[u])
    BY <2>1, <2>2, <2>4, StacksKept
  <2>7. LastOK'
    BY <2>1 DEF LastOK, I!ScopedToTenant, I!KeptInSession, I!WholeUnits, I!Nothing
  <2> QED BY <2>1, <2>5, <2>6, <2>7 DEF IsolationInv, I!TypeOK
<1>6. CASE s[n].kind # "context" /\ I!Places(rest, "unit") = {}
  <2>1. I!EndsUnit(t, rest, s[n].rollback_only)
    BY <1>6 DEF I!Leaves
  <2> QED BY <1>2, <1>6, <2>1, EndsUnitStep
<1> QED BY <1>4, <1>5, <1>6

LEMMA InitHolds ==
  ASSUME Owner \in [Rows -> Tenants \cup {Null}], I!Init
  PROVE  IsolationInv
<1>1. I!Closed \in I!Session /\ I!Closed.open = FALSE /\ I!Closed.conn = Null
  BY DEF I!Closed, I!Session
<1>2. UnitsOfWork(<<>>) = {}
  BY DEF UnitsOfWork, I!Places
<1>3. I!TypeOK
  BY <1>1 DEF I!Init, I!TypeOK
<1>4. \A t \in Tasks : StackOK(stack[t], session[t])
  BY <1>1, <1>2 DEF I!Init, StackOK
<1>5. ConnectionsOK
  BY <1>1 DEF I!Init, ConnectionsOK
<1>6. LastOK
  BY DEF I!Init, I!Nothing, LastOK, I!ScopedToTenant, I!KeptInSession, I!WholeUnits
<1> QED BY <1>3, <1>4, <1>5, <1>6 DEF IsolationInv

LEMMA DeathStep ==
  ASSUME IsolationInv, UNCHANGED row_policies, I!ProcessDies
  PROVE  IsolationInv'
<1>1. I!Closed \in I!Session /\ I!Closed.open = FALSE /\ I!Closed.conn = Null
  BY DEF I!Closed, I!Session
<1>2. UnitsOfWork(<<>>) = {}
  BY DEF UnitsOfWork, I!Places
<1>3. I!TypeOK'
  BY <1>1 DEF IsolationInv, I!TypeOK, I!ProcessDies
<1>4. \A t \in Tasks : StackOK(stack'[t], session'[t])
  BY <1>1, <1>2 DEF I!ProcessDies, StackOK
<1>5. ConnectionsOK'
  BY <1>1 DEF I!ProcessDies, ConnectionsOK
<1>6. LastOK'
  BY DEF I!ProcessDies, I!Nothing, LastOK, I!ScopedToTenant, I!KeptInSession, I!WholeUnits
<1> QED BY <1>3, <1>4, <1>5, <1>6 DEF IsolationInv

LEMMA NextStep ==
  ASSUME IsolationInv, [I!Next]_I!isolationVars
  PROVE  IsolationInv'
<1>0. UNCHANGED row_policies
  BY DEF I!Next, I!isolationVars
<1>1. CASE I!ProcessDies
  BY <1>0, <1>1, DeathStep
<1>2. ASSUME NEW t \in Tasks, I!Raises(t) \/ I!Catches(t) PROVE IsolationInv'
  <2>1. raising' \in [Tasks -> BOOLEAN] /\ last' = I!Nothing
        /\ UNCHANGED <<table, variable, stack, session>>
    BY <1>2 DEF I!Raises, I!Catches, I!Raise, IsolationInv, I!TypeOK
  <2> QED BY <1>0, <2>1, RaisesStep
<1>3. CASE UNCHANGED I!isolationVars
  <2>1. UNCHANGED <<row_policies, table, variable, stack, session, raising, last>>
    BY <1>3 DEF I!isolationVars
  <2> QED BY <2>1 DEF IsolationInv, I!TypeOK, ConnectionsOK, LastOK, I!ScopedToTenant, I!KeptInSession, I!WholeUnits
<1> QED BY <1>0, <1>1, <1>2, <1>3, BlocksStep, StatementsStep, LeavesStep DEF I!Next

-----------------------------------------------------------------------------
(* Theorems.                                                               *)

(* Inv is inductive.                                                        *)
THEOREM IsolationInvariant ==
  ASSUME Owner \in [Rows -> Tenants \cup {Null}]
  PROVE  I!Spec => []IsolationInv
<1>1. I!Init => IsolationInv
  BY InitHolds
<1>2. IsolationInv /\ [I!Next]_I!isolationVars => IsolationInv'
  BY NextStep
<1> QED BY <1>1, <1>2, PTL DEF I!Spec

(* The repository and execute_tenant_scoped, where its predicate restricts  *)
(* the statement, reach rows of their tenant only; with the row policies    *)
(* any statement of a session reaches and commits rows of the tenant    *)
(* its unit was opened for only (unit_of_work, DatabaseTenantFallback.apply, *)
(* _rls_policy).                                                             *)
THEOREM TenantRowsApart ==
  ASSUME Owner \in [Rows -> Tenants \cup {Null}]
  PROVE  I!Spec => [](I!ScopedToTenant /\ I!KeptInSession)
<1>1. IsolationInv => I!ScopedToTenant /\ I!KeptInSession
  BY DEF IsolationInv, LastOK
<1> QED BY <1>1, IsolationInvariant, PTL

(* A unit inside a unit for a tenant is for that tenant (UnitOfWork.__aenter__). *)
THEOREM NestedUnitsAgree ==
  ASSUME Owner \in [Rows -> Tenants \cup {Null}]
  PROVE  I!Spec => []I!UnitsAgree
<1>1. IsolationInv => I!UnitsAgree
  BY DEF IsolationInv, StackOK, I!UnitsAgree, UnitsOfWork, I!Places
<1> QED BY <1>1, IsolationInvariant, PTL

(* A session commits exactly when no unit in it was left by an exception and *)
(* its writes were accepted (UnitOfWork.__aexit__, mark_rollback_only).      *)
THEOREM UnitsAreWhole ==
  ASSUME Owner \in [Rows -> Tenants \cup {Null}]
  PROVE  I!Spec => []I!WholeUnits
<1>1. IsolationInv => I!WholeUnits
  BY DEF IsolationInv, LastOK
<1> QED BY <1>1, IsolationInvariant, PTL

(* Together, whatever contexts and units of work are nested, raise and are   *)
(* caught, on whatever connections they run.                                 *)
THEOREM TenantsAreKeptApart ==
  ASSUME Owner \in [Rows -> Tenants \cup {Null}]
  PROVE  I!Spec => []TenantsKeptApart
BY TenantRowsApart, NestedUnitsAgree, UnitsAreWhole, PTL DEF TenantsKeptApart, I!TenantsKeptApart

-----------------------------------------------------------------------------
(* Administration of access: templates, grants and the first administrator. *)

\* A template row: permissions of the registry, and some if it exists.
IsTemplate(row) ==
  /\ row = [scope |-> row.scope, name |-> row.name, version |-> row.version, permissions |-> row.permissions]
  /\ row.permissions \subseteq AdminPermissions
  /\ row # A!NoTemplate => row.permissions # {}

TemplatesFine ==
  /\ templates = [t \in A!TemplateIds |-> templates[t]]
  /\ \A t \in A!TemplateIds : IsTemplate(templates[t])

\* What a transaction that writes the template `id' has loaded and will write.
WritesTemplate(tx, id) ==
  /\ id \in A!TemplateIds
  /\ IsTemplate(tx.read) /\ IsTemplate(tx.row) /\ tx.row.permissions # {}
  /\ tx.read # A!NoTemplate => templates[id].permissions # {}

\* What each request knows.
Knows(r) ==
  /\ A!At(r, "template") => WritesTemplate(txs[r], txs[r].id)
  /\ A!At(r, "counted") => txs[r].user \in FirstAdmins
  /\ A!At(r, "bootstrapping") => txs[r].user \in FirstAdmins /\ WritesTemplate(txs[r], A!PlatformAdmin)

RequestsFine ==
  /\ txs = [r \in Administrators |-> txs[r]]
  /\ \A r \in Administrators : Knows(r)

\* The grant of a first administrator, and a rule of it in force.
Appointed(u) ==
  /\ <<u, A!PlatformAdmin>> \in grants
  /\ \E p \in AdminPermissions : <<<<u, A!PlatformAdmin>>, p>> \in policies

OnceFine ==
  /\ bootstrapped # {} => templates[A!PlatformAdmin].permissions # {} /\ \E u \in FirstAdmins : Appointed(u)
  /\ (\A u, v \in FirstAdmins : u = v) => \A q, r \in bootstrapped : q = r

AdminInv == TemplatesFine /\ RequestsFine /\ OnceFine

(* Templates stay in shape and keep some permission.                        *)
TemplatesKept ==
  TemplatesFine' /\ \A t \in A!TemplateIds : templates[t].permissions # {} => templates'[t].permissions # {}

LEMMA AdminInit == A!Init => AdminInv
<1> SUFFICES ASSUME A!Init PROVE AdminInv
  OBVIOUS
<1>1. IsTemplate(A!NoTemplate)
  BY DEF IsTemplate, A!NoTemplate
<1>2. TemplatesFine
  BY <1>1 DEF A!Init, TemplatesFine
<1>3. RequestsFine
  BY DEF A!Init, RequestsFine, Knows, A!At, A!Idle
<1>4. OnceFine
  BY DEF A!Init, OnceFine
<1> QED BY <1>2, <1>3, <1>4 DEF AdminInv

(* A row and what was written over it is a template with permissions.       *)
LEMMA WrittenTemplate ==
  ASSUME NEW from, NEW to, NEW committed,
         IsTemplate(from), IsTemplate(to), IsTemplate(committed), to.permissions # {},
         from # A!NoTemplate => committed.permissions # {}
  PROVE  IsTemplate(A!Written(from, to, committed)) /\ A!Written(from, to, committed).permissions # {}
<1> DEFINE row == A!Written(from, to, committed)
<1>1. DOMAIN committed = {"scope", "name", "version", "permissions"}
  BY DEF IsTemplate
<1>2. /\ row = [scope |-> row.scope, name |-> row.name, version |-> row.version, permissions |-> row.permissions]
      /\ row.permissions = IF to.permissions = from.permissions THEN committed.permissions ELSE to.permissions
  BY <1>1 DEF A!Written
<1>3. from.permissions = {} => from = A!NoTemplate
  BY DEF IsTemplate
<1>4. from = A!NoTemplate => from.permissions = {}
  BY DEF A!NoTemplate
<1>5. row.permissions \subseteq AdminPermissions /\ row.permissions # {}
  BY <1>2, <1>3, <1>4 DEF IsTemplate
<1> QED BY <1>2, <1>5 DEF IsTemplate

LEMMA TemplatesStep ==
  ASSUME AdminInv, [A!Next]_A!adminVars
  PROVE  TemplatesKept
<1> USE DEF AdminInv, TemplatesFine
<1>1. ASSUME UNCHANGED templates PROVE TemplatesKept
  BY <1>1 DEF TemplatesKept
<1>2. ASSUME NEW id \in A!TemplateIds, NEW row, IsTemplate(row), row.permissions # {},
             templates' = [templates EXCEPT ![id] = row]
      PROVE  TemplatesKept
  BY <1>2 DEF TemplatesKept, IsTemplate, A!NoTemplate
<1>3. ASSUME NEW r \in Administrators, A!TemplateCommits(r) PROVE TemplatesKept
  <2>1. WritesTemplate(txs[r], txs[r].id)
    BY <1>3 DEF A!TemplateCommits, RequestsFine, Knows
  <2> DEFINE row == A!Written(txs[r].read, txs[r].row, templates[txs[r].id])
  <2>2. IsTemplate(row) /\ row.permissions # {}
    BY <2>1, WrittenTemplate DEF WritesTemplate
  <2>3. templates' = [templates EXCEPT ![txs[r].id] = row]
    BY <1>3 DEF A!TemplateCommits
  <2> QED BY <1>2, <2>1, <2>2, <2>3 DEF WritesTemplate
<1>4. ASSUME NEW r \in Administrators, A!BootstrapCommits(r) PROVE TemplatesKept
  <2>1. WritesTemplate(txs[r], A!PlatformAdmin)
    BY <1>4 DEF A!BootstrapCommits, RequestsFine, Knows
  <2>2. CASE txs[r].read = A!NoTemplate
    BY <1>2, <1>4, <2>1, <2>2 DEF A!BootstrapCommits, WritesTemplate
  <2>3. CASE txs[r].read # A!NoTemplate
    BY <1>1, <1>4, <2>3 DEF A!BootstrapCommits
  <2> QED BY <2>2, <2>3
<1>5. CASE UNCHANGED A!adminVars
  BY <1>1, <1>5 DEF A!adminVars
<1>6. ASSUME NEW grant \in grants, A!Projects(grant) PROVE TemplatesKept
  BY <1>1, <1>6 DEF A!Projects
<1>7. ASSUME NEW r \in Administrators, A!RequestStep(r), ~A!TemplateCommits(r), ~A!BootstrapCommits(r)
      PROVE  UNCHANGED templates
  BY <1>7 DEF A!RequestStep, A!create_template, A!update_template, A!grant_platform_admin, A!GrantExists,
     A!GrantInserts, A!GrantCommits, A!BootstrapCounts, A!BootstrapReadsTemplate, A!Fails, A!UnchangedRows
<1> QED BY <1>1, <1>3, <1>4, <1>5, <1>6, <1>7 DEF A!Next

(* What a request knows stays true while the others move.                   *)
LEMMA StillKnows ==
  ASSUME NEW r, Knows(r), txs'[r] = txs[r],
         TemplatesKept
  PROVE  Knows(r)'
BY DEF Knows, WritesTemplate, A!At, TemplatesKept

LEMMA KnowsStep ==
  ASSUME AdminInv, TemplatesKept, NEW r \in Administrators, A!RequestStep(r)
  PROVE  /\ txs' = [txs EXCEPT ![r] = txs'[r]]
         /\ Knows(r)'
<1> USE DEF AdminInv, RequestsFine
<1>0. \A tx : A!Notes(r, tx) => txs' = [txs EXCEPT ![r] = txs'[r]] /\ txs'[r] = tx
  BY DEF A!Notes
<1>1. A!Notes(r, A!Idle) => Knows(r)'
  BY <1>0 DEF Knows, A!At, A!Idle
<1>2. CASE A!create_template(r)
  <2>1. PICK t \in Created, name \in Names, version \in 1..AccessVersions, permissions \in SUBSET AdminPermissions :
          LET row == [scope |-> "platform", name |-> name, version |-> version, permissions |-> permissions] IN
          /\ A!_validate_permissions(permissions)
          /\ A!Notes(r, [at |-> "template", id |-> t, read |-> A!NoTemplate, row |-> row])
    BY <1>2 DEF A!create_template
  <2> DEFINE row == [scope |-> "platform", name |-> name, version |-> version, permissions |-> permissions]
  <2>2. IsTemplate(A!NoTemplate)
    BY DEF IsTemplate, A!NoTemplate
  <2>3. IsTemplate(row) /\ row.permissions # {}
    BY <2>1 DEF IsTemplate, A!_validate_permissions
  <2>4. txs'[r] = [at |-> "template", id |-> t, read |-> A!NoTemplate, row |-> row]
    BY <1>0, <2>1
  <2>5. t \in A!TemplateIds
    BY DEF A!TemplateIds
  <2> HIDE DEF row
  <2>6. Knows(r)'
    BY <2>2, <2>3, <2>4, <2>5 DEF Knows, WritesTemplate, A!At
  <2> QED BY <1>0, <2>1, <2>6
<1>3. CASE A!update_template(r)
  <2>1. PICK t \in A!TemplateIds, name \in Names \cup {Null}, permissions \in SUBSET AdminPermissions \cup {Null} :
          LET named == [templates[t] EXCEPT !.name = IF name = Null THEN @ ELSE name]
              row == IF permissions = Null THEN named
                     ELSE [named EXCEPT !.permissions = permissions, !.version = @ + 1]
          IN  /\ templates[t] # A!NoTemplate
              /\ permissions # Null => A!_validate_permissions(permissions)
              /\ A!Notes(r, [at |-> "template", id |-> t, read |-> templates[t], row |-> row])
    BY <1>3 DEF A!update_template
  <2> DEFINE named == [templates[t] EXCEPT !.name = IF name = Null THEN @ ELSE name]
             row == IF permissions = Null THEN named
                    ELSE [named EXCEPT !.permissions = permissions, !.version = @ + 1]
  <2>2. IsTemplate(templates[t]) /\ templates[t].permissions # {}
    BY <2>1 DEF TemplatesFine, IsTemplate
  <2>3. /\ named.permissions = templates[t].permissions
        /\ named = [scope |-> named.scope, name |-> named.name, version |-> named.version, permissions |-> named.permissions]
    BY <2>2 DEF IsTemplate
  <2>4. IsTemplate(row) /\ row.permissions # {}
    <3>1. CASE permissions = Null
      BY <2>2, <2>3, <3>1 DEF IsTemplate
    <3>2. CASE permissions # Null
      <4> HIDE DEF named
      <4>1. /\ row.permissions = permissions
            /\ row = [scope |-> row.scope, name |-> row.name, version |-> row.version, permissions |-> row.permissions]
        BY <2>3, <3>2
      <4> QED BY <2>1, <3>2, <4>1 DEF IsTemplate, A!_validate_permissions
    <3> QED BY <3>1, <3>2
  <2>5. txs'[r] = [at |-> "template", id |-> t, read |-> templates[t], row |-> row]
    BY <1>0, <2>1
  <2> HIDE DEF row, named
  <2>6. templates'[t].permissions # {}
    BY <2>2 DEF TemplatesKept
  <2>7. Knows(r)'
    BY <2>2, <2>4, <2>5, <2>6 DEF Knows, WritesTemplate, A!At
  <2> QED BY <1>0, <2>1, <2>7
<1>4. CASE A!grant_platform_admin(r)
  BY <1>0, <1>4 DEF A!grant_platform_admin, Knows, A!At
<1>5. CASE A!GrantInserts(r)
  BY <1>0, <1>5 DEF A!GrantInserts, Knows, A!At
<1>6. CASE \E u \in FirstAdmins : A!BootstrapCounts(r, u)
  BY <1>0, <1>6 DEF A!BootstrapCounts, Knows, A!At
<1>7. CASE A!BootstrapReadsTemplate(r)
  <2> DEFINE old == templates[A!PlatformAdmin]
             row == IF old # A!NoTemplate THEN old
                    ELSE [scope |-> "platform", name |-> A!PlatformAdmin, version |-> 1, permissions |-> AdminPermissions]
  <2>1. /\ txs[r].user \in FirstAdmins /\ A!_validate_permissions(row.permissions)
        /\ A!Notes(r, [at |-> "bootstrapping", user |-> txs[r].user, read |-> old, row |-> row])
    BY <1>7 DEF A!BootstrapReadsTemplate, Knows
  <2>2. A!PlatformAdmin \in A!TemplateIds
    BY DEF A!TemplateIds
  <2>3. IsTemplate(old)
    BY <2>2 DEF TemplatesFine
  <2>4. IsTemplate(row) /\ row.permissions # {}
    BY <2>1, <2>3 DEF IsTemplate, A!_validate_permissions
  <2>5. old # A!NoTemplate => templates'[A!PlatformAdmin].permissions # {}
    BY <2>2, <2>3 DEF TemplatesKept, IsTemplate
  <2>6. txs'[r] = [at |-> "bootstrapping", user |-> txs[r].user, read |-> old, row |-> row]
    BY <1>0, <2>1
  <2> HIDE DEF row, old
  <2>7. Knows(r)'
    BY <2>1, <2>2, <2>3, <2>4, <2>5, <2>6 DEF Knows, WritesTemplate, A!At
  <2> QED BY <1>0, <2>1, <2>7
<1>8. CASE A!Notes(r, A!Idle)
  BY <1>0, <1>1, <1>8
<1> QED
  BY <1>2, <1>3, <1>4, <1>5, <1>6, <1>7, <1>8
  DEF A!RequestStep, A!TemplateCommits, A!GrantExists, A!GrantCommits, A!BootstrapCommits, A!Fails

LEMMA RequestsStep ==
  ASSUME AdminInv, [A!Next]_A!adminVars, TemplatesKept
  PROVE  RequestsFine'
<1>1. CASE UNCHANGED txs
  BY <1>1, StillKnows DEF AdminInv, RequestsFine
<1>2. ASSUME NEW r \in Administrators, A!RequestStep(r) PROVE RequestsFine'
  <2>1. txs' = [txs EXCEPT ![r] = txs'[r]] /\ Knows(r)'
    BY <1>2, KnowsStep
  <2>2. txs' = [q \in Administrators |-> txs'[q]] /\ \A q \in Administrators \ {r} : txs'[q] = txs[q]
    BY <2>1 DEF AdminInv, RequestsFine
  <2>3. \A q \in Administrators \ {r} : Knows(q)'
    BY <2>2, StillKnows DEF AdminInv, RequestsFine
  <2> QED BY <2>1, <2>2, <2>3 DEF RequestsFine
<1>3. ASSUME NEW grant \in grants, A!Projects(grant) PROVE UNCHANGED txs
  BY <1>3 DEF A!Projects
<1> QED BY <1>1, <1>2, <1>3 DEF A!Next, A!adminVars

LEMMA OnceStep ==
  ASSUME AdminInv, [A!Next]_A!adminVars, TemplatesKept
  PROVE  OnceFine'
<1> USE DEF AdminInv
<1>0. A!PlatformAdmin \in A!TemplateIds
  BY DEF A!TemplateIds
<1>1. ASSUME UNCHANGED bootstrapped,
             \A u \in FirstAdmins : Appointed(u) /\ templates[A!PlatformAdmin].permissions # {} => Appointed(u)'
      PROVE  OnceFine'
  BY <1>0, <1>1 DEF OnceFine, TemplatesKept
<1>2. ASSUME UNCHANGED bootstrapped, grants \subseteq grants', policies \subseteq policies' PROVE OnceFine'
  BY <1>1, <1>2 DEF Appointed
<1>3. ASSUME NEW r \in Administrators, A!BootstrapCommits(r) PROVE OnceFine'
  <2> DEFINE row == txs[r].row
  <2>0. PICK u : u = txs[r].user
    OBVIOUS
  <2>1. u \in FirstAdmins /\ WritesTemplate(txs[r], A!PlatformAdmin)
    BY <1>3, <2>0 DEF A!BootstrapCommits, RequestsFine, Knows
  <2>2. /\ <<u, A!PlatformAdmin>> \notin grants
        /\ templates' = IF txs[r].read = A!NoTemplate THEN [templates EXCEPT ![A!PlatformAdmin] = row] ELSE templates
        /\ grants' = grants \cup {<<u, A!PlatformAdmin>>}
        /\ policies' = policies \cup A!Projected(<<u, A!PlatformAdmin>>, row)
        /\ bootstrapped' = bootstrapped \cup {r}
    BY <1>3, <2>0 DEF A!BootstrapCommits, A!BootstrapInserts
  <2>3. PICK p \in AdminPermissions : p \in row.permissions
    BY <2>1 DEF WritesTemplate, IsTemplate
  <2>4. Appointed(u)'
    <3>1. <<<<u, A!PlatformAdmin>>, p>> \in A!Projected(<<u, A!PlatformAdmin>>, row)
      BY <2>3 DEF A!Projected
    <3> QED BY <2>2, <3>1 DEF Appointed
  <2>5. templates'[A!PlatformAdmin].permissions # {}
    BY <2>1, <2>2 DEF WritesTemplate, TemplatesFine
  <2>6. ASSUME \A v, w \in FirstAdmins : v = w PROVE bootstrapped = {}
    BY <2>1, <2>2, <2>6 DEF OnceFine, Appointed
  <2> QED BY <2>1, <2>2, <2>4, <2>5, <2>6 DEF OnceFine
<1>4. ASSUME NEW grant \in grants, A!Projects(grant) PROVE OnceFine'
  <2>1. /\ policies' = {policy \in policies : policy[1] # grant} \cup A!Projected(grant, templates[grant[2]])
        /\ UNCHANGED <<grants, bootstrapped>>
    BY <1>4 DEF A!Projects
  <2>2. ASSUME NEW u \in FirstAdmins, Appointed(u), templates[A!PlatformAdmin].permissions # {}
        PROVE  Appointed(u)'
    <3>1. CASE grant = <<u, A!PlatformAdmin>>
      <4>1. PICK p \in AdminPermissions : p \in templates[A!PlatformAdmin].permissions
        BY <1>0, <2>2 DEF TemplatesFine, IsTemplate
      <4> QED BY <2>1, <2>2, <3>1, <4>1 DEF Appointed, A!Projected
    <3>2. CASE grant # <<u, A!PlatformAdmin>>
      BY <2>1, <2>2, <3>2 DEF Appointed
    <3> QED BY <3>1, <3>2
  <2> QED BY <1>1, <2>1, <2>2
<1>5. ASSUME NEW r \in Administrators, A!RequestStep(r), ~A!BootstrapCommits(r)
      PROVE  UNCHANGED bootstrapped /\ grants \subseteq grants' /\ policies \subseteq policies'
  BY <1>5 DEF A!RequestStep, A!create_template, A!update_template, A!TemplateCommits, A!grant_platform_admin,
     A!GrantExists, A!GrantInserts, A!GrantCommits, A!BootstrapCounts, A!BootstrapReadsTemplate, A!Fails, A!UnchangedRows
<1>6. CASE UNCHANGED A!adminVars
  BY <1>2, <1>6 DEF A!adminVars
<1> QED BY <1>2, <1>3, <1>4, <1>5, <1>6 DEF A!Next

-----------------------------------------------------------------------------
(* AdminInv is inductive.                                                  *)
THEOREM AdminInvariant == A!Spec => []AdminInv
<1>1. AdminInv /\ [A!Next]_A!adminVars => AdminInv'
  BY TemplatesStep, RequestsStep, OnceStep DEF AdminInv, TemplatesKept
<1> QED BY <1>1, AdminInit, PTL DEF A!Spec

(* Runs of the bootstrap command that name one user make one administrator,  *)
(* who can act from then on (bootstrap_first_admin, project_grant), whatever *)
(* templates, grants and projections change in between.                     *)
THEOREM FirstAdministratorsHold == A!Spec => [](A!BootstrapOnce /\ A!FirstAdminCanAct)
<1>1. \A X : A!Cardinality(X) = Cardinality(X)
  BY DEF A!Cardinality, Cardinality
<1>2. AdminInv => A!FirstAdminCanAct
  BY DEF AdminInv, OnceFine, Appointed, A!FirstAdminCanAct
<1>3. ASSUME AdminInv, Cardinality(FirstAdmins) = 1 PROVE Cardinality(bootstrapped) <= 1
  <2>1. \A u, v \in FirstAdmins : u = v
    BY <1>3, FS_Singleton, FirstAdminsAssumption
  <2>2. bootstrapped = {} \/ \E r : bootstrapped = {r}
    BY <1>3, <2>1 DEF AdminInv, OnceFine
  <2>3. CASE bootstrapped = {}
    <3>1. Cardinality(bootstrapped) = 0
      BY <2>3, FS_EmptySet
    <3> QED BY <3>1
  <2>4. ASSUME NEW r, bootstrapped = {r} PROVE Cardinality(bootstrapped) <= 1
    <3>1. Cardinality(bootstrapped) = 1
      BY <2>4, FS_Singleton
    <3> QED BY <3>1
  <2> QED BY <2>2, <2>3, <2>4
<1>4. AdminInv => A!BootstrapOnce
  BY <1>1, <1>3 DEF A!BootstrapOnce
<1> QED BY <1>2, <1>4, AdminInvariant, PTL

-----------------------------------------------------------------------------
(* The access map of a frontend.                                            *)

Accepted == {e \in Trees : E!_normalize_expression(e)}

\* Rows of the tables.
Mapped == [scope : E!Scopes, expression : Accepted, status : E!Statuses, version : Nat \ {0}]
Revised == [expression : Accepted, status : E!Statuses, version : Nat \ {0}]
Mappings == Mapped \cup {E!NoMapping}

\* A key that is open has a permission that its expression names.
Permitted(read, answer) ==
  \A k \in DOMAIN answer.access : answer.access[k] =>
    /\ k \in Keys /\ read[k] \in Mapped
    /\ E!_expression_permission_pairs(read[k].expression) \cap answer.revision.permissions[read[k].scope] # {}

\* What each request has read, will write or answers.
CallFine(r) ==
  /\ E!Changing(r) => /\ calls[r].key \in Keys /\ calls[r].read \in Mappings /\ calls[r].row \in Mapped
                      /\ calls[r].read # E!NoMapping => mappings[calls[r].key] \in Mapped
                      /\ E!At(r, "create") <=> calls[r].read = E!NoMapping
  /\ E!At(r, "evaluate") => calls[r].read \in [Keys -> Mappings] /\ calls[r].tenant \in BOOLEAN
  /\ E!At(r, "answered") => Permitted(calls[r].read, calls[r].answer)

MapFine ==
  /\ mappings \in [Keys -> Mappings]
  /\ history \in [Keys -> Seq(Revised)]
  /\ calls = [r \in Administrators |-> calls[r]]
  /\ \A r \in Administrators : CallFine(r)

\* The registry knows what a row names.
Known(row) == E!_expression_permission_pairs(row.expression) \subseteq ScopePermissions[row.scope]

(* Where changes follow each other, a revision tells what a row was, which  *)
(* was validated.                                                           *)
Recorded(revs, k, row) ==
  /\ row.version \in 1..Len(revs[k]) /\ revs[k][row.version].expression = row.expression
  /\ Known(row)

\* An answer says what the revisions in its access_revision say.
Tells(revs, answer) ==
  LET told == answer.revision.mappings IN
  /\ answer = [revision |-> answer.revision, access |-> answer.access]
  /\ \A k \in DOMAIN told : k \in Keys /\ told[k].version \in 1..Len(revs[k])
  /\ \A k \in DOMAIN answer.access :
       /\ answer.access[k] \in BOOLEAN
       /\ answer.access[k] <=>
            /\ k \in DOMAIN told /\ told[k].status = "active"
            /\ E!_evaluate_expression(revs[k][told[k].version].expression, answer.revision.permissions[told[k].scope])

CallTells(r) ==
  /\ E!Changing(r) => /\ calls[r].read = mappings[calls[r].key]
                      /\ calls[r].row.version = calls[r].read.version + 1 /\ Known(calls[r].row)
  /\ E!At(r, "evaluate") => \A k \in Keys : calls[r].read[k] \in Mapped => Recorded(history, k, calls[r].read[k])
  /\ E!At(r, "answered") => /\ Tells(history, calls[r].answer)
                            /\ \A k \in Keys : calls[r].read[k] \in Mapped => Known(calls[r].read[k])

OneAtATime == \A q, r \in Administrators : E!Changing(q) /\ E!Changing(r) => q = r

MapTells ==
  /\ \A k \in Keys : mappings[k].version = Len(history[k])
  /\ \A k \in Keys : mappings[k] \in Mapped => Recorded(history, k, mappings[k])
  /\ OneAtATime
  /\ \A r \in Administrators : CallTells(r)
  /\ cached # Null => Tells(history, cached)

FrontInv == MapFine /\ (Serial => MapTells)

LEMMA FrontInit == E!Init => FrontInv
<1> SUFFICES ASSUME E!Init PROVE FrontInv
  OBVIOUS
<1>1. \A r \in Administrators : calls[r].at = "idle"
  BY DEF E!Init, E!Idle
<1>2. \A r \in Administrators : CallFine(r) /\ CallTells(r) /\ ~E!Changing(r)
  BY <1>1 DEF CallFine, CallTells, E!Changing, E!At
<1>3. history \in [Keys -> Seq(Revised)] /\ \A k \in Keys : Len(history[k]) = 0
  BY DEF E!Init
<1>4. E!NoMapping.version = 0 /\ E!NoMapping \notin Mapped
  BY DEF E!NoMapping, Mapped
<1> QED BY <1>2, <1>3, <1>4 DEF E!Init, FrontInv, MapFine, MapTells, OneAtATime, Mappings

(* An accepted expression is true only when a permission it names is        *)
(* permitted: among its true parts one has no true part, and no list is     *)
(* empty (_normalize_expression).                                           *)
LEMMA OpenNeedsPermission ==
  ASSUME NEW e \in Accepted, NEW permitted, E!_evaluate_expression(e, permitted)
  PROVE  E!_expression_permission_pairs(e) \cap permitted # {}
<1>1. PICK open \in SUBSET Trees : e \in open /\ E!Evaluates(open, permitted)
  BY DEF E!_evaluate_expression
<1>2. PICK accepted \in SUBSET Trees :
        e \in accepted /\ \A d \in accepted : E!Composed(d) => d.parts # {} /\ d.parts \subseteq accepted
  BY DEF Accepted, E!_normalize_expression
<1> DEFINE Reaches(d) == \A reached \in SUBSET Trees :
                           e \in reached /\ (\A c \in reached : c.parts \subseteq reached) => d \in reached
           some == {d \in open \cap accepted : Reaches(d)}
<1>3. PICK d \in some : d.parts \cap some = {}
  <2>1. e \in some /\ some \in SUBSET Trees
    BY <1>1, <1>2
  <2>2. some \in (SUBSET Trees) \ {{}}
    BY <2>1
  <2> HIDE DEF some
  <2> QED BY <2>2, TreesAssumption
<1>4. d \in Trees /\ d \in open /\ d \in accepted /\ Reaches(d)
  BY <1>1, <1>3
<1>5. ASSUME NEW c \in d.parts PROVE Reaches(c)
  BY <1>4
<1> HIDE DEF Reaches
<1>6. \A c \in d.parts : ~(c \in open /\ c \in accepted)
  BY <1>3, <1>5
<1>7. d.op = "permission" /\ d.pair \in permitted
  BY <1>1, <1>2, <1>4, <1>6 DEF E!Evaluates, E!Composed
<1>8. d.pair \in E!_expression_permission_pairs(e)
  BY <1>4, <1>7, Zenon DEF E!_expression_permission_pairs, Reaches
<1> QED BY <1>7, <1>8

(* What is read of the revisions stays when others are added.               *)
Grows(revs, next) ==
  \A k \in Keys :
    /\ Len(revs[k]) \in Nat /\ Len(next[k]) \in Nat /\ Len(revs[k]) <= Len(next[k])
    /\ \A i \in 1..Len(revs[k]) : next[k][i] = revs[k][i]

LEMMA StaysRecorded ==
  ASSUME NEW revs, NEW next, Grows(revs, next), NEW k \in Keys, NEW row, Recorded(revs, k, row)
  PROVE  Recorded(next, k, row)
BY DEF Grows, Recorded

LEMMA StaysTold ==
  ASSUME NEW revs, NEW next, Grows(revs, next), NEW answer, Tells(revs, answer)
  PROVE  Tells(next, answer)
<1> DEFINE told == answer.revision.mappings
<1>1. ASSUME NEW k \in DOMAIN told
      PROVE  k \in Keys /\ told[k].version \in 1..Len(next[k]) /\ next[k][told[k].version] = revs[k][told[k].version]
  BY <1>1 DEF Grows, Tells
<1> HIDE DEF told
<1>2. ASSUME NEW k \in DOMAIN answer.access
      PROVE /\ answer.access[k] \in BOOLEAN
            /\ answer.access[k] <=>
                 /\ k \in DOMAIN told /\ told[k].status = "active"
                 /\ E!_evaluate_expression(next[k][told[k].version].expression, answer.revision.permissions[told[k].scope])
  <2>1. CASE k \in DOMAIN told
    BY <1>1, <1>2, <2>1 DEF Tells, told
  <2>2. CASE k \notin DOMAIN told
    BY <1>2, <2>2 DEF Tells, told
  <2> QED BY <2>1, <2>2
<1> QED BY <1>1, <1>2 DEF Tells, told

LEMMA NoMappingApart == E!NoMapping \notin Mapped /\ E!NoMapping.version = 0
BY DEF E!NoMapping, Mapped

(* An answer opens what is permitted, and says what the revisions say.      *)
LEMMA AnswerFine ==
  ASSUME NEW call, NEW asked \in SUBSET Keys, NEW revs,
         call.read \in [Keys -> Mappings], call.tenant \in BOOLEAN
  PROVE  /\ Permitted(call.read, E!Answer(call, asked))
         /\ (\A k \in Keys : call.read[k] \in Mapped => Recorded(revs, k, call.read[k])) => Tells(revs, E!Answer(call, asked))
<1> DEFINE sets == E!_permission_sets(call.tenant)
           told == [k \in {k \in Keys : call.read[k] # E!NoMapping} |->
                      [scope |-> call.read[k].scope, status |-> call.read[k].status, version |-> call.read[k].version]]
           access == [k \in asked |-> call.read[k] # E!NoMapping /\ E!_evaluate_mapping(call.read[k], sets, call.tenant)]
           answer == E!Answer(call, asked)
<1>1. answer = [revision |-> [mappings |-> told, permissions |-> sets], access |-> access]
  BY DEF E!Answer, E!_frontend_access_revision
<1>2. \A k \in Keys : call.read[k] # E!NoMapping => call.read[k] \in Mapped
  BY DEF Mappings
<1>3. ASSUME NEW k \in Keys, call.read[k] # E!NoMapping,
             E!_evaluate_expression(call.read[k].expression, sets[call.read[k].scope])
      PROVE  /\ E!_expression_permission_pairs(call.read[k].expression) \cap sets[call.read[k].scope] # {}
             /\ call.read[k].scope = "tenant" => call.tenant
  <2>1. call.read[k].expression \in Accepted /\ call.read[k].scope \in E!Scopes
    BY <1>2, <1>3 DEF Mapped
  <2>2. E!_expression_permission_pairs(call.read[k].expression) \cap sets[call.read[k].scope] # {}
    BY <1>3, <2>1, OpenNeedsPermission
  <2>3. "tenant" \in E!Scopes
    BY DEF E!Scopes
  <2>4. ~call.tenant => sets["tenant"] = {}
    BY <2>3 DEF E!_permission_sets
  <2> QED BY <2>2, <2>4
<1>4. ASSUME NEW k \in asked
      PROVE /\ access[k] \in BOOLEAN
            /\ access[k] <=>
                 /\ call.read[k] # E!NoMapping /\ call.read[k].status = "active"
                 /\ E!_evaluate_expression(call.read[k].expression, sets[call.read[k].scope])
  <2>1. access[k] = (call.read[k] # E!NoMapping /\ E!_evaluate_mapping(call.read[k], sets, call.tenant))
    BY <1>4
  <2>2. k \in Keys
    BY <1>4
  <2> HIDE DEF access, sets
  <2>3. E!_evaluate_mapping(call.read[k], sets, call.tenant) <=>
          /\ call.read[k].status = "active"
          /\ call.read[k].scope = "tenant" => call.tenant
          /\ E!_evaluate_expression(call.read[k].expression, sets[call.read[k].scope])
    BY Zenon DEF E!_evaluate_mapping
  <2>4. /\ call.read[k] # E!NoMapping
        /\ E!_evaluate_expression(call.read[k].expression, sets[call.read[k].scope])
        => (call.read[k].scope = "tenant" => call.tenant)
    BY <1>3, <2>2, Zenon
  <2>5. access[k] \in BOOLEAN
    BY <2>1, Zenon
  <2>6. access[k] <=> call.read[k] # E!NoMapping /\ E!_evaluate_mapping(call.read[k], sets, call.tenant)
    BY <2>1, Zenon
  <2>7. call.read[k] # E!NoMapping /\ E!_evaluate_mapping(call.read[k], sets, call.tenant) <=>
          /\ call.read[k] # E!NoMapping /\ call.read[k].status = "active"
          /\ E!_evaluate_expression(call.read[k].expression, sets[call.read[k].scope])
    BY <2>3, <2>4
  <2> QED BY <2>5, <2>6, <2>7
<1> HIDE DEF sets, access
<1>5. Permitted(call.read, answer)
  <2>1. ASSUME NEW k \in asked, access[k]
        PROVE  /\ k \in Keys /\ call.read[k] \in Mapped
               /\ E!_expression_permission_pairs(call.read[k].expression) \cap sets[call.read[k].scope] # {}
    <3>1. call.read[k] # E!NoMapping /\ E!_evaluate_expression(call.read[k].expression, sets[call.read[k].scope])
      BY <1>4, <2>1
    <3> QED BY <1>2, <1>3, <3>1
  <2>2. DOMAIN access = asked
    BY DEF access
  <2> HIDE DEF told, answer
  <2>3. answer.access = access /\ answer.revision.permissions = sets
    BY <1>1
  <2> QED BY <2>1, <2>2, <2>3 DEF Permitted
<1>6. ASSUME \A k \in Keys : call.read[k] \in Mapped => Recorded(revs, k, call.read[k]) PROVE Tells(revs, answer)
  <2>1. ASSUME NEW k \in DOMAIN told
        PROVE  /\ k \in Keys /\ call.read[k] # E!NoMapping
               /\ told[k] = [scope |-> call.read[k].scope, status |-> call.read[k].status, version |-> call.read[k].version]
               /\ told[k].version \in 1..Len(revs[k])
               /\ revs[k][told[k].version].expression = call.read[k].expression
    BY <1>2, <1>6 DEF Recorded
  <2>2. ASSUME NEW k \in asked
        PROVE /\ access[k] \in BOOLEAN
              /\ access[k] <=>
                   /\ k \in DOMAIN told /\ told[k].status = "active"
                   /\ E!_evaluate_expression(revs[k][told[k].version].expression, sets[told[k].scope])
    <3>1. CASE k \in DOMAIN told
      <4>1. /\ told[k].scope = call.read[k].scope /\ told[k].status = call.read[k].status
            /\ call.read[k] # E!NoMapping
            /\ revs[k][told[k].version].expression = call.read[k].expression
        BY <2>1, <3>1
      <4> QED BY <1>4, <3>1, <4>1
    <3>2. CASE k \notin DOMAIN told
      BY <1>4, <3>2
    <3> QED BY <3>1, <3>2
  <2>3. DOMAIN access = asked
    BY DEF access
  <2> HIDE DEF told
  <2> QED BY <1>1, <2>1, <2>2, <2>3 DEF Tells
<1> QED BY <1>5, <1>6

(* What the frontend has put together of two answers with one revision.     *)
LEMMA UpdatedTells ==
  ASSUME NEW revs, NEW old, NEW new, Tells(revs, old), Tells(revs, new), old.revision = new.revision
  PROVE  Tells(revs, [old EXCEPT !.access = E!Updates(new.access, @)])
<1> DEFINE both == E!Updates(new.access, old.access)
<1>1. [old EXCEPT !.access = E!Updates(new.access, @)] = [revision |-> old.revision, access |-> both]
  BY DEF Tells
<1>2. /\ DOMAIN both = DOMAIN new.access \cup DOMAIN old.access
      /\ \A k \in DOMAIN both : both[k] = IF k \in DOMAIN new.access THEN new.access[k] ELSE old.access[k]
  BY DEF E!Updates
<1>3. \A k \in DOMAIN both : k \in DOMAIN new.access \/ k \in DOMAIN old.access
  BY <1>2
<1> HIDE DEF both
<1> QED BY <1>1, <1>2, <1>3 DEF Tells

(* One request moves and the mappings stay.                                 *)
LEMMA OneCallMoves ==
  ASSUME MapFine, UNCHANGED <<mappings, history>>,
         NEW r \in Administrators, calls' = [calls EXCEPT ![r] = calls'[r]], CallFine(r)'
  PROVE  MapFine'
<1>1. \A q \in Administrators \ {r} : calls'[q] = calls[q]
  BY DEF MapFine
<1>2. \A q \in Administrators \ {r} : CallFine(q)'
  BY <1>1 DEF MapFine, CallFine, E!Changing, E!At
<1>3. calls' = [q \in Administrators |-> calls'[q]]
  BY DEF MapFine
<1> QED BY <1>2, <1>3 DEF MapFine

LEMMA OneCallTells ==
  ASSUME MapFine, MapTells, UNCHANGED <<mappings, history>>, cached' # Null => Tells(history, cached'),
         NEW r \in Administrators, calls' = [calls EXCEPT ![r] = calls'[r]], CallTells(r)',
         E!Changing(r)' => \A q \in Administrators : ~E!Changing(q)
  PROVE  MapTells'
<1>1. \A q \in Administrators \ {r} : calls'[q] = calls[q]
  BY DEF MapFine
<1>2. \A q \in Administrators \ {r} : CallTells(q)' /\ (E!Changing(q)' <=> E!Changing(q))
  BY <1>1 DEF MapTells, CallTells, E!Changing, E!At
<1>3. OneAtATime'
  BY <1>2 DEF MapTells, OneAtATime
<1>4. \A q \in Administrators : CallTells(q)'
  BY <1>2
<1> QED BY <1>3, <1>4 DEF MapTells

LEMMA NormalizedAccepted ==
  ASSUME NEW e, E!_normalize_expression(e)
  PROVE  e \in Accepted
BY DEF Accepted, E!_normalize_expression

LEMMA MappedFields ==
  ASSUME NEW scope \in E!Scopes, NEW e \in Accepted, NEW status \in E!Statuses, NEW version \in Nat \ {0}
  PROVE  [scope |-> scope, expression |-> e, status |-> status, version |-> version] \in Mapped
BY DEF Mapped

(* What a request notes before it commits.                                  *)
LEMMA ChangeBegins ==
  ASSUME FrontInv, NEW r \in Administrators, NEW k \in Keys, E!create_mapping(r, k) \/ E!update_mapping(r, k)
  PROVE  /\ UNCHANGED <<mappings, history, cached>>
         /\ calls' = [calls EXCEPT ![r] = calls'[r]]
         /\ CallFine(r)' /\ (Serial /\ MapTells => CallTells(r)')
         /\ Serial => \A q \in Administrators : ~E!Changing(q)
<1> USE DEF FrontInv, MapFine
<1>0. /\ UNCHANGED <<mappings, history, cached>> /\ E!MayChange(r)
      /\ \A call : E!Notes(r, call) => calls' = [calls EXCEPT ![r] = calls'[r]] /\ calls'[r] = call
  BY DEF E!create_mapping, E!update_mapping, E!Notes
<1>1. ASSUME NEW place \in {"create", "update"}, NEW row \in Mapped,
             E!Notes(r, [at |-> place, key |-> k, read |-> mappings[k], row |-> row]),
             row.version = mappings[k].version + 1, place = "create" <=> mappings[k] = E!NoMapping,
             Serial /\ MapTells => Known(row)
      PROVE  CallFine(r)' /\ (Serial /\ MapTells => CallTells(r)')
  <2>1. calls'[r] = [at |-> place, key |-> k, read |-> mappings[k], row |-> row]
    BY <1>0, <1>1
  <2>2. mappings[k] \in Mappings /\ (mappings[k] # E!NoMapping => mappings[k] \in Mapped)
    BY DEF Mappings
  <2>3. CallFine(r)'
    BY <1>0, <1>1, <2>1, <2>2 DEF CallFine, E!Changing, E!At
  <2>4. Serial /\ MapTells => CallTells(r)'
    BY <1>0, <1>1, <2>1 DEF CallTells, E!Changing, E!At
  <2> QED BY <2>3, <2>4
<1>2. CASE E!create_mapping(r, k)
  <2>1. PICK scope \in E!Scopes, e \in Expressions :
          /\ E!validate_frontend_access_expression(e, scope)
          /\ E!Notes(r, [at |-> "create", key |-> k, read |-> E!NoMapping,
                         row |-> [scope |-> scope, expression |-> e, status |-> "active", version |-> 1]])
    BY <1>2 DEF E!create_mapping
  <2> DEFINE row == [scope |-> scope, expression |-> e, status |-> "active", version |-> 1]
  <2>2. e \in Accepted
    BY <2>1, NormalizedAccepted DEF E!validate_frontend_access_expression
  <2>3. row \in Mapped
    BY <2>2 DEF Mapped, E!Statuses
  <2>4. mappings[k] = E!NoMapping /\ row.version = E!NoMapping.version + 1
    BY <1>2 DEF E!create_mapping, E!NoMapping
  <2>6. Known(row)
    BY <2>1 DEF Known, E!validate_frontend_access_expression
  <2> HIDE DEF row
  <2>5. E!Notes(r, [at |-> "create", key |-> k, read |-> mappings[k], row |-> row])
    BY <2>1, <2>4 DEF row
  <2> QED BY <1>0, <1>1, <2>3, <2>4, <2>5, <2>6 DEF E!MayChange
<1>3. CASE E!update_mapping(r, k)
  <2>1. PICK scope \in E!Scopes \cup {Null}, e \in Expressions \cup {Null}, status \in E!Statuses \cup {Null} :
          LET row == E!Updated(mappings[k], scope, e, status) IN
          /\ (scope # Null \/ e # Null) => E!validate_frontend_access_expression(row.expression, row.scope)
          /\ E!Notes(r, [at |-> "update", key |-> k, read |-> mappings[k], row |-> row])
    BY <1>3 DEF E!update_mapping
  <2> DEFINE row == E!Updated(mappings[k], scope, e, status)
  <2>2. mappings[k] \in Mapped /\ mappings[k] # E!NoMapping
    BY <1>3 DEF E!update_mapping, Mappings
  <2>3. row = [scope |-> row.scope, expression |-> row.expression, status |-> row.status, version |-> mappings[k].version + 1]
    BY DEF E!Updated
  <2>4. row.scope \in E!Scopes /\ row.status \in E!Statuses
    BY <2>2 DEF E!Updated, E!Given, Mapped
  <2>5. row.expression \in Accepted
    <3>1. CASE scope # Null \/ e # Null
      BY <2>1, <3>1, NormalizedAccepted DEF E!validate_frontend_access_expression
    <3>2. CASE e = Null
      BY <2>2, <3>2 DEF E!Updated, E!Given, Mapped
    <3> QED BY <3>1, <3>2
  <2>6. mappings[k].version + 1 \in Nat \ {0}
    BY <2>2 DEF Mapped
  <2>9. Serial /\ MapTells => Known(row)
    <3>1. CASE scope # Null \/ e # Null
      BY <2>1, <3>1 DEF Known, E!validate_frontend_access_expression
    <3>2. CASE scope = Null /\ e = Null
      <4>1. row.scope = mappings[k].scope /\ row.expression = mappings[k].expression
        BY <3>2 DEF E!Updated, E!Given
      <4>2. MapTells => Known(mappings[k])
        BY <2>2 DEF MapTells, Recorded
      <4> HIDE DEF row
      <4> QED BY <4>1, <4>2 DEF Known
    <3> QED BY <3>1, <3>2
  <2> HIDE DEF row
  <2>7. row \in Mapped /\ row.version = mappings[k].version + 1
    BY <2>3, <2>4, <2>5, <2>6, MappedFields
  <2>8. E!Notes(r, [at |-> "update", key |-> k, read |-> mappings[k], row |-> row])
    BY <2>1 DEF row
  <2> QED BY <1>0, <1>1, <2>2, <2>7, <2>8, <2>9 DEF E!MayChange
<1> QED BY <1>2, <1>3

(* The requests that only read, fail or answer.                             *)
LEMMA OthersMove ==
  ASSUME FrontInv, NEW r \in Administrators,
         E!ChangeFails(r) \/ E!EvaluateReads(r) \/ E!EvaluateAnswers(r) \/ E!Receives(r)
  PROVE  /\ UNCHANGED <<mappings, history>>
         /\ calls' = [calls EXCEPT ![r] = calls'[r]]
         /\ CallFine(r)' /\ (Serial /\ MapTells => CallTells(r)')
         /\ ~E!Changing(r)'
         /\ Serial => (cached' # Null => Tells(history, cached'))
<1> USE DEF FrontInv, MapFine
<1>0. /\ UNCHANGED <<mappings, history>>
      /\ \A call : E!Notes(r, call) => calls' = [calls EXCEPT ![r] = calls'[r]] /\ calls'[r] = call
  BY DEF E!ChangeFails, E!EvaluateReads, E!EvaluateAnswers, E!Receives, E!Notes
<1>1. ASSUME E!Notes(r, E!Idle) PROVE CallFine(r)' /\ CallTells(r)' /\ ~E!Changing(r)'
  BY <1>0, <1>1 DEF CallFine, CallTells, E!Changing, E!At, E!Idle
<1>2. UNCHANGED cached => (Serial => (cached' # Null => Tells(history, cached')))
  BY DEF MapTells
<1>3. CASE E!ChangeFails(r)
  BY <1>0, <1>1, <1>2, <1>3 DEF E!ChangeFails
<1>4. CASE E!EvaluateReads(r)
  <2>1. PICK tenant \in BOOLEAN : E!Notes(r, [at |-> "evaluate", tenant |-> tenant, read |-> mappings])
    BY <1>4 DEF E!EvaluateReads
  <2>2. calls'[r] = [at |-> "evaluate", tenant |-> tenant, read |-> mappings]
    BY <1>0, <2>1
  <2>3. CallFine(r)' /\ ~E!Changing(r)'
    BY <2>2 DEF CallFine, E!Changing, E!At
  <2>4. MapTells => CallTells(r)'
    BY <1>0, <2>2 DEF MapTells, CallTells, E!Changing, E!At
  <2> QED BY <1>0, <1>2, <1>4, <2>1, <2>3, <2>4 DEF E!EvaluateReads
<1>5. CASE E!EvaluateAnswers(r)
  <2>1. PICK asked \in SUBSET Keys : E!Notes(r, [at |-> "answered", read |-> calls[r].read, answer |-> E!Answer(calls[r], asked)])
    BY <1>5 DEF E!EvaluateAnswers
  <2>2. calls'[r] = [at |-> "answered", read |-> calls[r].read, answer |-> E!Answer(calls[r], asked)]
    BY <1>0, <2>1
  <2>3. calls[r].read \in [Keys -> Mappings] /\ calls[r].tenant \in BOOLEAN
    BY <1>5 DEF E!EvaluateAnswers, CallFine
  <2>4. Permitted(calls[r].read, E!Answer(calls[r], asked))
    BY <2>3, AnswerFine
  <2>5. Serial /\ MapTells => Tells(history, E!Answer(calls[r], asked))
    BY <1>5, <2>3, AnswerFine DEF MapTells, CallTells, E!EvaluateAnswers
  <2>8. Serial /\ MapTells => \A k \in Keys : calls[r].read[k] \in Mapped => Known(calls[r].read[k])
    BY <1>5 DEF MapTells, CallTells, Recorded, E!EvaluateAnswers
  <2>6. CallFine(r)' /\ ~E!Changing(r)'
    BY <2>2, <2>4 DEF CallFine, E!Changing, E!At
  <2>7. Serial /\ MapTells => CallTells(r)'
    BY <1>0, <2>2, <2>5, <2>8 DEF CallTells, E!Changing, E!At
  <2> QED BY <1>0, <1>2, <1>5, <2>1, <2>6, <2>7 DEF E!EvaluateAnswers
<1>6. CASE E!Receives(r)
  <2>1. E!Notes(r, E!Idle)
        /\ cached' = IF cached # Null /\ cached.revision = calls[r].answer.revision
                       THEN [cached EXCEPT !.access = E!Updates(calls[r].answer.access, @)]
                       ELSE calls[r].answer
    BY <1>6 DEF E!Receives
  <2>2. Serial => Tells(history, calls[r].answer)
    BY <1>6 DEF E!Receives, MapTells, CallTells
  <2>3. Serial => (cached' # Null => Tells(history, cached'))
    BY <2>1, <2>2, UpdatedTells DEF MapTells
  <2> QED BY <1>0, <1>1, <2>1, <2>3
<1> QED BY <1>3, <1>4, <1>5, <1>6

(* The row a change writes is a mapping, and the row it meant when changes  *)
(* follow each other.                                                       *)
LEMMA WrittenMapping ==
  ASSUME NEW from \in Mappings, NEW to \in Mapped, NEW committed \in Mappings,
         from = E!NoMapping => committed = E!NoMapping, from # E!NoMapping => committed \in Mapped
  PROVE  /\ E!Written(from, to, committed) \in Mapped
         /\ from = committed => E!Written(from, to, committed) = to
<1> DEFINE Columns == {"scope", "expression", "status", "version"}
           row == E!Written(from, to, committed)
<1>1. DOMAIN committed = Columns
  BY DEF Mappings, Mapped, E!NoMapping
<1>2. row = [c \in Columns |-> IF to[c] = from[c] THEN committed[c] ELSE to[c]]
  BY <1>1 DEF E!Written
<1>3. to = [c \in Columns |-> to[c]]
  BY DEF Mapped
<1>4. ASSUME from = committed PROVE row = to
  BY <1>2, <1>3, <1>4
<1>5. CASE from = E!NoMapping
  BY <1>4, <1>5
<1>6. CASE from # E!NoMapping
  <2>1. /\ committed.scope \in E!Scopes /\ committed.expression \in Accepted
        /\ committed.status \in E!Statuses /\ committed.version \in Nat \ {0}
    BY <1>6 DEF Mapped
  <2>2. to.scope \in E!Scopes /\ to.expression \in Accepted /\ to.status \in E!Statuses /\ to.version \in Nat \ {0}
    BY DEF Mapped
  <2>3. row.scope \in E!Scopes /\ row.expression \in Accepted /\ row.status \in E!Statuses /\ row.version \in Nat \ {0}
    BY <1>2, <2>1, <2>2
  <2>4. row = [scope |-> row.scope, expression |-> row.expression, status |-> row.status, version |-> row.version]
    BY <1>2
  <2> HIDE DEF row
  <2>5. row \in Mapped
    BY <2>3, <2>4, MappedFields
  <2> QED BY <1>4, <2>5 DEF row
<1> QED BY <1>4, <1>5, <1>6

LEMMA HistoryGrows ==
  ASSUME MapFine, NEW k \in Keys, NEW revision \in Revised,
         history' = [history EXCEPT ![k] = Append(@, revision)]
  PROVE  /\ Grows(history, history')
         /\ history' \in [Keys -> Seq(Revised)]
         /\ Len(history'[k]) = Len(history[k]) + 1
         /\ history'[k][Len(history[k]) + 1] = revision
<1>1. history \in [Keys -> Seq(Revised)]
  BY DEF MapFine
<1>2. \A q \in Keys : history'[q] = IF q = k THEN Append(history[k], revision) ELSE history[q]
  BY <1>1
<1>3. \A q \in Keys : history[q] \in Seq(Revised) /\ Len(history[q]) \in Nat
  BY <1>1
<1>4. /\ Append(history[k], revision) \in Seq(Revised)
      /\ Len(Append(history[k], revision)) = Len(history[k]) + 1
      /\ Append(history[k], revision)[Len(history[k]) + 1] = revision
      /\ \A i \in 1..Len(history[k]) : Append(history[k], revision)[i] = history[k][i]
  BY <1>3
<1> QED BY <1>1, <1>2, <1>3, <1>4 DEF Grows

LEMMA CommitStep ==
  ASSUME FrontInv, NEW r \in Administrators, E!ChangeCommits(r)
  PROVE  FrontInv'
<1> USE DEF FrontInv
<1> DEFINE call == calls[r]
           k == call.key
           new == E!Written(call.read, call.row, mappings[k])
<1>1. /\ E!Changing(r) /\ ~E!Conflicts(r)
      /\ mappings' = [mappings EXCEPT ![k] = new]
      /\ history' = [history EXCEPT ![k] = Append(@, E!Revision(call.row))]
      /\ calls' = [calls EXCEPT ![r] = E!Idle]
      /\ UNCHANGED cached
  BY DEF E!ChangeCommits, E!Notes
<1>2. /\ k \in Keys /\ call.read \in Mappings /\ call.row \in Mapped /\ mappings[k] \in Mappings
      /\ call.read # E!NoMapping => mappings[k] \in Mapped
      /\ E!At(r, "create") <=> call.read = E!NoMapping
  BY <1>1 DEF MapFine, CallFine
<1>3. call.read = E!NoMapping => mappings[k] = E!NoMapping
  BY <1>1, <1>2 DEF E!Conflicts
<1>4. new \in Mapped /\ (call.read = mappings[k] => new = call.row)
  BY <1>2, <1>3, WrittenMapping
<1>5. E!Revision(call.row) \in Revised
  BY <1>2 DEF E!Revision, Mapped, Revised
<1>6. /\ Grows(history, history') /\ history' \in [Keys -> Seq(Revised)]
      /\ Len(history'[k]) = Len(history[k]) + 1
      /\ history'[k][Len(history[k]) + 1] = E!Revision(call.row)
  BY <1>1, <1>2, <1>5, HistoryGrows
<1>7. /\ mappings' \in [Keys -> Mappings] /\ mappings'[k] = new
      /\ \A j \in Keys \ {k} : mappings'[j] = mappings[j] /\ history'[j] = history[j]
  BY <1>1, <1>2, <1>4 DEF MapFine, Mappings
<1>8. /\ calls' = [q \in Administrators |-> calls'[q]] /\ calls'[r].at = "idle"
      /\ \A q \in Administrators \ {r} : calls'[q] = calls[q]
  BY <1>1 DEF MapFine, E!Idle
<1> HIDE DEF new
<1>9. \A j \in Keys : mappings[j] \in Mapped => mappings'[j] \in Mapped
  BY <1>4, <1>7
<1>10. ASSUME NEW q \in Administrators \ {r} PROVE CallFine(q)'
  <2>1. calls'[q] = calls[q] /\ CallFine(q)
    BY <1>8 DEF MapFine
  <2> QED BY <1>9, <2>1 DEF CallFine, E!Changing, E!At
<1>11. CallFine(r)' /\ CallTells(r)' /\ ~E!Changing(r)'
  BY <1>8 DEF CallFine, CallTells, E!Changing, E!At
<1>12. MapFine'
  BY <1>6, <1>7, <1>8, <1>10, <1>11 DEF MapFine
<1>13. ASSUME Serial PROVE MapTells'
  <2>1. MapTells
    BY <1>13
  <2>2. /\ call.read = mappings[k] /\ call.row.version = mappings[k].version + 1
        /\ mappings[k].version = Len(history[k])
    BY <1>1, <1>2, <2>1 DEF MapTells, CallTells
  <2>3. new = call.row
    BY <1>4, <2>2
  <2>4. Len(history[k]) \in Nat
    BY <1>2 DEF MapFine
  <2>5. \A j \in Keys : mappings'[j].version = Len(history'[j])
    BY <1>6, <1>7, <2>1, <2>2, <2>3 DEF MapTells
  <2>6. ASSUME NEW j \in Keys, mappings'[j] \in Mapped PROVE Recorded(history', j, mappings'[j])
    <3>1. CASE j = k
      <4>1. Known(mappings'[j])
        BY <1>1, <1>7, <2>1, <2>3, <3>1 DEF MapTells, CallTells
      <4>2. mappings'[j] = call.row /\ call.row.version = Len(history[j]) + 1
        BY <1>7, <2>2, <2>3, <3>1
      <4>3. /\ history'[j][Len(history[j]) + 1].expression = call.row.expression
            /\ Len(history[j]) + 1 \in 1..Len(history'[j])
        BY <1>6, <2>4, <3>1 DEF E!Revision
      <4> HIDE DEF call
      <4> QED BY <4>1, <4>2, <4>3 DEF Recorded
    <3>2. CASE j # k
      BY <1>6, <1>7, <2>1, <2>6, <3>2, StaysRecorded DEF MapTells
    <3> QED BY <3>1, <3>2
  <2>7. \A q \in Administrators : ~E!Changing(q)'
    BY <1>1, <1>8, <1>11, <2>1 DEF MapTells, OneAtATime, E!Changing
  <2>8. ASSUME NEW q \in Administrators \ {r} PROVE CallTells(q)'
    <3>1. calls'[q] = calls[q] /\ CallTells(q) /\ ~E!Changing(q)'
      BY <1>8, <2>1, <2>7 DEF MapTells
    <3>2. E!At(q, "evaluate")' => \A j \in Keys : calls'[q].read[j] \in Mapped => Recorded(history', j, calls'[q].read[j])
      BY <1>6, <3>1, StaysRecorded DEF CallTells, E!At
    <3>3. E!At(q, "answered")' => /\ Tells(history', calls'[q].answer)
                                  /\ \A j \in Keys : calls'[q].read[j] \in Mapped => Known(calls'[q].read[j])
      BY <1>6, <3>1, StaysTold DEF CallTells, E!At
    <3> QED BY <3>1, <3>2, <3>3 DEF CallTells
  <2>9. cached' # Null => Tells(history', cached')
    BY <1>1, <1>6, <2>1, StaysTold DEF MapTells
  <2> QED BY <1>11, <2>5, <2>6, <2>7, <2>8, <2>9 DEF MapTells, OneAtATime
<1> QED BY <1>12, <1>13

LEMMA FrontStep == FrontInv /\ [E!Next]_E!frontendVars => FrontInv'
<1> SUFFICES ASSUME FrontInv, [E!Next]_E!frontendVars PROVE FrontInv'
  OBVIOUS
<1>1. ASSUME NEW r \in Administrators, E!RequestStep(r) PROVE FrontInv'
  <2>1. ASSUME UNCHANGED <<mappings, history>>, calls' = [calls EXCEPT ![r] = calls'[r]],
               CallFine(r)', Serial /\ MapTells => CallTells(r)',
               Serial /\ MapTells => (cached' # Null => Tells(history, cached')),
               Serial /\ E!Changing(r)' => \A q \in Administrators : ~E!Changing(q)
        PROVE  FrontInv'
    BY <2>1, OneCallMoves, OneCallTells DEF FrontInv
  <2>2. ASSUME NEW k \in Keys, E!create_mapping(r, k) \/ E!update_mapping(r, k) PROVE FrontInv'
    <3>1. UNCHANGED cached /\ (MapTells => (cached # Null => Tells(history, cached)))
      BY <2>2, ChangeBegins DEF MapTells
    <3> QED BY <2>1, <2>2, <3>1, ChangeBegins
  <2>3. CASE E!ChangeFails(r) \/ E!EvaluateReads(r) \/ E!EvaluateAnswers(r) \/ E!Receives(r)
    BY <2>1, <2>3, OthersMove
  <2>4. CASE E!ChangeCommits(r)
    BY <2>4, CommitStep
  <2> QED BY <1>1, <2>2, <2>3, <2>4 DEF E!RequestStep
<1>2. ASSUME UNCHANGED <<mappings, history, calls, cached>> PROVE FrontInv'
  BY <1>2 DEF FrontInv, MapFine, CallFine, MapTells, CallTells, OneAtATime, E!Changing, E!At
<1> QED BY <1>1, <1>2 DEF E!Next, E!Projects, E!frontendVars

-----------------------------------------------------------------------------
(* FrontInv is inductive.                                                   *)
THEOREM FrontendInvariant == E!Spec => []FrontInv
BY FrontInit, FrontStep, PTL DEF E!Spec

(* A frontend may cache by access_revision where changes follow each other   *)
(* (_frontend_access_revision); an open key has a permission that its       *)
(* expression names (_evaluate_mapping), which names registered ones alone  *)
(* where changes follow each other (validate_frontend_access_expression).   *)
THEOREM AccessMapsHold == E!Spec => []((Serial => E!AccessRevisionTells) /\ E!OpenIsPermitted)
<1>1. FrontInv => E!OpenIsPermitted
  <2> SUFFICES ASSUME FrontInv, NEW r \in Administrators, E!At(r, "answered"),
                      NEW k \in DOMAIN calls[r].answer.access, calls[r].answer.access[k]
               PROVE  /\ E!_expression_permission_pairs(calls[r].read[k].expression)
                           \cap calls[r].answer.revision.permissions[calls[r].read[k].scope] # {}
                      /\ Serial => Known(calls[r].read[k])
    BY Zenon DEF E!OpenIsPermitted, Known
  <2>1. Permitted(calls[r].read, calls[r].answer)
    BY DEF FrontInv, MapFine, CallFine
  <2>2. Serial => CallTells(r)
    BY DEF FrontInv, MapTells
  <2> QED BY <2>1, <2>2 DEF Permitted, CallTells
<1>2. ASSUME MapTells PROVE E!AccessRevisionTells
  <2> SUFFICES ASSUME NEW r \in Administrators, E!At(r, "answered"), cached # Null,
                      cached.revision = calls[r].answer.revision,
                      NEW k \in DOMAIN cached.access \cap DOMAIN calls[r].answer.access
               PROVE  cached.access[k] = calls[r].answer.access[k]
    BY DEF E!AccessRevisionTells
  <2>1. Tells(history, cached) /\ Tells(history, calls[r].answer)
    BY <1>2 DEF MapTells, CallTells
  <2>2. /\ cached.access[k] \in BOOLEAN /\ calls[r].answer.access[k] \in BOOLEAN
        /\ cached.access[k] <=> calls[r].answer.access[k]
    BY <2>1 DEF Tells
  <2> QED BY <2>2
<1>3. FrontInv => (Serial => E!AccessRevisionTells)
  BY <1>2 DEF FrontInv
<1> QED BY <1>1, <1>3, FrontendInvariant, PTL

(* Both, of the two components together.                                    *)
THEOREM AccessIsAdministered == A!Spec /\ E!Spec => []AccessAdministered
BY FirstAdministratorsHold, AccessMapsHold, PTL DEF AccessAdministered
=============================================================================
