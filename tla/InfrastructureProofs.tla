------------------------- MODULE InfrastructureProofs -------------------------
(***************************************************************************)
(* What the platform rests on, for any number of clients, requests and     *)
(* processes, any ttl and any length of the run: one owner of a database   *)
(* lock with the newest token (DatabaseLock), a Redis key only its owner   *)
(* changes (RedisLock), cached decisions that do not outlive a revocation  *)
(* (PermissionCache), an audit log that is one chain and exports that hold *)
(* it whole (Audit), limiters that keep their rule (RateLimit).            *)
(***************************************************************************)
EXTENDS Infrastructure, Sequences, FiniteSetTheorems, WellFoundedInduction, TLAPS

(* The instance counts as this module does.                                  *)
LEMMA SameCardinality == \A X : A!Cardinality(X) = Cardinality(X)
BY DEF A!Cardinality, Cardinality

-----------------------------------------------------------------------------
(* Locks in the database.  MutualExclusion is not inductive: it rests on     *)
(* HandleInv, which ties every handle still believed live to the row, and on *)
(* ClockInv, which bounds the stale clock readings of calls under way.       *)

\* Every caller passes an owner_token of its own (the default is a uuid4).
DistinctOwners ==
  \A c, d \in Clients : OwnerToken[c] = OwnerToken[d] => c = d

\* A call under way decides on a clock reading of the past.
ClockInv == \A c \in Clients : at[c] <= now

\* A client acquires only without a handle and gives its handle up to release.
CallInv ==
  \A c \in Clients : pc[c] \in {"acquire", "insert", "update", "release"} => handle[c] = NoHandle

\* No lease without a row.
RowInv == ~RowExists => row.expires_at = 0

\* The row a client's unexpired handle speaks of is still that client's.
Backed(c) ==
  /\ RowExists
  /\ row.owner_token = OwnerToken[c]
  /\ row.fencing_token = handle[c].fencing_token
  /\ row.expires_at >= handle[c].expires_at

HandleInv == \A c \in Clients : handle[c].expires_at > now => Backed(c)

IInv == TypeOK /\ ClockInv /\ CallInv /\ RowInv /\ HandleInv

-----------------------------------------------------------------------------
LEMMA InitInv == Init => IInv
  BY DatabaseLockAssumption
     DEF Init, IInv, TypeOK, ClockInv, CallInv, RowInv, HandleInv, RowExists, NoHandle, Owners

\* A step that leaves the row alone and gives out no new lease.
Quiet(c, p, t, h) ==
  /\ UNCHANGED <<now, row>>
  /\ p \in {"idle", "acquire", "insert", "update", "release", "extend"}
  /\ t \in Nat /\ t <= now
  /\ h \in {handle[c], NoHandle}
  /\ p \in {"acquire", "insert", "update", "release"} => h = NoHandle
  /\ pc' = [pc EXCEPT ![c] = p]
  /\ at' = [at EXCEPT ![c] = t]
  /\ handle' = [handle EXCEPT ![c] = h]

LEMMA QuietStep ==
  ASSUME IInv, NEW c \in Clients, NEW p, NEW t, NEW h, Quiet(c, p, t, h)
  PROVE  IInv'
<1> USE DEF IInv, Quiet
<1>1. TypeOK'
  BY DEF TypeOK, NoHandle
<1>2. ClockInv'
  BY DEF ClockInv, TypeOK
<1>3. CallInv'
  BY DEF CallInv, TypeOK
<1>4. RowInv'
  BY DEF RowInv, RowExists
<1>5. HandleInv'
  <2> SUFFICES ASSUME NEW d \in Clients, handle'[d].expires_at > now'
               PROVE  Backed(d)'
    BY DEF HandleInv
  <2>1. handle'[d] = handle[d]
    BY DEF TypeOK, NoHandle
  <2> QED
    BY <2>1 DEF HandleInv, Backed, RowExists
<1> QED
  BY <1>1, <1>2, <1>3, <1>4, <1>5

\* A step that writes the row for client c, while no other client has a live handle.
Write(c, h) ==
  /\ \A d \in Clients : d # c => ~(handle[d].expires_at > now)
  /\ row' \in [owner_token : Owners, expires_at : Nat, fencing_token : Nat]
  /\ row'.fencing_token > 0
  /\ h \in [expires_at : Nat, fencing_token : Nat]
  /\ \/ h = NoHandle
     \/ /\ row'.owner_token = OwnerToken[c]
        /\ row'.fencing_token = h.fencing_token
        /\ row'.expires_at = h.expires_at
  /\ Return(c, h)

LEMMA WriteStep ==
  ASSUME IInv, NEW c \in Clients, NEW h, Write(c, h)
  PROVE  IInv'
<1> USE DEF IInv, Write
<1>1. TypeOK'
  BY DEF TypeOK, Return
<1>2. ClockInv'
  BY DEF ClockInv, TypeOK, Return
<1>3. CallInv'
  BY DEF CallInv, TypeOK, Return
<1>4. RowInv'
  BY DEF RowInv, RowExists
<1>5. HandleInv'
  <2> SUFFICES ASSUME NEW d \in Clients, handle'[d].expires_at > now'
               PROVE  Backed(d)'
    BY DEF HandleInv
  <2>1. d = c /\ handle'[d] = h
    BY DEF TypeOK, Return
  <2>2. h # NoHandle
    BY <2>1 DEF NoHandle, TypeOK, Return
  <2> QED
    BY <2>1, <2>2 DEF Backed, RowExists
<1> QED
  BY <1>1, <1>2, <1>3, <1>4, <1>5

\* A call that returns without a handle and without an update.
LEMMA GiveUpStep ==
  ASSUME IInv, NEW c \in Clients, Return(c, NoHandle), UNCHANGED row
  PROVE  IInv'
<1>1. Quiet(c, "idle", 0, NoHandle)
  BY DEF Quiet, Return, IInv, TypeOK
<1> QED
  BY <1>1, QuietStep

\* A call that goes on to its next statement.
LEMMA GoOnStep ==
  ASSUME IInv, NEW c \in Clients, NEW t \in Nat, t <= now,
         NEW p \in {"acquire", "insert", "update", "extend"},
         GoOn(c, p, t), p # "extend" => handle[c] = NoHandle
  PROVE  IInv'
<1>1. Quiet(c, p, t, handle[c])
  BY DEF Quiet, GoOn, IInv, TypeOK
<1> QED
  BY <1>1, QuietStep

\* Whoever takes an expired row takes it from nobody.
LEMMA ExpiredRowFree ==
  ASSUME IInv, NEW t \in Nat, t <= now, ~RowExists \/ row.expires_at <= t
  PROVE  \A d \in Clients : ~(handle[d].expires_at > now)
<1> SUFFICES ASSUME NEW d \in Clients, handle[d].expires_at > now
             PROVE  FALSE
  OBVIOUS
<1>1. Backed(d)
  BY DEF IInv, HandleInv
<1> QED
  BY <1>1 DEF Backed, IInv, TypeOK

\* Whoever owns the row is the only one who may hold a live handle.
LEMMA OwnerAlone ==
  ASSUME IInv, DistinctOwners, NEW c \in Clients, NEW t \in Nat, OwnedAt(c, t)
  PROVE  \A d \in Clients : d # c => ~(handle[d].expires_at > now)
  BY DEF IInv, HandleInv, Backed, OwnedAt, DistinctOwners

LEMMA StepInv ==
  ASSUME IInv, DistinctOwners, [Next]_vars
  PROVE  IInv'
<1> USE DatabaseLockAssumption
<1>0. TypeOK /\ ClockInv /\ CallInv /\ RowInv /\ HandleInv
  BY DEF IInv
<1>a. \A c \in Clients : at[c] \in Nat /\ at[c] <= now /\ now \in Nat /\ now <= now
  BY <1>0 DEF ClockInv, TypeOK
<1>1. CASE UNCHANGED vars
  BY <1>0, <1>1 DEF vars, IInv, TypeOK, ClockInv, CallInv, RowInv, HandleInv, Backed, RowExists
<1>2. CASE Tick
  <2>1. TypeOK' /\ ClockInv' /\ CallInv' /\ RowInv'
    BY <1>0, <1>2 DEF Tick, TypeOK, ClockInv, CallInv, RowInv, RowExists
  <2>2. HandleInv'
    BY <1>0, <1>2 DEF Tick, HandleInv, Backed, RowExists, TypeOK
  <2> QED
    BY <2>1, <2>2 DEF IInv
<1>3. ASSUME NEW c \in Clients, Acquire(c) PROVE IInv'
  BY <1>3, <1>a, GoOnStep DEF Acquire
<1>4. ASSUME NEW c \in Clients, AcquireRead(c) PROVE IInv'
  <2>0. handle[c] = NoHandle
    BY <1>0, <1>4 DEF AcquireRead, CallInv
  <2> QED
    BY <1>4, <1>a, <2>0, GoOnStep, GiveUpStep DEF AcquireRead
<1>5. ASSUME NEW c \in Clients, AcquireInsert(c) PROVE IInv'
  <2>0. handle[c] = NoHandle
    BY <1>0, <1>5 DEF AcquireInsert, CallInv
  <2>1. CASE ~RowExists /\ Return(c, Granted(c, 1))
             /\ row' = [owner_token |-> OwnerToken[c], expires_at |-> at[c] + Ttl,
                        fencing_token |-> 1]
    <3>1. \A d \in Clients : ~(handle[d].expires_at > now)
      BY <1>a, <2>1, ExpiredRowFree
    <3>2. Write(c, Granted(c, 1))
      BY <1>a, <2>1, <3>1 DEF Granted, Owners, Write
    <3> QED
      BY <3>2, WriteStep
  <2> QED
    BY <1>5, <1>a, <2>0, <2>1, GoOnStep DEF AcquireInsert
<1>6. ASSUME NEW c \in Clients, AcquireUpdate(c) PROVE IInv'
  <2>1. CASE row.expires_at <= at[c] /\ row' = TakenRow(c)
             /\ Return(c, Granted(c, TakenRow(c).fencing_token))
    <3>1. \A d \in Clients : ~(handle[d].expires_at > now)
      BY <1>a, <2>1, ExpiredRowFree
    <3>2. row.fencing_token + 1 \in Nat /\ row.fencing_token + 1 > 0 /\ at[c] + Ttl \in Nat
      BY <1>0, <1>a DEF TypeOK
    <3>3. Write(c, Granted(c, TakenRow(c).fencing_token))
      BY <2>1, <3>1, <3>2 DEF Granted, TakenRow, Owners, Write
    <3> QED
      BY <3>3, WriteStep
  <2> QED
    BY <1>6, <2>1, GiveUpStep DEF AcquireUpdate
<1>7. ASSUME NEW c \in Clients, ReleaseRead(c) PROVE IInv'
  <2>1. CASE OwnedAt(c, now)
    <3>1. Quiet(c, "release", now, NoHandle)
      BY <1>7, <1>a, <2>1 DEF ReleaseRead, Quiet
    <3> QED
      BY <3>1, QuietStep
  <2> QED
    BY <1>7, <2>1, GiveUpStep DEF ReleaseRead
<1>8. ASSUME NEW c \in Clients, ReleaseUpdate(c) PROVE IInv'
  <2>1. CASE OwnedAt(c, at[c])
    <3>1. \A d \in Clients : d # c => ~(handle[d].expires_at > now)
      BY <1>a, <2>1, OwnerAlone
    <3>2. Write(c, NoHandle)
      BY <1>0, <1>8, <1>a, <2>1, <3>1
         DEF ReleaseUpdate, OwnedAt, RowExists, Owners, TypeOK, NoHandle, Write
    <3> QED
      BY <3>2, WriteStep
  <2> QED
    BY <1>8, <2>1, GiveUpStep DEF ReleaseUpdate
<1>9. ASSUME NEW c \in Clients, ExtendRead(c) PROVE IInv'
  BY <1>9, <1>a, GoOnStep, GiveUpStep DEF ExtendRead
<1>10. ASSUME NEW c \in Clients, ExtendUpdate(c) PROVE IInv'
  <2>1. CASE OwnedAt(c, at[c]) /\ row' = [row EXCEPT !.expires_at = at[c] + Ttl]
             /\ Return(c, Granted(c, row.fencing_token))
    <3>1. \A d \in Clients : d # c => ~(handle[d].expires_at > now)
      BY <1>a, <2>1, OwnerAlone
    <3>2. Write(c, Granted(c, row.fencing_token))
      BY <1>0, <1>a, <2>1, <3>1 DEF OwnedAt, RowExists, Owners, TypeOK, Granted, Write
    <3> QED
      BY <3>2, WriteStep
  <2> QED
    BY <1>10, <2>1, GiveUpStep DEF ExtendUpdate
<1>11. ASSUME NEW c \in Clients, Crash(c) PROVE IInv'
  BY <1>11, GiveUpStep DEF Crash
<1> QED
  BY <1>1, <1>2, <1>3, <1>4, <1>5, <1>6, <1>7, <1>8, <1>9, <1>10, <1>11 DEF Next

LEMMA InvAlways == ASSUME DistinctOwners PROVE Spec => []IInv
<1>1. IInv /\ [Next]_vars => IInv'
  BY StepInv
<1> QED
  BY InitInv, <1>1, PTL DEF Spec

-----------------------------------------------------------------------------
(* DatabaseLockProvider never lets two clients with different owner_tokens  *)
(* believe in a live lease at once, for any number of clients.              *)
THEOREM MutualExclusionHolds == ASSUME DistinctOwners PROVE Spec => []MutualExclusion
<1>1. IInv => MutualExclusion
  BY DEF IInv, HandleInv, Backed, MutualExclusion, DistinctOwners
<1> QED
  BY InvAlways, <1>1, PTL

(* The client that believes its lease live holds the newest fencing token.  *)
THEOREM NewestTokenHolds == ASSUME DistinctOwners PROVE Spec => []CurrentOwnerHasNewestToken
<1>1. IInv => CurrentOwnerHasNewestToken
  BY DEF IInv, HandleInv, Backed, CurrentOwnerHasNewestToken
<1> QED
  BY InvAlways, <1>1, PTL

-----------------------------------------------------------------------------
\* The part of the invariant that needs no assumption on owner_tokens.
Basic == TypeOK /\ ClockInv /\ RowInv

\* A step that writes a row with a token and hands out a handle.
Granting(c) ==
  /\ row' \in [owner_token : Owners, expires_at : Nat, fencing_token : Nat \ {0}]
  /\ \E h \in [expires_at : Nat, fencing_token : Nat] : Return(c, h)

LEMMA GrantingStep ==
  ASSUME Basic, NEW c \in Clients, Granting(c)
  PROVE  Basic'
  BY DEF Granting, Basic, Return, TypeOK, ClockInv, RowInv, RowExists

LEMMA BasicStep ==
  ASSUME Basic, [Next]_vars
  PROVE  Basic'
<1> USE DatabaseLockAssumption DEF Basic, RowExists
<1>0. \A c \in Clients : OwnerToken[c] \in Owners
  BY DEF Owners
<1>a. \A c \in Clients : at[c] + Ttl \in Nat /\ row.fencing_token \in Nat
  BY DEF TypeOK
<1>1. CASE UNCHANGED vars
  BY <1>1 DEF vars, TypeOK, ClockInv, RowInv
<1>2. CASE Tick
  BY <1>2 DEF Tick, TypeOK, ClockInv, RowInv
<1>3. ASSUME NEW c \in Clients, Acquire(c) PROVE Basic'
  BY <1>3 DEF Acquire, GoOn, TypeOK, ClockInv, RowInv
<1>4. ASSUME NEW c \in Clients, AcquireRead(c) PROVE Basic'
  BY <1>4 DEF AcquireRead, GoOn, Return, NoHandle, TypeOK, ClockInv, RowInv
<1>5. ASSUME NEW c \in Clients, AcquireInsert(c) PROVE Basic'
  <2>1. CASE row' = row
    BY <1>5, <2>1 DEF AcquireInsert, GoOn, Return, Granted, TypeOK, ClockInv, RowInv
  <2>2. CASE Granting(c)
    BY <2>2, GrantingStep
  <2> QED
    BY <1>0, <1>5, <1>a, <2>1, <2>2 DEF AcquireInsert, GoOn, Granted, Granting
<1>6. ASSUME NEW c \in Clients, AcquireUpdate(c) PROVE Basic'
  <2>1. CASE row' = row /\ Return(c, NoHandle)
    BY <2>1 DEF Return, NoHandle, TypeOK, ClockInv, RowInv
  <2>2. CASE Granting(c)
    BY <2>2, GrantingStep
  <2> QED
    <3>1. row.fencing_token + 1 \in Nat \ {0}
      BY <1>a
    <3>2. row' = TakenRow(c) /\ Return(c, Granted(c, TakenRow(c).fencing_token)) => Granting(c)
      BY <1>0, <1>a, <3>1 DEF TakenRow, Granted, Granting
    <3> QED
      BY <1>6, <2>1, <2>2, <3>2 DEF AcquireUpdate
<1>7. ASSUME NEW c \in Clients, ReleaseRead(c) PROVE Basic'
  BY <1>7 DEF ReleaseRead, Return, NoHandle, TypeOK, ClockInv, RowInv
<1>8. ASSUME NEW c \in Clients, ReleaseUpdate(c) PROVE Basic'
  BY <1>8 DEF ReleaseUpdate, OwnedAt, Return, NoHandle, TypeOK, ClockInv, RowInv
<1>9. ASSUME NEW c \in Clients, ExtendRead(c) PROVE Basic'
  BY <1>9 DEF ExtendRead, GoOn, Return, NoHandle, TypeOK, ClockInv, RowInv
<1>10. ASSUME NEW c \in Clients, ExtendUpdate(c) PROVE Basic'
  <2>1. CASE row' = row /\ Return(c, NoHandle)
    BY <2>1 DEF Return, NoHandle, TypeOK, ClockInv, RowInv
  <2>2. CASE Granting(c)
    BY <2>2, GrantingStep
  <2> QED
    BY <1>0, <1>10, <1>a, <2>1, <2>2 DEF ExtendUpdate, OwnedAt, Granted, Granting, TypeOK
<1>11. ASSUME NEW c \in Clients, Crash(c) PROVE Basic'
  BY <1>11 DEF Crash, Return, NoHandle, TypeOK, ClockInv, RowInv
<1> QED
  BY <1>1, <1>2, <1>3, <1>4, <1>5, <1>6, <1>7, <1>8, <1>9, <1>10, <1>11 DEF Next

LEMMA BasicAlways == Spec => []Basic
<1>1. Init => Basic
  BY InitInv DEF IInv, Basic
<1>2. Basic /\ [Next]_vars => Basic'
  BY BasicStep
<1> QED
  BY <1>1, <1>2, PTL DEF Spec

(* The row of core_locks and every call under way keep their types: no      *)
(* statement writes a negative expiry or an owner that never asked.         *)
THEOREM TypeCorrect == Spec => []TypeOK
<1>1. Basic => TypeOK
  BY DEF Basic
<1> QED
  BY BasicAlways, <1>1, PTL

\* What a step does to the row, in terms of the abstract lock.
LEMMA LockStep ==
  ASSUME Basic, [Next]_vars
  PROVE  [Lock!Next]_(Lock!vars)
<1> USE DatabaseLockAssumption DEF Lock!Next, Lock!vars
<1>0. TypeOK /\ ClockInv /\ RowInv
  BY DEF Basic
<1>a. \A c \in Clients : at[c] \in Nat /\ at[c] <= now /\ now \in Nat
  BY <1>0 DEF ClockInv, TypeOK
<1>b. row.fencing_token \in Nat /\ row.expires_at \in Nat
  BY <1>0 DEF TypeOK
<1>1. CASE UNCHANGED <<row, now>>
  BY <1>1
<1>2. CASE Tick
  BY <1>2, <1>b, <1>0 DEF Tick, Lock!End, TypeOK
<1>3. ASSUME NEW c \in Clients, AcquireInsert(c), ~RowExists, UNCHANGED now
      PROVE  Lock!Grant
  BY <1>3, <1>0, <1>a, <1>b DEF AcquireInsert, RowExists, RowInv, Lock!Grant
<1>4. ASSUME NEW c \in Clients, AcquireUpdate(c), row.expires_at <= at[c], UNCHANGED now
      PROVE  Lock!Grant
  BY <1>4, <1>a, <1>b DEF AcquireUpdate, TakenRow, Lock!Grant
<1>5. ASSUME NEW c \in Clients, ReleaseUpdate(c), OwnedAt(c, at[c]), UNCHANGED now
      PROVE  Lock!End
  BY <1>5, <1>0, <1>a DEF ReleaseUpdate, Lock!End, TypeOK
<1>6. ASSUME NEW c \in Clients, ExtendUpdate(c), OwnedAt(c, at[c]), UNCHANGED now
      PROVE  Lock!Extend \/ Lock!End
  BY <1>6, <1>0, <1>a DEF ExtendUpdate, OwnedAt, RowExists, Lock!Extend, Lock!End, TypeOK
<1>7. ASSUME NEW c \in Clients,
             \/ Acquire(c) \/ AcquireRead(c) \/ AcquireInsert(c) \/ AcquireUpdate(c)
             \/ ReleaseRead(c) \/ ReleaseUpdate(c)
             \/ ExtendRead(c) \/ ExtendUpdate(c)
             \/ Crash(c)
      PROVE  [Lock!Next]_(Lock!vars)
  <2>1. now' = now
    BY <1>7 DEF Acquire, AcquireRead, AcquireInsert, AcquireUpdate, ReleaseRead, ReleaseUpdate,
                ExtendRead, ExtendUpdate, Crash, GoOn, Return
  <2>2. \/ row' = row
        \/ AcquireInsert(c) /\ ~RowExists
        \/ AcquireUpdate(c) /\ row.expires_at <= at[c]
        \/ ReleaseUpdate(c) /\ OwnedAt(c, at[c])
        \/ ExtendUpdate(c) /\ OwnedAt(c, at[c])
    BY <1>7 DEF Acquire, AcquireRead, AcquireInsert, AcquireUpdate, ReleaseRead, ReleaseUpdate,
                ExtendRead, ExtendUpdate, Crash, GoOn
  <2> QED
    BY <1>1, <1>3, <1>4, <1>5, <1>6, <2>1, <2>2
<1> QED
  BY <1>1, <1>2, <1>7 DEF Next, vars

(* The core_locks table implements FencedLock: grants never overlap a live  *)
(* lease and fencing tokens only grow, for any number of clients, even when *)
(* some share an owner_token.                                               *)
THEOREM DatabaseLockImplementsFencedLock == Spec => ImplementsFencedLock
<1>1. Init => Lock!Init
  BY DEF Init, Lock!Init
<1>2. Basic /\ [Next]_vars => [Lock!Next]_(Lock!vars)
  BY LockStep
<1> QED
  BY <1>1, <1>2, BasicAlways, PTL DEF Spec, ImplementsFencedLock, Lock!Spec

-----------------------------------------------------------------------------
(* Locks in Redis                                                           *)

LEMMA LeaseInit == R!Init => R!TypeOK
BY DEF R!Init, R!TypeOK, R!NoHandle

LEMMA LeaseStep ==
  ASSUME Ttl \in Nat, R!TypeOK, [R!Next]_R!vars
  PROVE  R!TypeOK'
<1>h. ASSUME NEW c \in Clients, NEW h \in [expires_at : Nat, fencing_token : Nat], R!Return(c, h),
             counter' \in Nat,
             key' \in [owner_token : Clients \union {NoOwner}, fencing_token : Nat, expires_at : Nat]
      PROVE  R!TypeOK'
  BY <1>h DEF R!Return, R!TypeOK
<1>n. R!NoHandle \in [expires_at : Nat, fencing_token : Nat]
  BY DEF R!NoHandle
<1>1. ASSUME NEW c \in Clients, R!Acquire(c) PROVE R!TypeOK'
  BY <1>1 DEF R!Acquire, R!GoOn, R!TypeOK
<1>2. ASSUME NEW c \in Clients, R!Incr(c) PROVE R!TypeOK'
  BY <1>2 DEF R!Incr, R!GoOn, R!TypeOK
<1>3. ASSUME NEW c \in Clients, R!SetNx(c) PROVE R!TypeOK'
  BY <1>3 DEF R!SetNx, R!GoOn, R!TypeOK
<1>4. ASSUME NEW c \in Clients, R!SetReply(c) PROVE R!TypeOK'
  <2>1. [expires_at |-> now + Ttl, fencing_token |-> fencing[c]] \in [expires_at : Nat, fencing_token : Nat]
    BY DEF R!TypeOK
  <2> QED
    BY <1>4, <1>h, <2>1 DEF R!SetReply, R!TypeOK
<1>5. ASSUME NEW c \in Clients, R!BlockedGet(c) PROVE R!TypeOK'
  <2>1. CASE R!KeyExists \/ tries[c] = 1
    <3>1. CASE R!Return(c, R!NoHandle)
      BY <1>5, <1>h, <1>n, <3>1 DEF R!BlockedGet, R!TypeOK
    <3>2. CASE R!GoOn(c, "incr")
      BY <1>5, <1>h, <1>n, <2>1, <3>2 DEF R!BlockedGet, R!GoOn, R!TypeOK
    <3> QED
      BY <1>5, <3>1, <3>2 DEF R!BlockedGet
  <2>2. CASE ~(R!KeyExists \/ tries[c] = 1)
    BY <1>5, <2>2 DEF R!BlockedGet, R!GoOn, R!TypeOK
  <2> QED
    BY <2>1, <2>2
<1>6. ASSUME NEW c \in Clients, R!Release(c) PROVE R!TypeOK'
  <2>1. key' \in [owner_token : Clients \union {NoOwner}, fencing_token : Nat, expires_at : Nat]
    BY <1>6 DEF R!Release, R!TypeOK
  <2> QED
    BY <1>6, <1>h, <1>n, <2>1 DEF R!Release, R!TypeOK
<1>7. ASSUME NEW c \in Clients, R!Extend(c) PROVE R!TypeOK'
  <2>1. CASE R!Owns(c)
    <3>1. key' \in [owner_token : Clients \union {NoOwner}, fencing_token : Nat, expires_at : Nat]
      BY <1>7, <2>1 DEF R!Extend, R!TypeOK
    <3>2. fencing' \in [Clients -> Nat]
      BY <1>7, <2>1 DEF R!Extend, R!TypeOK
    <3> QED
      BY <1>7, <2>1, <3>1, <3>2 DEF R!Extend, R!GoOn, R!TypeOK
  <2>2. CASE ~R!Owns(c)
    BY <1>7, <1>h, <1>n, <2>2 DEF R!Extend, R!TypeOK
  <2> QED
    BY <2>1, <2>2
<1>8. ASSUME NEW c \in Clients, R!ExtendReply(c) PROVE R!TypeOK'
  <2>1. [expires_at |-> now + Ttl, fencing_token |-> fencing[c]] \in [expires_at : Nat, fencing_token : Nat]
    BY DEF R!TypeOK
  <2> QED
    BY <1>8, <1>h, <2>1 DEF R!ExtendReply, R!TypeOK
<1>9. ASSUME NEW c \in Clients, R!Crash(c) PROVE R!TypeOK'
  BY <1>9, <1>h, <1>n DEF R!Crash, R!TypeOK
<1>10. CASE R!Tick
  BY <1>10 DEF R!Tick, R!TypeOK
<1>11. CASE UNCHANGED R!vars
  BY <1>11 DEF R!vars, R!TypeOK
<1> QED
  BY <1>1, <1>2, <1>3, <1>4, <1>5, <1>6, <1>7, <1>8, <1>9, <1>10, <1>11 DEF R!Next

(* While the lock key exists only a step of its own owner changes it, for any   *)
(* number of clients and any ttl: no SET NX overtakes it, and no late release   *)
(* or extension of an earlier owner ends or prolongs it.                        *)
THEOREM OthersKeysStay ==
  ASSUME Ttl \in Nat
  PROVE  R!Spec => OthersKeyUntouched
<1> DEFINE Mine == \A c \in Clients :
             key.owner_token = c /\ R!KeyExists /\ key' # key => step'[c] # step[c] \/ lease'[c] # lease[c]
<1>1. R!TypeOK /\ [R!Next]_R!vars => [Mine]_R!vars
  <2> SUFFICES ASSUME R!TypeOK, R!Next, NEW c \in Clients,
                      key.owner_token = c, R!KeyExists, key' # key
               PROVE  step'[c] # step[c] \/ lease'[c] # lease[c]
    OBVIOUS
  <2>1. PICK d \in Clients : R!SetNx(d) \/ R!Release(d) \/ R!Extend(d)
    BY DEF R!Next, R!Acquire, R!Incr, R!SetReply, R!BlockedGet, R!ExtendReply, R!Crash, R!Tick
  <2>2. CASE R!SetNx(d)
    BY <2>2 DEF R!SetNx
  <2>3. CASE R!Release(d)
    BY <2>3 DEF R!Release, R!Owns, R!Return, R!TypeOK
  <2>4. CASE R!Extend(d)
    BY <2>4 DEF R!Extend, R!Owns, R!GoOn, R!TypeOK
  <2> QED
    BY <2>1, <2>2, <2>3, <2>4
<1>2. R!TypeOK /\ [R!Next]_R!vars => R!TypeOK'
  BY LeaseStep
<1> QED
  BY LeaseInit, <1>1, <1>2, PTL DEF R!Spec, R!OthersKeyUntouched, OthersKeyUntouched

-----------------------------------------------------------------------------
(* Cached decisions                                                         *)

\* What a lookup knows, and what it may still store.
IsLookup(x) ==
  /\ x.at \in {"idle", "missed", "allowed", "hit"}
  /\ x.at = "allowed" =>
       /\ x = [f \in {"at", "read_at", "clean"} |-> x[f]]
       /\ x.read_at \in Nat /\ x.read_at <= now /\ now <= x.read_at + MaxDelay
       /\ ~allows => x.read_at <= revoked_at
       /\ x.clean => allows /\ writer = Nobody
  /\ x.at = "hit" /\ ~x.still => x.since < CacheTtl + MaxDelay /\ ~x.clean

\* What is cached, and how long it can outlive the policy.
EntryFresh ==
  entry # Nobody =>
    /\ entry.marker \in [{"global", "subject"} -> Nat] /\ entry.until \in Nat
    /\ \A s \in {"global", "subject"} : entry.marker[s] <= versions[s]
    /\ entry.until <= now + CacheTtl
    /\ ~allows => entry.until <= revoked_at + CacheTtl + MaxDelay
    /\ entry.clean /\ entry.marker = versions => allows /\ writer = Nobody

CacheInv ==
  /\ now \in Nat /\ revoked_at \in Nat
  /\ versions \in [{"global", "subject"} -> Nat]
  /\ lookups = [r \in Callers |-> lookups[r]]
  /\ EntryFresh
  /\ \A r \in Callers : IsLookup(lookups[r])

Durations == CacheTtl \in Nat /\ MaxDelay \in Nat

LEMMA CacheInit == C!Init => CacheInv
BY DEF C!Init, CacheInv, EntryFresh, IsLookup, C!Idle

\* One lookup moves; nothing it reads changes but what is cached.
LEMMA LookupMoves ==
  ASSUME CacheInv, NEW r \in Callers, NEW x, C!Notes(r, x), IsLookup(x), EntryFresh',
         UNCHANGED <<allows, versions, now, writer, revoked_at>>
  PROVE  CacheInv'
<1>1. lookups'[r] = x /\ \A q \in Callers \ {r} : lookups'[q] = lookups[q]
  BY DEF C!Notes, CacheInv
<1>2. ASSUME NEW q \in Callers PROVE IsLookup(lookups[q])'
  <2>1. \A y : IsLookup(y) <=> IsLookup(y)'
    BY DEF IsLookup
  <2> QED
    BY <1>1, <2>1 DEF CacheInv, IsLookup
<1>3. lookups' = [q \in Callers |-> lookups'[q]]
  BY DEF C!Notes, CacheInv
<1> QED
  BY <1>2, <1>3 DEF CacheInv

\* A projection leaves the lookups as they are, but for what they may store.
LEMMA OvertakenStays ==
  ASSUME CacheInv, NEW r \in Callers
  PROVE  \/ lookups[r].at # "allowed" /\ C!Overtaken[r] = lookups[r]
         \/ /\ lookups[r].at = "allowed" /\ C!Overtaken[r].at = "allowed"
            /\ C!Overtaken[r] = [f \in {"at", "read_at", "clean"} |-> C!Overtaken[r][f]]
            /\ C!Overtaken[r].read_at = lookups[r].read_at
            /\ C!Overtaken[r].clean = FALSE
<1>1. CASE C!At(r, "allowed")
  <2>1. PICK x : x = lookups[r]
    OBVIOUS
  <2>2. x = [f \in {"at", "read_at", "clean"} |-> x[f]] /\ x.at = "allowed"
    BY <1>1, <2>1 DEF CacheInv, IsLookup, C!At
  <2>3. PICK y : y = [x EXCEPT !.clean = FALSE]
    OBVIOUS
  <2>4. y = [f \in {"at", "read_at", "clean"} |-> y[f]] /\ y.at = "allowed"
        /\ y.read_at = x.read_at /\ y.clean = FALSE
    BY <2>2, <2>3
  <2>5. C!Overtaken[r] = y
    BY <1>1, <2>1, <2>3 DEF C!Overtaken
  <2> QED
    BY <2>1, <2>2, <2>4, <2>5
<1>2. CASE ~C!At(r, "allowed")
  BY <1>2 DEF C!Overtaken, C!At
<1> QED
  BY <1>1, <1>2

LEMMA CacheNext ==
  ASSUME Durations, CacheInv, [C!Next]_C!cacheVars
  PROVE  CacheInv'
<1>1. CASE C!invalidate
  <2>1. PICK s \in {"global", "subject"} : versions' = [versions EXCEPT ![s] = @ + 1]
    BY <1>1 DEF C!invalidate, CacheInv
  <2>2. versions' \in [{"global", "subject"} -> Nat]
        /\ versions'[s] = versions[s] + 1
        /\ \A t \in {"global", "subject"} : versions[t] <= versions'[t]
    BY <2>1 DEF CacheInv
  <2>3. EntryFresh'
    <3> SUFFICES ASSUME entry # Nobody PROVE EntryFresh'
      BY <1>1 DEF EntryFresh, C!invalidate
    <3>1. entry.marker # versions'
      BY <2>2 DEF CacheInv, EntryFresh
    <3>2. \A t \in {"global", "subject"} : entry.marker[t] <= versions'[t]
      BY <2>2 DEF CacheInv, EntryFresh
    <3> QED
      BY <1>1, <3>1, <3>2 DEF CacheInv, EntryFresh, C!invalidate
  <2>4. ASSUME NEW r \in Callers PROVE IsLookup(lookups[r])'
    BY <1>1, OvertakenStays DEF CacheInv, IsLookup, C!invalidate
  <2> QED
    BY <1>1, <2>2, <2>3, <2>4 DEF CacheInv, C!invalidate, C!Overtaken
<1>2. CASE C!ProjectionCommits
  <2>1. revoked_at' \in Nat
    BY <1>2 DEF CacheInv, C!ProjectionCommits
  <2>2. EntryFresh'
    BY <1>2 DEF CacheInv, EntryFresh, C!ProjectionCommits, Durations
  <2>3. ASSUME NEW r \in Callers PROVE IsLookup(lookups[r])'
    BY <1>2, OvertakenStays DEF CacheInv, IsLookup, C!ProjectionCommits
  <2> QED
    BY <1>2, <2>1, <2>2, <2>3 DEF CacheInv, C!ProjectionCommits, C!Overtaken
<1>3. CASE C!ProjectionRollsBack
  BY <1>3 DEF CacheInv, EntryFresh, IsLookup, C!ProjectionRollsBack
<1>4. CASE C!Tick
  <2>1. EntryFresh'
    BY <1>4 DEF CacheInv, EntryFresh, C!Tick, Durations
  <2>2. ASSUME NEW r \in Callers PROVE IsLookup(lookups[r])'
    BY <1>4 DEF CacheInv, IsLookup, C!Tick, C!At, Durations
  <2> QED
    BY <1>4, <2>1, <2>2 DEF CacheInv, C!Tick
<1>5. ASSUME NEW r \in Callers, C!LookupStep(r) PROVE CacheInv'
  <2> DEFINE Missed == [at |-> "missed"]
             Read == [at |-> "allowed", read_at |-> now, clean |-> writer = Nobody]
             Hit == [at |-> "hit", clean |-> entry.clean, still |-> allows, since |-> now - revoked_at]
  <2>0. UNCHANGED entry => EntryFresh' \/ ~UNCHANGED <<allows, versions, now, writer, revoked_at>>
    BY DEF CacheInv, EntryFresh
  <2>i. IsLookup(C!Idle)
    BY DEF IsLookup, C!Idle
  <2>1. CASE C!get_allowing_match_Misses(r)
    <3>1. IsLookup(Missed)
      BY DEF IsLookup
    <3> QED
      BY <2>0, <2>1, <3>1, LookupMoves DEF C!get_allowing_match_Misses
  <2>2. CASE C!get_allowing_match_Hits(r)
    <3>1. IsLookup(Hit)
      BY <2>2 DEF IsLookup, CacheInv, EntryFresh, C!get_allowing_match_Hits, C!Matches, C!Live, Durations
    <3> QED
      BY <2>0, <2>2, <3>1, LookupMoves DEF C!get_allowing_match_Hits
  <2>3. CASE C!find_allowing_policy(r)
    <3>1. CASE allows
      <4>1. Read = [f \in {"at", "read_at", "clean"} |-> Read[f]]
            /\ Read.at = "allowed" /\ Read.read_at = now
        OBVIOUS
      <4>c. Read.clean => writer = Nobody
        BY Zenon
      <4> HIDE DEF Read
      <4>2. IsLookup(Read)
        BY <3>1, <4>1, <4>c DEF IsLookup, CacheInv, Durations
      <4> QED
        BY <2>0, <2>3, <3>1, <4>2, LookupMoves DEF Read, C!find_allowing_policy
    <3>2. CASE ~allows
      BY <2>0, <2>3, <2>i, <3>2, LookupMoves DEF C!find_allowing_policy
    <3> QED
      BY <3>1, <3>2
  <2>4. CASE C!set_allowing_match(r)
    <3>1. EntryFresh'
      BY <2>4 DEF CacheInv, EntryFresh, IsLookup, C!set_allowing_match, C!Stored, C!At, Durations
    <3> QED
      BY <2>4, <2>i, <3>1, LookupMoves DEF C!set_allowing_match
  <2>5. CASE C!VersionConflict(r)
    BY <2>0, <2>5, <2>i, LookupMoves DEF C!VersionConflict
  <2>6. CASE C!Answers(r)
    BY <2>0, <2>6, <2>i, LookupMoves DEF C!Answers
  <2> QED
    BY <1>5, <2>1, <2>2, <2>3, <2>4, <2>5, <2>6 DEF C!LookupStep
<1>6. CASE UNCHANGED C!cacheVars
  BY <1>6 DEF CacheInv, EntryFresh, IsLookup, C!cacheVars
<1> QED
  BY <1>1, <1>2, <1>3, <1>4, <1>5, <1>6 DEF C!Next

(* A permission that was revoked is soon denied: however requests, projections  *)
(* and time interleave, a decision answered from the cache without its policy   *)
(* is younger than the ttl and the longest delay, and one no projection         *)
(* overtook is never answered (RevocationTakesHold of the two providers).       *)
THEOREM RevocationsTakeHold ==
  ASSUME Durations
  PROVE  C!Spec => []RevocationTakesHold
<1>1. CacheInv => RevocationTakesHold
  BY DEF CacheInv, IsLookup, RevocationTakesHold, C!RevocationTakesHold, C!At
<1>2. CacheInv /\ [C!Next]_C!cacheVars => CacheInv'
  BY CacheNext
<1> QED
  BY CacheInit, <1>1, <1>2, PTL DEF C!Spec

-----------------------------------------------------------------------------
(* The audit log                                                            *)

\* Recorders do nothing else, their names are no "nobody", and ids compare.
Apart ==
  /\ Recorders \intersect (Exporters \union Retainers) = {} /\ Nobody \notin Recorders
  /\ Ids \subseteq Nat

\* One process or a lock provider serves the recorders.
Serialized ==
  Apart /\ (Distributed \/ \A r, q \in Recorders : ProcessOf[r] = ProcessOf[q])

IsTx(x) == x = [f \in {"at", "start", "prev", "own", "read", "export", "lines"} |-> x[f]]

\* prev is what a record that comes next has to name.
Follows(prev) ==
  \/ log = {} /\ prev = Nobody
  \/ \E a \in log : prev = a.hash /\ \A b \in log : b = a \/ b.created < a.created

\* A record that may be appended.
MayFollow(a, start) ==
  /\ a.created = start /\ a.hash = a.id /\ a.id \in Ids /\ a.intact
  /\ \A b \in log : b.id # a.id
  /\ Follows(a.prev)

\* What recorder r, in state x, holds and has read.
Recording(r, x) ==
  /\ IsTx(x) /\ x.at # "open"
  /\ x.own # {} => x.at = "held"
  /\ x.at \in {"idle", "locked"} \/ (x.at = "held" /\ x.own = {}) => x.start = 0
  /\ x.at = "read" \/ x.own # {} =>
       x.start \in Nat /\ x.start <= clock /\ \A a \in log : a.created < x.start
  /\ x.at = "read" => Follows(x.prev)
  /\ x.own # {} => \E a : x.own = {a} /\ MayFollow(a, x.start)
  /\ x.at \in {"locked", "held", "read"} => locks[ProcessOf[r]] = r
  /\ x.at = "release" \/ (Distributed /\ x.at \in {"held", "read"}) => chain = r

\* The log, in the order in which it was written.
Written(lines) ==
  /\ A!IsOrdered(lines)
  /\ \A a \in log : \E i \in DOMAIN lines : lines[i] = a
  /\ \A i, j \in DOMAIN lines : i < j => lines[i].created < lines[j].created

LogChained ==
  /\ IsFiniteSet(log)
  /\ \A a \in log : a.created \in Nat /\ a.created <= clock /\ a.hash = a.id /\ a.id \in Ids
  /\ \E lines \in A!SetToSeqs(log) : Written(lines)

AuditInv ==
  /\ clock \in Nat
  /\ ~Distributed => chain = Nobody
  /\ txs = [r \in A!Requests |-> txs[r]] /\ locks = [p \in A!Processes |-> locks[p]]
  /\ LogChained
  /\ \A r \in Recorders : Recording(r, txs[r])

LEMMA AuditInit == A!Init => AuditInv
<1> SUFFICES ASSUME A!Init PROVE AuditInv
  OBVIOUS
<1>1. log = {} /\ clock = 0
  BY DEF A!Init, A!InitWith
<1>2. LogChained
  <2> DEFINE none == [i \in 1 .. 0 |-> 0]
  <2>1. Cardinality(log) = 0 /\ IsFiniteSet(log)
    BY <1>1, FS_EmptySet
  <2>2. none \in A!SetToSeqs(log)
    BY <2>1, SameCardinality DEF A!SetToSeqs
  <2>3. Written(none)
    BY <1>1 DEF Written, A!IsOrdered
  <2> QED
    BY <1>1, <2>1, <2>2, <2>3 DEF LogChained
<1>3. ASSUME NEW r \in Recorders PROVE Recording(r, txs[r])
  <2>1. PICK x : x = A!NoTx
    OBVIOUS
  <2>2. IsTx(x) /\ x.at = "idle" /\ x.own = {} /\ x.start = 0
    BY <2>1 DEF IsTx, A!NoTx
  <2>3. txs[r] = x
    BY <2>1 DEF A!Init, A!InitWith, A!Requests
  <2> QED
    BY <2>2, <2>3 DEF Recording
<1> QED
  BY <1>1, <1>2, <1>3 DEF A!Init, A!InitWith, AuditInv

\* The locks let one recorder at a time read and insert.
LEMMA OneRecorder ==
  ASSUME Serialized, AuditInv, NEW r \in Recorders, NEW q \in Recorders,
         txs[r].at \in {"held", "read"}, txs[q].at \in {"held", "read"}
  PROVE  r = q
BY DEF Serialized, Apart, AuditInv, Recording

LEMMA RecordingKept ==
  ASSUME NEW q, NEW y, Recording(q, y), UNCHANGED <<log, clock, locks, chain>>
  PROVE  Recording(q, y)'
BY DEF Recording, IsTx, MayFollow, Follows

\* One recorder moves; it alone may change the log, if it holds the locks.
LEMMA RecorderMoves ==
  ASSUME Serialized, AuditInv, NEW r \in Recorders, NEW x, A!Notes(r, x),
         Recording(r, x)', LogChained', clock' \in Nat, clock <= clock',
         log' = log \/ txs[r].at \in {"held", "read"},
         locks' = [p \in A!Processes |-> locks'[p]],
         \A q \in Recorders \ {r} : locks[ProcessOf[q]] = q => locks'[ProcessOf[q]] = q,
         chain' = chain \/ (Distributed /\ chain \in {r, Nobody}) 
  PROVE  AuditInv'
<1>0. Recorders \subseteq A!Requests
  BY DEF A!Requests
<1>1. txs'[r] = x /\ \A q \in Recorders \ {r} : txs'[q] = txs[q]
  BY <1>0 DEF A!Notes, AuditInv
<1>2. ASSUME NEW q \in Recorders \ {r} PROVE Recording(q, txs[q])'
  <2>1. PICK y : y = txs[q]
    OBVIOUS
  <2>2. Recording(q, y)
    BY <2>1 DEF AuditInv
  <2>3. chain = q => chain' = q
    BY DEF Serialized, Apart
  <2>4. CASE log' = log
    <3>1. \A a, t : MayFollow(a, t) <=> MayFollow(a, t)'
      BY <2>4 DEF MayFollow, Follows
    <3>2. Follows(y.prev) <=> Follows(y.prev)'
      BY <2>4 DEF Follows
    <3>3. (locks[ProcessOf[q]] = q => locks'[ProcessOf[q]] = q)
      OBVIOUS
    <3>4. y.start \in Nat /\ y.start <= clock => y.start <= clock'
      BY DEF AuditInv
    <3>5. Recording(q, y)'
      BY <2>2, <2>3, <2>4, <3>1, <3>2, <3>3, <3>4 DEF Recording, IsTx
    <3> QED
      BY <1>1, <2>1, <3>5
  <2>5. CASE y.at \notin {"held", "read"}
    BY <2>2, <2>3, <2>5, <2>1, <1>1 DEF Recording, IsTx
  <2>6. log' = log \/ y.at \notin {"held", "read"}
    BY <2>1, OneRecorder
  <2> QED
    BY <1>1, <2>1, <2>4, <2>5, <2>6
<1>3. ~Distributed => chain' = Nobody
  BY DEF AuditInv
<1>4. txs' = [q \in A!Requests |-> txs'[q]]
  BY DEF A!Notes, AuditInv
<1> QED
  BY <1>1, <1>2, <1>3, <1>4 DEF AuditInv

\* A record that follows the log makes a longer one.
LEMMA LogGrows ==
  ASSUME AuditInv, Serialized, NEW a, NEW start \in Nat, MayFollow(a, start), start <= clock,
         \A b \in log : b.created < start, log' = log \union {a}, clock' = clock
  PROVE  LogChained'
<1> DEFINE n == Cardinality(log)
<1>1. PICK lines \in A!SetToSeqs(log) : Written(lines)
  BY DEF AuditInv, LogChained
<1>2. IsFiniteSet(log) /\ n \in Nat
  BY FS_CardinalityType DEF AuditInv, LogChained
<1>3. a \notin log
  BY DEF MayFollow
<1>4. IsFiniteSet(log') /\ Cardinality(log') = n + 1
  BY <1>2, <1>3, FS_AddElement
<1>5. lines \in [1 .. n -> log] /\ \A i, j \in 1 .. n : i # j => lines[i] # lines[j]
  BY <1>1, SameCardinality DEF A!SetToSeqs
<1> HIDE DEF n
<1>6. PICK new : new = [i \in 1 .. n + 1 |-> IF i = n + 1 THEN a ELSE lines[i]]
  OBVIOUS
<1>7. /\ new[n + 1] = a
      /\ \A i \in 1 .. n : new[i] = lines[i] /\ new[i] \in log
      /\ DOMAIN new = 1 .. n + 1 /\ \A i \in 1 .. n + 1 : i = n + 1 \/ i \in 1 .. n
  BY <1>2, <1>5, <1>6
<1>8. new \in A!SetToSeqs(log')
  <2>1. new \in [1 .. n + 1 -> log']
    BY <1>2, <1>5, <1>6
  <2>2. \A i, j \in 1 .. n + 1 : i # j => new[i] # new[j]
    BY <1>3, <1>5, <1>7
  <2> QED
    BY <2>1, <2>2, <1>4, SameCardinality DEF A!SetToSeqs
<1>9. /\ \A i, j \in 1 .. n : i < j => lines[i].created < lines[j].created
      /\ \A b \in log : \E i \in 1 .. n : lines[i] = b
  BY <1>1, <1>5 DEF Written
<1>10. a.prev = (IF n = 0 THEN Nobody ELSE lines[n].hash)
  <2>1. CASE n = 0
    <3>1. log = {}
      BY <1>2, <2>1, FS_EmptySet DEF n
    <3> QED
      BY <2>1, <3>1 DEF MayFollow, Follows
  <2>2. CASE n # 0
    <3>1. n \in 1 .. n /\ lines[n] \in log
      BY <1>2, <1>5, <2>2
    <3>2. PICK b \in log : a.prev = b.hash /\ \A c \in log : c = b \/ c.created < b.created
      BY <3>1 DEF MayFollow, Follows
    <3>3. PICK i \in 1 .. n : lines[i] = b
      BY <1>9
    <3>4. lines[n].created \in Nat /\ b.created \in Nat
      BY <3>1 DEF AuditInv, LogChained
    <3>5. i = n \/ i < n
      BY <1>2
    <3>6. ~ i < n
      BY <1>9, <3>1, <3>2, <3>3, <3>4
    <3> QED
      BY <2>2, <3>2, <3>3, <3>5, <3>6
  <2> QED
    BY <2>1, <2>2
<1>11. A!IsOrdered(new)
  <2> SUFFICES ASSUME NEW i \in 1 .. n + 1
               PROVE  /\ new[i].intact
                      /\ new[i].prev = (IF i = 1 THEN Nobody ELSE new[i - 1].hash)
                      /\ \A j \in 1 .. i - 1 : new[j].hash # new[i].hash
    BY <1>7 DEF A!IsOrdered
  <2>1. \A k \in 1 .. n : /\ lines[k].intact
                          /\ lines[k].prev = (IF k = 1 THEN Nobody ELSE lines[k - 1].hash)
                          /\ \A j \in 1 .. k - 1 : lines[j].hash # lines[k].hash
    BY <1>1, <1>5 DEF Written, A!IsOrdered
  <2>2. CASE i \in 1 .. n
    <3>1. \A j \in 1 .. i - 1 : j \in 1 .. n
      BY <1>2, <2>2
    <3>2. i # 1 => i - 1 \in 1 .. n
      BY <1>2, <2>2
    <3> QED
      BY <1>7, <2>1, <2>2, <3>1, <3>2
  <2>3. CASE i = n + 1
    <3>1. \A j \in 1 .. i - 1 : j \in 1 .. n
      BY <1>2, <2>3
    <3>2. \A j \in 1 .. n : lines[j].hash # a.hash
      BY <1>5 DEF AuditInv, LogChained, MayFollow
    <3>3. i = 1 <=> n = 0
      BY <1>2, <2>3
    <3>4. n # 0 => i - 1 = n /\ n \in 1 .. n
      BY <1>2, <2>3
    <3>5. new[i] = a /\ a.intact
      BY <1>7, <2>3 DEF MayFollow
    <3>6. a.prev = (IF i = 1 THEN Nobody ELSE new[i - 1].hash)
      BY <1>7, <1>10, <3>3, <3>4
    <3> QED
      BY <1>7, <3>1, <3>2, <3>5, <3>6
  <2> QED
    BY <1>7, <2>2, <2>3
<1>12. Written(new)'
  <2>1. \A b \in log' : \E i \in 1 .. n + 1 : new[i] = b
    BY <1>2, <1>7, <1>9
  <2>2. ASSUME NEW i \in 1 .. n + 1, NEW j \in 1 .. n + 1, i < j
        PROVE  new[i].created < new[j].created
    <3>1. i \in 1 .. n
      BY <1>2, <2>2
    <3>2. CASE j \in 1 .. n
      BY <1>7, <1>9, <2>2, <3>1, <3>2
    <3>3. CASE j = n + 1
      BY <1>7, <3>1, <3>3 DEF MayFollow
    <3> QED
      BY <1>7, <3>2, <3>3
  <2> QED
    BY <1>7, <1>11, <2>1, <2>2 DEF Written
<1>13. \A b \in log' : b.created \in Nat /\ b.created <= clock' /\ b.hash = b.id /\ b.id \in Ids
  BY DEF AuditInv, LogChained, MayFollow
<1> QED
  BY <1>4, <1>8, <1>12, <1>13 DEF LogChained

\* The newest record is the one to follow.
LEMMA LatestFollows ==
  ASSUME AuditInv, Serialized, NEW r \in Recorders, txs[r].own = {}
  PROVE  Follows(A!_latest_hash(r))
<1> DEFINE last == {a \in log : \A b \in log :
                      b.created < a.created \/ (b.created = a.created /\ b.id <= a.id)}
<1>1. A!_latest_hash(r) = IF last = {} THEN Nobody ELSE (CHOOSE a \in last : TRUE).hash
  <2>1. log \union txs[r].own = log
    OBVIOUS
  <2> QED
    BY <2>1 DEF A!_latest_hash
<1>2. PICK lines \in A!SetToSeqs(log) : Written(lines)
  BY DEF AuditInv, LogChained
<1>3. PICK n \in Nat : n = Cardinality(log)
  BY FS_CardinalityType DEF AuditInv, LogChained
<1>4. lines \in [1 .. n -> log]
  BY <1>2, <1>3, SameCardinality DEF A!SetToSeqs
<1>5. /\ \A i, j \in 1 .. n : i < j => lines[i].created < lines[j].created
      /\ \A b \in log : \E i \in 1 .. n : lines[i] = b
  BY <1>2, <1>4 DEF Written
<1>6. \A b \in log : b.created \in Nat /\ b.id \in Nat
  BY DEF AuditInv, LogChained, Serialized, Apart
<1>7. log # {} => last # {}
  <2> SUFFICES ASSUME log # {} PROVE lines[n] \in last
    OBVIOUS
  <2>1. n # 0
    BY <1>3, FS_EmptySet DEF AuditInv, LogChained
  <2>2. n \in 1 .. n /\ lines[n] \in log
    BY <1>4, <2>1
  <2>3. ASSUME NEW b \in log
        PROVE  b.created < lines[n].created \/ (b.created = lines[n].created /\ b.id <= lines[n].id)
    <3>1. PICK i \in 1 .. n : lines[i] = b
      BY <1>5
    <3>2. i < n \/ i = n
      OBVIOUS
    <3> QED
      BY <1>5, <1>6, <2>2, <3>1, <3>2
  <2> QED
    BY <2>2, <2>3
<1>8. ASSUME NEW a \in last PROVE \A b \in log : b = a \/ b.created < a.created
  <2> SUFFICES ASSUME NEW b \in log, b.created = a.created PROVE b = a
    OBVIOUS
  <2>1. PICK i \in 1 .. n, j \in 1 .. n : lines[i] = a /\ lines[j] = b
    BY <1>5
  <2>2. i < j \/ j < i \/ i = j
    OBVIOUS
  <2> QED
    BY <1>5, <1>6, <2>1, <2>2
<1>9. CASE log = {}
  BY <1>1, <1>9 DEF Follows
<1>10. CASE log # {}
  <2>1. PICK a \in last : a = CHOOSE b \in last : TRUE
    BY <1>7, <1>10
  <2> QED
    BY <1>1, <1>8, <2>1 DEF Follows
<1> QED
  BY <1>9, <1>10

LEMMA AuditNext ==
  ASSUME Serialized, AuditInv, plain', [A!Next]_A!auditVars
  PROVE  AuditInv'
<1>l. UNCHANGED <<log, clock>> => LogChained'
  BY DEF AuditInv, LogChained, Written, A!IsOrdered
<1>e. ASSUME UNCHANGED <<log, clock, locks, chain>>, NEW r \in A!Requests \ Recorders, NEW x, A!Notes(r, x)
      PROVE  AuditInv'
  <2>1. \A q \in Recorders : q \in A!Requests /\ q # r
    BY DEF A!Requests
  <2>2. \A q \in Recorders : txs'[q] = txs[q]
    BY <1>e, <2>1 DEF A!Notes, AuditInv
  <2>3. ASSUME NEW q \in Recorders PROVE Recording(q, txs[q])'
    <3>1. PICK y : y = txs[q]
      OBVIOUS
    <3>2. Recording(q, y)'
      BY <1>e, <3>1, RecordingKept DEF AuditInv
    <3> QED
      BY <2>2, <3>1, <3>2
  <2>4. txs' = [q \in A!Requests |-> txs'[q]]
    BY <1>e DEF A!Notes, AuditInv
  <2> QED
    BY <1>e, <1>l, <2>3, <2>4 DEF AuditInv
<1>a. \A r \in Exporters \union Retainers : r \in A!Requests \ Recorders
  BY DEF Serialized, Apart, A!Requests
<1>1. ASSUME NEW r \in Recorders, A!Begins(r) PROVE AuditInv'
  BY <1>1 DEF A!Begins
<1>2. ASSUME NEW r \in Recorders, A!_acquire_audit_chain_lock(r) PROVE AuditInv'
  <2>1. PICK x : x = [txs[r] EXCEPT !.at = "locked"]
    OBVIOUS
  <2>2. Recording(r, txs[r]) /\ txs[r].at = "idle" /\ locks[ProcessOf[r]] = Nobody
    BY <1>2 DEF AuditInv, A!_acquire_audit_chain_lock, A!At, Recording
  <2>3. IsTx(x) /\ x.at = "locked" /\ x.own = {} /\ x.start = 0
    BY <2>1, <2>2 DEF Recording, IsTx
  <2>4. ProcessOf[r] \in A!Processes
    BY DEF A!Processes, A!Requests
  <2>5. locks'[ProcessOf[r]] = r /\ locks' = [p \in A!Processes |-> locks'[p]]
        /\ \A p \in A!Processes \ {ProcessOf[r]} : locks'[p] = locks[p]
    BY <1>2, <2>4 DEF AuditInv, A!_acquire_audit_chain_lock
  <2>6. Recording(r, x)'
    BY <2>3, <2>5 DEF Recording, IsTx
  <2>7. \A q \in Recorders : locks[ProcessOf[q]] = q => locks'[ProcessOf[q]] = q
    BY <2>2, <2>5 DEF Serialized, Apart, A!Processes, A!Requests
  <2>8. A!Notes(r, x) /\ UNCHANGED <<log, clock, chain>>
    BY <1>2, <2>1 DEF A!_acquire_audit_chain_lock, A!Goes
  <2> QED
    BY <1>l, <2>5, <2>6, <2>7, <2>8, RecorderMoves DEF AuditInv
<1>3. ASSUME NEW r \in Recorders, A!_acquire_distributed_audit_chain_lock(r) PROVE AuditInv'
  <2>1. Recording(r, txs[r]) /\ txs[r].at = "locked" /\ UNCHANGED <<log, clock>>
    BY <1>3 DEF AuditInv, A!_acquire_distributed_audit_chain_lock, A!At
  <2>2. ProcessOf[r] \in A!Processes
    BY DEF A!Processes, A!Requests
  <2>3. PICK held : held = [txs[r] EXCEPT !.at = "held"]
    OBVIOUS
  <2>4. IsTx(held) /\ held.at = "held" /\ held.own = {} /\ held.start = 0
    BY <2>1, <2>3 DEF Recording, IsTx
  <2>5. PICK over : over = [txs[r] EXCEPT !.at = "done"]
    OBVIOUS
  <2>6. IsTx(over) /\ over.at = "done" /\ over.own = {}
    BY <2>1, <2>5 DEF Recording, IsTx
  <2>7. CASE ~Distributed \/ chain = Nobody
    <3>1. A!Notes(r, held) /\ locks' = locks /\ chain' = (IF Distributed THEN r ELSE chain)
      BY <1>3, <2>3, <2>7 DEF A!_acquire_distributed_audit_chain_lock, A!Goes
    <3>2. Recording(r, held)'
      BY <2>1, <2>4, <3>1 DEF Recording, IsTx
    <3>3. chain' = chain \/ (Distributed /\ chain \in {r, Nobody})
      BY <2>7, <3>1
    <3> QED
      BY <1>l, <2>1, <3>1, <3>2, <3>3, RecorderMoves DEF AuditInv
  <2>8. CASE Distributed /\ chain # Nobody
    <3>1. A!Notes(r, over) /\ locks' = [locks EXCEPT ![ProcessOf[r]] = Nobody] /\ chain' = chain
      BY <1>3, <2>5, <2>8 DEF A!_acquire_distributed_audit_chain_lock, A!Goes
    <3>2. Recording(r, over)'
      BY <2>6 DEF Recording, IsTx
    <3>3. locks' = [p \in A!Processes |-> locks'[p]]
          /\ \A p \in A!Processes \ {ProcessOf[r]} : locks'[p] = locks[p]
      BY <3>1 DEF AuditInv
    <3>4. \A q \in Recorders \ {r} : locks[ProcessOf[q]] = q => locks'[ProcessOf[q]] = q
      BY <2>1, <3>3 DEF Recording, A!Processes, A!Requests
    <3> QED
      BY <1>l, <2>1, <3>1, <3>2, <3>3, <3>4, RecorderMoves DEF AuditInv
  <2> QED
    BY <2>7, <2>8
<1>4. ASSUME NEW r \in Recorders, A!ReadsLatest(r) PROVE AuditInv'
  <2>1. Recording(r, txs[r]) /\ txs[r].at = "held" /\ UNCHANGED <<log, locks, chain>>
    BY <1>4 DEF AuditInv, A!ReadsLatest, A!At
  <2>2. txs[r].own = {}
    BY <1>4 DEF A!ReadsLatest
  <2>3. txs[r].start = 0
    BY <2>1, <2>2 DEF Recording
  <2>4. PICK x : x = [txs[r] EXCEPT !.at = "read", !.prev = A!_latest_hash(r), !.start = clock + 1]
    OBVIOUS
  <2>5. clock' = clock + 1 /\ A!Notes(r, x)
    <3>1. [txs[r] EXCEPT !.at = "read", !.prev = A!_latest_hash(r),
                         !.start = IF txs[r].start = 0 THEN clock + 1 ELSE @] = x
      BY <2>3, <2>4
    <3> QED
      BY <1>4, <2>3, <3>1 DEF A!ReadsLatest
  <2>6. IsTx(x) /\ x.at = "read" /\ x.own = {} /\ x.start = clock + 1 /\ x.prev = A!_latest_hash(r)
    BY <2>1, <2>2, <2>4 DEF Recording, IsTx
  <2>7. Follows(x.prev)
    BY <2>2, <2>6, LatestFollows
  <2>8. LogChained'
    BY <2>1, <2>5 DEF AuditInv, LogChained, Written, A!IsOrdered
  <2>9. \A a \in log : a.created < clock + 1
    BY DEF AuditInv, LogChained
  <2>10. clock \in Nat
    BY DEF AuditInv
  <2>11. Recording(r, x)'
    BY <2>1, <2>5, <2>6, <2>7, <2>9, <2>10 DEF Recording, IsTx, Follows
  <2> QED
    BY <2>1, <2>5, <2>8, <2>10, <2>11, RecorderMoves DEF AuditInv
<1>5. ASSUME NEW r \in Recorders, A!Inserts(r) PROVE AuditInv'
  <2>1. Recording(r, txs[r]) /\ txs[r].at = "read" /\ txs[r].own = {}
        /\ UNCHANGED <<log, clock, locks, chain>>
    BY <1>5 DEF AuditInv, A!Inserts, A!At, Recording
  <2>2. PICK id \in Ids :
          /\ \A b \in log : b.id # id
          /\ A!Notes(r, [txs[r] EXCEPT !.at = "held", !.prev = Nobody,
                         !.own = @ \union {[id |-> id, hash |-> id, prev |-> txs[r].prev,
                                            created |-> txs[r].start, intact |-> TRUE]}])
    BY <1>5 DEF A!Inserts
  <2>3. PICK a : a = [id |-> id, hash |-> id, prev |-> txs[r].prev, created |-> txs[r].start, intact |-> TRUE]
    OBVIOUS
  <2>4. PICK x : x = [txs[r] EXCEPT !.at = "held", !.prev = Nobody, !.own = @ \union {a}]
    OBVIOUS
  <2>5. A!Notes(r, x)
    BY <2>2, <2>3, <2>4
  <2>6. IsTx(x) /\ x.at = "held" /\ x.own = {a} /\ x.start = txs[r].start
    BY <2>1, <2>4 DEF Recording, IsTx
  <2>7. a.id = id /\ a.hash = id /\ a.prev = txs[r].prev /\ a.created = txs[r].start /\ a.intact
    BY <2>3
  <2>8. MayFollow(a, x.start)
    BY <2>1, <2>2, <2>6, <2>7 DEF MayFollow, Recording
  <2>9. MayFollow(a, x.start)'
    BY <2>1, <2>8 DEF MayFollow, Follows
  <2>10. Recording(r, x)'
    BY <2>1, <2>6, <2>9 DEF Recording, IsTx
  <2> QED
    BY <1>l, <2>1, <2>5, <2>10, RecorderMoves DEF AuditInv
<1>6. ASSUME NEW r \in Recorders, NEW committed, A!EndsTransaction(r, committed), LogChained',
             log' = log \/ txs[r].at \in {"held", "read"}
      PROVE  AuditInv'
  <2>1. Recording(r, txs[r]) /\ UNCHANGED <<clock, chain>>
    BY <1>6 DEF AuditInv, A!EndsTransaction
  <2>2. PICK x : x = [txs[r] EXCEPT !.at = IF chain = r THEN "release" ELSE "done", !.own = {}]
    OBVIOUS
  <2>3. IsTx(x) /\ x.at = (IF chain = r THEN "release" ELSE "done") /\ x.own = {}
    BY <2>1, <2>2 DEF Recording, IsTx
  <2>4. Recording(r, x)'
    BY <2>1, <2>3 DEF Recording, IsTx
  <2>5. locks' = [p \in A!Processes |-> locks'[p]]
        /\ \A q \in Recorders \ {r} : locks[ProcessOf[q]] = q => locks'[ProcessOf[q]] = q
    BY <1>6 DEF A!EndsTransaction, AuditInv, A!Processes, A!Requests
  <2>6. A!Notes(r, x)
    BY <1>6, <2>2 DEF A!EndsTransaction
  <2> QED
    BY <1>6, <2>1, <2>4, <2>5, <2>6, RecorderMoves DEF AuditInv
<1>7. ASSUME NEW r \in Recorders, A!Commits(r) PROVE AuditInv'
  <2>1. Recording(r, txs[r]) /\ txs[r].own # {} /\ txs[r].at = "held"
        /\ A!EndsTransaction(r, txs[r].own)
    BY <1>7 DEF AuditInv, A!Commits, A!At
  <2>2. PICK a : txs[r].own = {a} /\ MayFollow(a, txs[r].start)
    BY <2>1 DEF Recording
  <2>3. log' = log \union {a} /\ clock' = clock
    BY <2>1, <2>2 DEF A!EndsTransaction
  <2>4. txs[r].start \in Nat /\ txs[r].start <= clock /\ \A b \in log : b.created < txs[r].start
    BY <2>1 DEF Recording
  <2>5. LogChained'
    BY <2>2, <2>3, <2>4, LogGrows
  <2> QED
    BY <1>6, <2>1, <2>5
<1>8. ASSUME NEW r \in Recorders, A!RollsBack(r) PROVE AuditInv'
  <2>1. A!EndsTransaction(r, {}) /\ log' = log /\ clock' = clock
    BY <1>8 DEF A!RollsBack, A!EndsTransaction
  <2> QED
    BY <1>6, <1>l, <2>1
<1>9. ASSUME NEW r \in Recorders, A!ReleasesDistributed(r) PROVE AuditInv'
  <2>1. Recording(r, txs[r]) /\ txs[r].at = "release" /\ UNCHANGED <<log, clock, locks>> /\ chain' = Nobody
    BY <1>9 DEF AuditInv, A!ReleasesDistributed, A!At
  <2>2. PICK x : x = [txs[r] EXCEPT !.at = "done"]
    OBVIOUS
  <2>3. IsTx(x) /\ x.at = "done" /\ x.own = {}
    BY <2>1, <2>2 DEF Recording, IsTx
  <2>4. Recording(r, x)'
    BY <2>3 DEF Recording, IsTx
  <2>5. Distributed /\ chain = r
    BY <2>1 DEF Recording, AuditInv, Serialized, Apart
  <2>6. A!Notes(r, x)
    BY <1>9, <2>2 DEF A!ReleasesDistributed, A!Goes
  <2> QED
    BY <1>l, <2>1, <2>4, <2>5, <2>6, RecorderMoves DEF AuditInv
<1>10. ASSUME NEW r \in Exporters, NEW id, A!ExportReads(r, id) PROVE AuditInv'
  <2>1. CASE A!_verify_hash_chain(log) # {}
    BY <1>10, <1>e, <1>a, <2>1 DEF A!ExportReads
  <2>2. CASE A!_verify_hash_chain(log) = {}
    BY <1>10, <1>e, <1>a, <2>2 DEF A!ExportReads
  <2> QED
    BY <2>1, <2>2
<1>11. ASSUME NEW r \in Exporters, A!ExportInserts(r) PROVE AuditInv'
  BY <1>11, <1>e, <1>a DEF A!ExportInserts, A!Goes
<1>12. ASSUME NEW r \in Exporters, A!SinkWrites(r) PROVE AuditInv'
  BY <1>12, <1>e, <1>a DEF A!SinkWrites, A!Goes
<1>13. ASSUME NEW r \in Exporters, A!ExportCommits(r) PROVE AuditInv'
  BY <1>13, <1>e, <1>a DEF A!ExportCommits, A!Goes
<1>14. ASSUME NEW r \in Exporters, A!ExportRollsBack(r) PROVE AuditInv'
  BY <1>14, <1>e, <1>a DEF A!ExportRollsBack, A!Goes
<1>15. CASE UNCHANGED A!auditVars
  <2>1. UNCHANGED <<log, clock, locks, chain, txs>>
    BY <1>15 DEF A!auditVars
  <2>2. ASSUME NEW q \in Recorders PROVE Recording(q, txs[q])'
    <3>1. PICK y : y = txs[q]
      OBVIOUS
    <3>2. Recording(q, y)'
      BY <2>1, <3>1, RecordingKept DEF AuditInv
    <3> QED
      BY <2>1, <3>1, <3>2
  <2> QED
    BY <1>l, <2>1, <2>2 DEF AuditInv
<1>16. ASSUME NEW r \in Retainers, NEW cutoff, A!RetentionReads(r, cutoff) PROVE AuditInv'
  BY <1>16, <1>e, <1>a DEF A!RetentionReads
<1>17. ASSUME NEW r \in Retainers, A!RetentionDeletes(r) PROVE AuditInv'
  BY <1>17 DEF A!RetentionDeletes
<1> QED
  BY <1>1, <1>2, <1>3, <1>4, <1>5, <1>7, <1>8, <1>9, <1>10, <1>11, <1>12, <1>13, <1>14, <1>15,
     <1>16, <1>17
  DEF A!Next, A!RequestStep

(* A transaction that departed from one record at its start, and a deletion,    *)
(* are never forgotten.                                                         *)
LEMMA PlainBefore ==
  ASSUME [A!Next]_A!auditVars, plain' PROVE plain
BY DEF A!Next, A!RequestStep, A!Begins, A!_acquire_audit_chain_lock,
       A!_acquire_distributed_audit_chain_lock, A!ReadsLatest, A!Inserts, A!EndsTransaction, A!Commits,
       A!RollsBack, A!ReleasesDistributed, A!ExportReads, A!ExportInserts, A!SinkWrites,
       A!ExportCommits, A!ExportRollsBack, A!RetentionReads, A!RetentionDeletes, A!auditVars

(* While each record is the first statement and the only record of its          *)
(* transaction and nothing was deleted, however many requests record, commit    *)
(* and roll back at once, exports run beside them, and the ids fall, the        *)
(* committed log is one chain, if one process or a shared lock serves them      *)
(* (AuditService.record under the chain locks).                                 *)
THEOREM LogForksForCause ==
  ASSUME Apart
  PROVE  A!Spec => []OneChainWhilePlain
<1> DEFINE Forkless == plain /\ A!Together => AuditInv
<1>1. Forkless => OneChainWhilePlain
  BY DEF AuditInv, LogChained, Written, A!OneChain, A!IsChain, A!OneChainWhilePlain,
         OneChainWhilePlain
<1>2. Forkless /\ [A!Next]_A!auditVars => Forkless'
  <2> SUFFICES ASSUME Forkless, [A!Next]_A!auditVars, plain', A!Together PROVE AuditInv'
    OBVIOUS
  <2>1. AuditInv
    BY PlainBefore
  <2>2. Serialized
    BY DEF Serialized, A!Together
  <2> HIDE DEF Forkless
  <2> QED
    BY <2>1, <2>2, AuditNext
<1>3. A!Init => Forkless
  BY AuditInit
<1> HIDE DEF Forkless
<1> QED
  BY <1>1, <1>2, <1>3, PTL DEF A!Spec

-----------------------------------------------------------------------------
(* Exports: the walk from the root, which the code verifies and writes, is   *)
(* the one order of a chain.                                                 *)

\* w holds the walk from its first lines, step by step.
Walking(logs, N, first, w) ==
  w = [n \in 1 .. N |-> IF n = 1 THEN first ELSE A!Longer(logs, w[n - 1])]

(* A walk of n steps is one of n - 1 with a step more.                       *)
LEMMA WalkExists ==
  ASSUME NEW logs, NEW N \in Nat, NEW first
  PROVE  \E w : Walking(logs, N, first, w)
<1> DEFINE Walks(m) == \E w : Walking(logs, m, first, w)
           Bad == {m \in Nat : ~Walks(m)}
<1> SUFFICES Bad = {}
  OBVIOUS
<1> SUFFICES ASSUME Bad # {} PROVE FALSE
  OBVIOUS
<1>1. PICK m \in Bad : \A k \in Bad : ~(<<k, m>> \in OpToRel(<, Nat))
  <2>1. Bad \subseteq Nat
    OBVIOUS
  <2> HIDE DEF Bad
  <2> QED
    BY <2>1, NatLessThanWellFounded, WFMin
<1>2. m \in Nat /\ \A k \in Nat : k < m => k \notin Bad
  BY <1>1 DEF OpToRel
<1>5. /\ m \in Nat /\ ~Walks(m)
      /\ \A k \in Nat : k < m => Walks(k)
  BY <1>1, <1>2
<1> HIDE DEF Bad
<1>3. CASE m = 0
  <2> DEFINE w == [n \in 1 .. 0 |-> 0]
  <2>1. Walking(logs, 0, first, w)
    BY DEF Walking
  <2> QED
    BY <2>1, <1>5, <1>3
<1>4. CASE m # 0
  <2>0. m - 1 \in Nat /\ m - 1 < m
    BY <1>5, <1>4
  <2>1. Walks(m - 1)
    <3> HIDE DEF Walks
    <3> QED
      BY <2>0, <1>5
  <2>2. PICK w : Walking(logs, m - 1, first, w)
    BY <2>1
  <2> PICK v : v = [n \in 1 .. m |-> IF n = 1 THEN first ELSE A!Longer(logs, w[n - 1])]
    OBVIOUS
  <2>3. \A n \in 1 .. m : n # 1 => n - 1 \in 1 .. (m - 1) /\ n - 1 \in 1 .. m
    BY <1>2
  <2>4. \A n \in 1 .. m : n # 1 => v[n - 1] = w[n - 1]
    BY <2>2, <2>3 DEF Walking
  <2>5. Walking(logs, m, first, v)
    BY <2>4 DEF Walking
  <2> QED
    BY <2>5, <1>5
<1> QED
  BY <1>3, <1>4

LEMMA WalkUnfolds ==
  ASSUME NEW logs, Cardinality(logs) \in Nat
  PROVE  \E w : /\ Walking(logs, Cardinality(logs), <<CHOOSE a \in A!Roots(logs) : TRUE>>, w)
                /\ A!Walk(logs) = w[Cardinality(logs)]
<1>1. \E w : Walking(logs, Cardinality(logs), <<CHOOSE a \in A!Roots(logs) : TRUE>>, w)
  BY WalkExists
<1>2. A!Walk(logs) =
        (CHOOSE w : Walking(logs, Cardinality(logs), <<CHOOSE a \in A!Roots(logs) : TRUE>>, w))[Cardinality(logs)]
  BY SameCardinality DEF A!Walk, Walking
<1> QED
  BY <1>1, <1>2

LEMMA OneLine == \A S : \A x \in S : <<x>> \in [1 .. 1 -> S] /\ <<x>>[1] = x
OBVIOUS

(* A set of one record as a sequence.                                        *)
LEMMA OneRecord == \A x : A!SetToSeq({x}) = <<x>>
<1> TAKE x
<1>1. Cardinality({x}) = 1
  BY FS_Singleton
<1>2. A!SetToSeq({x}) = CHOOSE f \in [1 .. 1 -> {x}] : A!IsInjective(f)
  BY <1>1, SameCardinality DEF A!SetToSeq
<1>3. \A f \in [1 .. 1 -> {x}] : f = <<x>>
  OBVIOUS
<1>4. A!IsInjective(<<x>>) /\ <<x>> \in [1 .. 1 -> {x}]
  BY DEF A!IsInjective
<1>5. \E f \in [1 .. 1 -> {x}] : A!IsInjective(f)
  BY <1>4
<1>6. (CHOOSE f \in [1 .. 1 -> {x}] : A!IsInjective(f)) \in [1 .. 1 -> {x}]
  BY <1>5
<1> QED
  BY <1>2, <1>3, <1>6

Extended(l, m, x) == [i \in 1 .. m + 1 |-> IF i = m + 1 THEN x ELSE l[i]]

(* A step of the walk takes the only child, if it is not visited yet.        *)
LEMMA LongerLine ==
  ASSUME NEW logs, IsFiniteSet(logs), NEW m \in Nat \ {0}, NEW l \in [1 .. m -> logs]
  PROVE  /\ \/ A!Longer(logs, l) = l
            \/ \E x \in logs : /\ x.prev = l[m].hash /\ \A i \in 1 .. m : l[i] # x
                               /\ A!Longer(logs, l) = Extended(l, m, x)
         /\ \A x \in logs : A!Children(logs, l[m].hash) = {x} /\ (\A i \in 1 .. m : l[i] # x)
              => A!Longer(logs, l) = Extended(l, m, x)
<1> PICK next : next = A!Children(logs, l[m].hash)
  OBVIOUS
<1>1. l \in Seq(logs) /\ Len(l) = m /\ A!Last(l) = l[m]
  BY DEF A!Last
<1>2. A!Range(l) = {l[i] : i \in 1 .. m}
  BY DEF A!Range
<1>3. A!Longer(logs, l) = IF Cardinality(next) = 1 /\ next \cap A!Range(l) = {}
                          THEN l \o A!SetToSeq(next) ELSE l
  BY <1>1, SameCardinality DEF A!Longer
<1>4. next \subseteq logs /\ IsFiniteSet(next) /\ \A x \in next : x.prev = l[m].hash
  BY FS_Subset DEF A!Children
<1>5. ASSUME NEW x \in logs PROVE l \o <<x>> = Extended(l, m, x)
  <2>1. l \o <<x>> \in Seq(logs) /\ Len(l \o <<x>>) = m + 1
    BY <1>1
  <2>2. \A i \in 1 .. m + 1 : (l \o <<x>>)[i] = IF i = m + 1 THEN x ELSE l[i]
    BY <1>1
  <2> QED
    BY <2>1, <2>2 DEF Extended
<1>6. ASSUME NEW x \in logs, next = {x}, \A i \in 1 .. m : l[i] # x
      PROVE  A!Longer(logs, l) = Extended(l, m, x)
  <2>2. Cardinality({x}) = 1
    BY FS_Singleton
  <2>3. x \notin A!Range(l)
    BY <1>2, <1>6
  <2>1. next \cap A!Range(l) = {} /\ Cardinality(next) = 1
    BY <1>6, <2>2, <2>3
  <2> QED
    BY <2>1, <1>3, <1>5, <1>6, OneRecord
<1>7. ASSUME Cardinality(next) = 1, next \cap A!Range(l) = {}
      PROVE  \E x \in logs : /\ x.prev = l[m].hash /\ \A i \in 1 .. m : l[i] # x
                             /\ A!Longer(logs, l) = Extended(l, m, x)
  <2>1. PICK x : next = {x}
    BY <1>4, <1>7, FS_Singleton
  <2>2. x \in logs /\ x.prev = l[m].hash
    BY <2>1, <1>4
  <2>3. \A i \in 1 .. m : l[i] # x
    BY <2>1, <1>2, <1>7
  <2> QED
    BY <2>1, <2>2, <2>3, <1>6
<1> QED
  BY <1>3, <1>6, <1>7

\* m different records, each of which names the one before.
Line(logs, l, m) ==
  /\ m \in Nat \ {0} /\ l \in [1 .. m -> logs]
  /\ l[1] \in A!Roots(logs)
  /\ \A i \in 2 .. m : l[i].prev = l[i - 1].hash
  /\ \A i, j \in 1 .. m : l[i] = l[j] => i = j

LEMMA LineExtended ==
  ASSUME NEW logs, NEW l, NEW m, Line(logs, l, m), NEW x \in logs, x.prev = l[m].hash,
         \A i \in 1 .. m : l[i] # x
  PROVE  Line(logs, Extended(l, m, x), m + 1)
<1> PICK v : v = Extended(l, m, x)
  OBVIOUS
<1>0. m \in Nat \ {0}
  BY DEF Line
<1>1. v \in [1 .. m + 1 -> logs] /\ v[m + 1] = x /\ \A i \in 1 .. m : v[i] = l[i]
  BY <1>0 DEF Line, Extended
<1>2. v[1] \in A!Roots(logs)
  BY <1>0, <1>1 DEF Line
<1>3. ASSUME NEW i \in 2 .. m + 1 PROVE v[i].prev = v[i - 1].hash
  <2>1. CASE i = m + 1
    BY <2>1, <1>0, <1>1
  <2>2. CASE i # m + 1
    <3>1. i \in 2 .. m /\ i \in 1 .. m /\ i - 1 \in 1 .. m
      BY <1>0, <2>2
    <3> QED
      BY <3>1, <1>1 DEF Line
  <2> QED
    BY <2>1, <2>2
<1>4. ASSUME NEW i \in 1 .. m + 1, NEW j \in 1 .. m + 1, v[i] = v[j] PROVE i = j
  <2>1. \A k \in 1 .. m + 1 : k = m + 1 \/ k \in 1 .. m
    BY <1>0
  <2> QED
    BY <2>1, <1>1, <1>4 DEF Line
<1> QED
  BY <1>0, <1>1, <1>2, <1>3, <1>4 DEF Line

(* Whatever is walked is a line of different records that starts at a root.  *)
LEMMA WalkIsLine ==
  ASSUME NEW logs, IsFiniteSet(logs), A!Roots(logs) # {}
  PROVE  \E m : Line(logs, A!Walk(logs), m)
<1> PICK N : N = Cardinality(logs)
  OBVIOUS
<1> PICK root : root = CHOOSE a \in A!Roots(logs) : TRUE
  OBVIOUS
<1>0. root \in A!Roots(logs) /\ root \in logs
  BY DEF A!Roots
<1>1. N \in Nat \ {0}
  BY <1>0, FS_CardinalityType, FS_EmptySet
<1>2. PICK w : Walking(logs, N, <<root>>, w) /\ A!Walk(logs) = w[N]
  BY <1>1, WalkUnfolds
<1>3. w[1] = <<root>> /\ \A n \in 2 .. N : w[n] = A!Longer(logs, w[n - 1])
  <2>1. 1 \in 1 .. N /\ \A n \in 2 .. N : n \in 1 .. N /\ n # 1
    BY <1>1
  <2> PICK first : first = <<root>>
    OBVIOUS
  <2>2. Walking(logs, N, first, w)
    BY <1>2
  <2>3. ASSUME NEW n \in 1 .. N
        PROVE  (n = 1 => w[n] = first) /\ (n # 1 => w[n] = A!Longer(logs, w[n - 1]))
    <3>1. w[n] = IF n = 1 THEN first ELSE A!Longer(logs, w[n - 1])
      BY <2>2, Zenon DEF Walking
    <3> QED
      BY <3>1
  <2> QED
    BY <2>1, <2>3
<1>4. Line(logs, <<root>>, 1)
  <2> PICK l : l = <<root>>
    OBVIOUS
  <2>1. l \in [1 .. 1 -> logs] /\ l[1] = root
    BY <1>0, OneLine
  <2>2. /\ \A i \in 2 .. 1 : l[i].prev = l[i - 1].hash
        /\ \A i, j \in 1 .. 1 : l[i] = l[j] => i = j
    OBVIOUS
  <2>3. Line(logs, l, 1)
    BY <1>0, <2>1, <2>2 DEF Line
  <2> QED
    BY <2>3
<1> DEFINE Fine(n) == \E m : Line(logs, w[n], m)
           Bad == {n \in 1 .. N : ~Fine(n)}
<1>5. ASSUME Bad # {} PROVE FALSE
  <2>1. PICK n \in Bad : \A k \in Bad : ~(<<k, n>> \in OpToRel(<, Nat))
    <3>1. Bad \subseteq Nat
      BY <1>1
    <3> HIDE DEF Bad
    <3> QED
      BY <3>1, <1>5, NatLessThanWellFounded, WFMin
  <2>2. n \in 1 .. N /\ ~Fine(n)
    BY <2>1
  <2>3. ASSUME NEW k \in 1 .. N, k < n PROVE Fine(k)
    <3>1. k \in Nat /\ n \in Nat
      BY <1>1, <2>2
    <3>2. <<k, n>> \in OpToRel(<, Nat)
      BY <2>3, <3>1 DEF OpToRel
    <3> QED
      BY <2>1, <2>3, <3>2
  <2>4. n # 1
    BY <2>2, <1>3, <1>4
  <2>5. n - 1 \in 1 .. N /\ n - 1 < n /\ n \in 2 .. N
    BY <2>2, <2>4, <1>1
  <2>6. PICK m : Line(logs, w[n - 1], m)
    BY <2>3, <2>5
  <2>7. Line(logs, w[n], m) \/ \E x : Line(logs, Extended(w[n - 1], m, x), m + 1) /\ w[n] = Extended(w[n - 1], m, x)
    <3> PICK l : l = w[n - 1]
      OBVIOUS
    <3>1. m \in Nat \ {0} /\ l \in [1 .. m -> logs]
      BY <2>6 DEF Line
    <3>2. w[n] = A!Longer(logs, l)
      BY <2>5, <1>3
    <3> QED
      BY <2>6, <3>1, <3>2, LongerLine, LineExtended
  <2> QED
    BY <2>2, <2>7
<1>6. Fine(N)
  BY <1>1, <1>5
<1> QED
  BY <1>2, <1>6

\* What the checks of the log find when they find nothing.
Sane(logs) ==
  /\ \A a \in logs : a.intact /\ a.prev \in A!Hashes(logs) \union {Nobody}
  /\ \A a, b \in logs : a.hash = b.hash => a = b
  /\ \A h \in A!Hashes(logs) : ~(Cardinality(A!Children(logs, h)) > 1)

LEMMA NoErrors ==
  ASSUME NEW logs, Cardinality(A!Roots(logs)) = 1
  PROVE  A!Errors(logs) = {} <=> Sane(logs)
<1>1. A!Errors(logs) = {} => Sane(logs)
  <2> SUFFICES ASSUME A!Errors(logs) = {} PROVE Sane(logs)
    OBVIOUS
  <2>1. ASSUME NEW a \in logs PROVE a.intact /\ a.prev \in A!Hashes(logs) \union {Nobody}
    BY DEF A!Errors
  <2>2. ASSUME NEW a \in logs, NEW b \in logs, a.hash = b.hash PROVE a = b
    BY <2>2 DEF A!Errors
  <2>3. ASSUME NEW h \in A!Hashes(logs) PROVE ~(Cardinality(A!Children(logs, h)) > 1)
    BY SameCardinality DEF A!Errors
  <2> QED
    BY <2>1, <2>2, <2>3 DEF Sane
<1>2. Sane(logs) => A!Errors(logs) = {}
  BY SameCardinality DEF A!Errors, Sane
<1> QED
  BY <1>1, <1>2

\* The records of a walk that found everything.
LEMMA FoundAll ==
  ASSUME NEW logs, IsFiniteSet(logs), Sane(logs), NEW l, NEW m, Line(logs, l, m),
         Cardinality(A!Hashes(A!Range(l))) = Cardinality(logs)
  PROVE  A!IsOrdered(l) /\ A!Range(l) = logs /\ Len(l) = Cardinality(logs)
<1>0. m \in Nat \ {0} /\ l \in [1 .. m -> logs] /\ DOMAIN l = 1 .. m
  BY DEF Line
<1> PICK X : X = {l[i] : i \in 1 .. m}
  OBVIOUS
<1>1. A!Range(l) = X /\ X \subseteq logs
  BY <1>0 DEF A!Range
<1>2. IsFiniteSet(X) /\ Cardinality(X) <= Cardinality(logs)
  BY <1>1, FS_Subset
<1>3. Cardinality(A!Hashes(X)) <= Cardinality(X)
  <2> PICK f : f = [a \in X |-> a.hash]
    OBVIOUS
  <2>1. f \in Surjection(X, A!Hashes(X))
    BY DEF Surjection, A!Hashes
  <2> QED
    BY <2>1, <1>2, FS_Surjection
<1>4. X = logs
  <2>1. Cardinality(X) \in Nat /\ Cardinality(logs) \in Nat
    BY <1>2, FS_CardinalityType
  <2>2. Cardinality(X) = Cardinality(logs)
    <3>1. Cardinality(A!Hashes(X)) = Cardinality(logs)
      BY <1>1
    <3> QED
      BY <2>1, <3>1, <1>2, <1>3
  <2> QED
    BY <2>2, <1>1, FS_Subset
<1>5. Cardinality(logs) = m
  <2>1. l \in Bijection(1 .. m, logs)
    BY <1>0, <1>4 DEF Line, Bijection, Injection, Surjection, IsInjective
  <2> QED
    BY <2>1, <1>0, FS_CountingElements DEF ExistsBijection
<1>6. Len(l) = m
  BY <1>0
<1>7. A!IsOrdered(l)
  <2> SUFFICES ASSUME NEW i \in 1 .. m
               PROVE  /\ l[i].intact
                      /\ l[i].prev = (IF i = 1 THEN Nobody ELSE l[i - 1].hash)
                      /\ \A j \in 1 .. i - 1 : l[j].hash # l[i].hash
    BY <1>0 DEF A!IsOrdered
  <2>1. l[i] \in logs /\ l[i].intact
    BY <1>0 DEF Sane
  <2>2. i # 1 => i \in 2 .. m
    BY <1>0
  <2>3. l[i].prev = (IF i = 1 THEN Nobody ELSE l[i - 1].hash)
    BY <2>2 DEF Line, A!Roots
  <2>4. ASSUME NEW j \in 1 .. i - 1 PROVE l[j].hash # l[i].hash
    <3>1. j \in 1 .. m /\ j # i
      BY <1>0
    <3>2. l[j] \in logs /\ l[j] # l[i]
      BY <3>1, <1>0 DEF Line
    <3> QED
      BY <2>1, <3>2 DEF Sane
  <2> QED
    BY <2>1, <2>3, <2>4
<1> QED
  BY <1>1, <1>4, <1>5, <1>6, <1>7

(* What is verified is exported whole and in order (_verify_hash_chain,      *)
(* _order_valid_hash_chain).                                                 *)
LEMMA VerifiedIsWhole ==
  ASSUME NEW logs, IsFiniteSet(logs), A!_verify_hash_chain(logs) = {}
  PROVE  /\ A!IsOrdered(A!_order_valid_hash_chain(logs))
         /\ A!Range(A!_order_valid_hash_chain(logs)) = logs
         /\ Len(A!_order_valid_hash_chain(logs)) = Cardinality(logs)
<1>1. CASE logs = {}
  <2>1. A!_order_valid_hash_chain(logs) = << >>
    BY <1>1 DEF A!_order_valid_hash_chain
  <2> QED
    BY <2>1, <1>1, FS_EmptySet DEF A!IsOrdered, A!Range
<1>2. CASE logs # {}
  <2>1. Cardinality(A!Roots(logs)) = 1
    <3>1. ASSUME Cardinality(A!Roots(logs)) # 1 PROVE FALSE
      <4>1. A!_verify_hash_chain(logs) = A!Errors(logs)
        BY <1>2, <3>1, SameCardinality DEF A!_verify_hash_chain
      <4>2. "invalid_root_count" \in A!Errors(logs)
        BY <3>1, SameCardinality DEF A!Errors
      <4> QED
        BY <4>1, <4>2
    <3> QED
      BY <3>1
  <2>2. /\ A!Errors(logs) = {}
        /\ Cardinality(A!Hashes(A!Range(A!Walk(logs)))) = Cardinality(logs)
    BY <1>2, <2>1, SameCardinality DEF A!_verify_hash_chain
  <2>3. A!Roots(logs) # {}
    BY <2>1, FS_EmptySet
  <2>4. PICK m : Line(logs, A!Walk(logs), m)
    BY <2>3, WalkIsLine
  <2>5. A!_order_valid_hash_chain(logs) = A!Walk(logs)
    BY <1>2 DEF A!_order_valid_hash_chain
  <2> QED
    BY <2>1, <2>2, <2>4, <2>5, NoErrors, FoundAll
<1> QED
  BY <1>1, <1>2

(* The only child of the last line, not visited yet, is the next line.       *)
LEMMA LongerByOne ==
  ASSUME NEW logs, IsFiniteSet(logs), NEW m \in Nat \ {0}, NEW l \in [1 .. m -> logs],
         NEW x \in logs, A!Children(logs, l[m].hash) = {x}, \A i \in 1 .. m : l[i] # x
  PROVE  A!Longer(logs, l) = Extended(l, m, x)
BY LongerLine

(* The walk of a chain is the chain.                                         *)
LEMMA WalkOfChain ==
  ASSUME NEW logs, IsFiniteSet(logs), NEW N \in Nat \ {0}, Cardinality(logs) = N,
         NEW l \in [1 .. N -> logs], Sane(logs), A!Roots(logs) = {l[1]},
         \A i \in 2 .. N : l[i].prev = l[i - 1].hash,
         \A i, j \in 1 .. N : l[i] = l[j] => i = j
  PROVE  A!Walk(logs) = l
<1> DEFINE Upto(n) == [i \in 1 .. n |-> l[i]]
<1> PICK first : first = <<CHOOSE a \in A!Roots(logs) : TRUE>>
  OBVIOUS
<1>1. PICK w : Walking(logs, N, first, w) /\ A!Walk(logs) = w[N]
  BY WalkUnfolds
<1>2. \A n \in 1 .. N : (n = 1 => w[n] = first) /\ (n # 1 => w[n] = A!Longer(logs, w[n - 1]))
  BY <1>1, Zenon DEF Walking
<1>3. first = Upto(1)
  <2> PICK x : x = l[1]
    OBVIOUS
  <2>1. (CHOOSE a \in A!Roots(logs) : TRUE) = x
    OBVIOUS
  <2>2. first = <<x>>
    BY <2>1
  <2>3. <<x>> = [i \in 1 .. 1 |-> x]
    OBVIOUS
  <2>4. [i \in 1 .. 1 |-> x] = [i \in 1 .. 1 |-> l[i]]
    BY \A i \in 1 .. 1 : l[i] = x
  <2> QED
    BY <2>2, <2>3, <2>4
<1>4. ASSUME NEW n \in 2 .. N, w[n - 1] = Upto(n - 1) PROVE w[n] = Upto(n)
  <2>0. n - 1 \in Nat \ {0} /\ n \in 1 .. N /\ n # 1 /\ n - 1 \in 1 .. N
    OBVIOUS
  <2> PICK m \in Nat \ {0} : m = n - 1
    BY <2>0
  <2> PICK u : u = Upto(m)
    OBVIOUS
  <2>1. u \in [1 .. m -> logs] /\ u[m] = l[m] /\ \A i \in 1 .. m : u[i] = l[i]
    BY <2>0
  <2>2. l[n] \in logs /\ l[n].prev = u[m].hash
    BY <2>0, <2>1
  <2>3. A!Children(logs, u[m].hash) = {l[n]}
    <3> PICK next : next = A!Children(logs, u[m].hash)
      OBVIOUS
    <3>1. l[n] \in next /\ next \subseteq logs /\ u[m].hash \in A!Hashes(logs)
      BY <2>0, <2>1, <2>2 DEF A!Children, A!Hashes
    <3>2. IsFiniteSet(next) /\ Cardinality(next) \in Nat /\ ~(Cardinality(next) > 1)
      BY <3>1, FS_Subset, FS_CardinalityType DEF Sane
    <3>3. Cardinality(next) # 0
      BY <3>1, <3>2, FS_EmptySet
    <3>4. Cardinality(next) = 1
      BY <3>2, <3>3
    <3>5. PICK x : next = {x}
      <4> HIDE DEF Upto
      <4> QED
        BY <3>2, <3>4, FS_Singleton
    <3> QED
      BY <3>1, <3>5
  <2>4. \A i \in 1 .. m : u[i] # l[n]
    BY <2>0, <2>1
  <2>5. A!Longer(logs, u) = Extended(u, m, l[n])
    <3> PICK x : x = l[n]
      OBVIOUS
    <3>1. x \in logs /\ A!Children(logs, u[m].hash) = {x} /\ \A i \in 1 .. m : u[i] # x
      BY <2>2, <2>3, <2>4
    <3>2. A!Longer(logs, u) = Extended(u, m, x)
      <4>1. u \in [1 .. m -> logs]
        BY <2>1
      <4>2. IsFiniteSet(logs) /\ m \in Nat \ {0} /\ x \in logs
        BY <3>1
      <4>3. A!Children(logs, u[m].hash) = {x}
        BY <3>1
      <4>4. \A i \in 1 .. m : u[i] # x
        BY <3>1
      <4>5. \A k \in Nat \ {0} : \A v \in [1 .. k -> logs] : \A y \in logs :
              A!Children(logs, v[k].hash) = {y} /\ (\A i \in 1 .. k : v[i] # y)
              => A!Longer(logs, v) = Extended(v, k, y)
        BY ONLY IsFiniteSet(logs), LongerByOne
      <4> HIDE DEF Upto
      <4> QED
        BY ONLY <4>1, <4>2, <4>3, <4>4, <4>5
    <3> QED
      BY <3>2
  <2>6. Extended(u, m, l[n]) = Upto(n)
    BY <2>0, <2>1 DEF Extended
  <2> QED
    BY <2>0, <2>5, <2>6, <1>2, <1>4
<1> DEFINE Bad == {n \in 1 .. N : w[n] # Upto(n)}
<1>5. ASSUME Bad # {} PROVE FALSE
  <2>1. PICK n \in Bad : \A k \in Bad : ~(<<k, n>> \in OpToRel(<, Nat))
    <3>1. Bad \subseteq Nat
      OBVIOUS
    <3> HIDE DEF Bad
    <3> QED
      BY <3>1, <1>5, NatLessThanWellFounded, WFMin
  <2>2. n \in 1 .. N /\ w[n] # Upto(n)
    BY <2>1
  <2>3. n # 1
    BY <2>2, <1>2, <1>3
  <2>4. n \in 2 .. N /\ n - 1 \in 1 .. N /\ n - 1 \in Nat /\ n \in Nat /\ n - 1 < n
    BY <2>2, <2>3
  <2>5. n - 1 \notin Bad
    <3>1. <<n - 1, n>> \in OpToRel(<, Nat)
      BY <2>4 DEF OpToRel
    <3> HIDE DEF Bad
    <3> QED
      BY <2>1, <3>1
  <2> QED
    BY <2>2, <2>4, <2>5, <1>4
<1>6. w[N] = Upto(N)
  BY <1>5
<1> QED
  BY <1>1, <1>6

(* What is one chain passes the checks.                                      *)
LEMMA ChainIsVerified ==
  ASSUME NEW logs, IsFiniteSet(logs), \A a \in logs : a.hash # Nobody, A!IsChain(logs)
  PROVE  A!_verify_hash_chain(logs) = {}
<1>1. CASE logs = {}
  BY <1>1 DEF A!_verify_hash_chain
<1>2. CASE logs # {}
  <2> PICK N : N = Cardinality(logs)
    OBVIOUS
  <2>1. N \in Nat \ {0}
    BY <1>2, FS_CardinalityType, FS_EmptySet
  <2>2. PICK l \in [1 .. N -> logs] :
          /\ \A i, j \in 1 .. N : i # j => l[i] # l[j]
          /\ A!IsOrdered(l)
    BY SameCardinality DEF A!IsChain, A!SetToSeqs
  <2>3. /\ \A i \in 1 .. N : l[i].intact /\ l[i].prev = (IF i = 1 THEN Nobody ELSE l[i - 1].hash)
        /\ \A i \in 1 .. N : \A j \in 1 .. i - 1 : l[j].hash # l[i].hash
    BY <2>2 DEF A!IsOrdered
  <2>4. \A a \in logs : \E i \in 1 .. N : a = l[i]
    <3>1. l \in Injection(1 .. N, logs)
      BY <2>2 DEF Injection, IsInjective
    <3>2. IsFiniteSet(1 .. N) /\ Cardinality(1 .. N) = N
      BY <2>1, FS_Interval
    <3>3. l \in Surjection(1 .. N, logs)
      BY <3>1, <3>2, FS_Injection
    <3> QED
      BY <3>3 DEF Surjection
  <2>5. \A i, j \in 1 .. N : l[i].hash = l[j].hash => i = j
    <3> SUFFICES ASSUME NEW i \in 1 .. N, NEW j \in 1 .. N, i # j PROVE l[i].hash # l[j].hash
      OBVIOUS
    <3>1. i \in 1 .. j - 1 \/ j \in 1 .. i - 1
      BY <2>1
    <3> QED
      BY <3>1, <2>3
  <2>6. A!Roots(logs) = {l[1]}
    <3>1. 1 \in 1 .. N /\ \A i \in 1 .. N : i # 1 => i - 1 \in 1 .. N
      BY <2>1
    <3>2. \A i \in 1 .. N : l[i] \in logs /\ (l[i].prev = Nobody <=> i = 1)
      BY <2>3, <3>1
    <3> QED
      BY <3>1, <3>2, <2>4 DEF A!Roots
  <2>7. Sane(logs)
    <3>1. ASSUME NEW a \in logs PROVE a.intact /\ a.prev \in A!Hashes(logs) \union {Nobody}
      <4> PICK i \in 1 .. N : a = l[i]
        BY <2>4
      <4>1. i # 1 => i - 1 \in 1 .. N
        BY <2>1
      <4> QED
        BY <4>1, <2>3 DEF A!Hashes
    <3>2. ASSUME NEW a \in logs, NEW b \in logs, a.hash = b.hash PROVE a = b
      BY <3>2, <2>4, <2>5
    <3>3. ASSUME NEW h \in A!Hashes(logs) PROVE ~(Cardinality(A!Children(logs, h)) > 1)
      <4> PICK next : next = A!Children(logs, h)
        OBVIOUS
      <4>1. ASSUME NEW a \in next, NEW b \in next PROVE a = b
        <5>1. a \in logs /\ b \in logs /\ a.prev = h /\ b.prev = h /\ h # Nobody
          BY DEF A!Children, A!Hashes
        <5> PICK i \in 1 .. N : a = l[i]
          BY <5>1, <2>4
        <5> PICK j \in 1 .. N : b = l[j]
          BY <5>1, <2>4
        <5>2. i # 1 /\ j # 1 /\ l[i - 1].hash = h /\ l[j - 1].hash = h
          BY <5>1, <2>3
        <5>3. i - 1 \in 1 .. N /\ j - 1 \in 1 .. N
          BY <5>2, <2>1
        <5>4. i - 1 = j - 1
          BY <5>2, <5>3, <2>5
        <5> QED
          BY <5>4, <2>1
      <4>2. CASE next = {}
        BY <4>2, FS_EmptySet
      <4>3. CASE next # {}
        <5> PICK x : x \in next
          BY <4>3
        <5>1. next = {x}
          BY <4>1
        <5>2. Cardinality({x}) = 1
          BY FS_Singleton
        <5>3. Cardinality(next) = 1
          BY <5>1, <5>2
        <5> QED
          BY <5>3
      <4> QED
        BY <4>2, <4>3
    <3> QED
      BY <3>1, <3>2, <3>3 DEF Sane
  <2>8. Cardinality(A!Roots(logs)) = 1
    BY <2>6, FS_Singleton
  <2>9. A!Walk(logs) = l
    <3>1. \A i \in 2 .. N : l[i].prev = l[i - 1].hash
      BY <2>3
    <3> QED
      BY <2>1, <2>2, <2>6, <2>7, <3>1, WalkOfChain
  <2>10. Cardinality(A!Hashes(A!Range(l))) = N
    <3>1. A!Range(l) = logs
      BY <2>4 DEF A!Range
    <3> PICK f : f = [a \in logs |-> a.hash]
      OBVIOUS
    <3>2. f \in Bijection(logs, A!Hashes(logs))
      BY <2>7 DEF Bijection, Injection, Surjection, IsInjective, A!Hashes, Sane
    <3>3. Cardinality(A!Hashes(logs)) = Cardinality(logs)
      BY <3>2, FS_Bijection DEF ExistsBijection
    <3> QED
      BY <3>1, <3>3
  <2>11. A!Errors(logs) = {}
    BY <2>7, <2>8, NoErrors
  <2>12. A!Cardinality(A!Hashes(A!Range(A!Walk(logs)))) = A!Cardinality(logs)
    BY <2>9, <2>10, SameCardinality
  <2> QED
    BY <1>2, <2>8, <2>11, <2>12, SameCardinality DEF A!_verify_hash_chain
<1> QED
  BY <1>1, <1>2

-----------------------------------------------------------------------------
\* Records of a table, and a request that exports one.
Table(logs) == IsFiniteSet(logs) /\ \A a \in logs : a.hash # Nobody

Exporting(x) ==
  /\ IsTx(x) /\ Table(x.own) /\ Table(x.read)
  /\ x.at = "invalid" => ~A!IsChain(x.read)
  /\ x.at \in {"insert", "write", "written"} => A!IsOrdered(x.lines)
  /\ x.at = "insert" => A!Range(x.lines) = x.read /\ Len(x.lines) = Cardinality(x.read)

FileOf(fs, e) == \E f \in fs : f.export = e

ExportInv ==
  /\ txs = [r \in A!Requests |-> txs[r]]
  /\ \A r \in A!Requests : Exporting(txs[r]) /\ (txs[r].at = "written" => FileOf(files, txs[r].export))
  /\ Table(log)
  /\ \A f \in files : A!IsOrdered(f.lines)
  /\ \A e \in exports : FileOf(files, e)

(* One request goes on and no file is lost.                                  *)
LEMMA ExportFrame ==
  ASSUME ExportInv, NEW r \in A!Requests, NEW x, A!Notes(r, x), Exporting(x), Table(log)',
         files \subseteq files', \A f \in files' : A!IsOrdered(f.lines),
         x.at = "written" => FileOf(files', x.export), \A e \in exports' : FileOf(files', e)
  PROVE  ExportInv'
<1>1. txs' = [q \in A!Requests |-> txs'[q]]
  BY DEF A!Notes, ExportInv
<1>2. ASSUME NEW q \in A!Requests PROVE Exporting(txs'[q]) /\ (txs'[q].at = "written" => FileOf(files', txs'[q].export))
  <2>1. CASE q = r
    <3>1. txs'[q] = x
      BY <2>1 DEF A!Notes, ExportInv
    <3> QED
      BY <3>1
  <2>2. CASE q # r
    <3>1. txs'[q] = txs[q]
      BY <2>2 DEF A!Notes, ExportInv
    <3>2. Exporting(txs[q]) /\ (txs[q].at = "written" => FileOf(files, txs[q].export))
      BY DEF ExportInv
    <3>3. FileOf(files, txs[q].export) => FileOf(files', txs'[q].export)
      BY <3>1 DEF FileOf
    <3> QED
      BY <3>1, <3>2, <3>3
  <2> QED
    BY <2>1, <2>2
<1>3. Table(log')
  BY DEF Table
<1> QED
  BY <1>1, <1>2, <1>3 DEF ExportInv

(* What is not an export in progress leaves the files and rows alone.        *)
LEMMA ExportElsewhere ==
  ASSUME ExportInv, NEW r \in A!Requests, NEW x, A!Notes(r, x), IsTx(x),
         Table(x.own), Table(x.read), x.at \notin {"invalid", "insert", "write", "written"},
         Table(log)', UNCHANGED <<exports, files>>
  PROVE  ExportInv'
<1>1. Exporting(x)
  BY DEF Exporting
<1>2. /\ \A f \in files' : A!IsOrdered(f.lines)
      /\ \A e \in exports' : FileOf(files', e)
  BY DEF ExportInv, FileOf
<1> QED
  BY <1>1, <1>2, ExportFrame

LEMMA TablesGrow ==
  ASSUME NEW S, NEW T, Table(S)
  PROVE  /\ T \subseteq S => Table(T)
         /\ Table(T) => Table(S \union T)
         /\ \A a : a.hash # Nobody => Table(S \union {a})
  BY FS_Subset, FS_Union, FS_AddElement DEF Table

LEMMA NoTable == Table({})
BY FS_EmptySet DEF Table

LEMMA ExportInit ==
  ASSUME NEW Logs, \A logs \in Logs : Table(logs), A!InitWith(Logs) PROVE ExportInv
<1>1. PICK x : x = A!NoTx
  OBVIOUS
<1>2. IsTx(x) /\ x.at = "idle" /\ x.own = {} /\ x.read = {}
  BY <1>1 DEF IsTx, A!NoTx
<1>3. Exporting(x)
  BY <1>2, NoTable DEF Exporting
<1> QED
  BY <1>1, <1>2, <1>3 DEF A!InitWith, ExportInv

LEMMA ExportNext ==
  ASSUME Nobody \notin Ids, ExportInv, [A!Next]_A!auditVars PROVE ExportInv'
<1>s. CASE UNCHANGED A!auditVars
  BY <1>s DEF A!auditVars, ExportInv, Exporting, IsTx, Table, FileOf
<1> SUFFICES ASSUME NEW r \in A!Requests, A!RequestStep(r) PROVE ExportInv'
  BY <1>s DEF A!Next
<1> PICK t : t = txs[r]
  OBVIOUS
<1>t. /\ Exporting(t) /\ (t.at = "written" => FileOf(files, t.export)) /\ IsTx(t)
      /\ Table(t.own) /\ Table(t.read) /\ Table(log)
  BY DEF ExportInv, Exporting
<1>g. ASSUME NEW place, A!Goes(r, place), place \notin {"invalid", "insert", "write", "written"},
             UNCHANGED <<log, exports, files>>
      PROVE  ExportInv'
  <2> PICK x : x = [t EXCEPT !.at = place]
    OBVIOUS
  <2>1. A!Notes(r, x)
    BY <1>g DEF A!Goes
  <2>2. IsTx(x) /\ x.at = place /\ x.own = t.own /\ x.read = t.read
    BY <1>t DEF IsTx
  <2>3. Table(log)'
    BY <1>t, <1>g DEF Table
  <2> QED
    BY <2>1, <2>2, <2>3, <1>g, <1>t, ExportElsewhere
<1>1. CASE A!Begins(r)
  <2> PICK x : x = [t EXCEPT !.at = "open", !.start = clock + 1]
    OBVIOUS
  <2>1. A!Notes(r, x) /\ UNCHANGED <<log, exports, files>>
    BY <1>1 DEF A!Begins
  <2>2. IsTx(x) /\ x.at = "open" /\ x.own = t.own /\ x.read = t.read
    BY <1>t DEF IsTx
  <2>3. Table(log)'
    BY <1>t, <2>1 DEF Table
  <2> QED
    BY <2>1, <2>2, <2>3, <1>t, ExportElsewhere
<1>2. CASE A!_acquire_audit_chain_lock(r)
  BY <1>2, <1>g DEF A!_acquire_audit_chain_lock
<1>3. CASE A!_acquire_distributed_audit_chain_lock(r)
  BY <1>3, <1>g DEF A!_acquire_distributed_audit_chain_lock
<1>4. CASE A!ReadsLatest(r)
  <2> PICK b : b = IF txs[r].start = 0 THEN clock + 1 ELSE t.start
    OBVIOUS
  <2> PICK h : h = A!_latest_hash(r)
    OBVIOUS
  <2> PICK x : x = [t EXCEPT !.at = "read", !.prev = h, !.start = b]
    OBVIOUS
  <2>1. A!Notes(r, x) /\ UNCHANGED <<log, exports, files>>
    BY <1>4, <1>t DEF A!ReadsLatest
  <2>2. IsTx(x) /\ x.at = "read" /\ x.own = t.own /\ x.read = t.read
    BY <1>t DEF IsTx
  <2>3. Table(log)'
    BY <1>t, <2>1 DEF Table
  <2> QED
    BY <2>1, <2>2, <2>3, <1>t, ExportElsewhere
<1>5. CASE A!Inserts(r)
  <2>1. PICK id \in Ids :
          A!Notes(r, [t EXCEPT !.at = "held", !.prev = Nobody,
                        !.own = @ \union {[id |-> id, hash |-> id, prev |-> txs[r].prev,
                                           created |-> txs[r].start, intact |-> TRUE]}])
    BY <1>5 DEF A!Inserts
  <2> PICK a : a = [id |-> id, hash |-> id, prev |-> txs[r].prev, created |-> txs[r].start, intact |-> TRUE]
    OBVIOUS
  <2> PICK x : x = [t EXCEPT !.at = "held", !.prev = Nobody, !.own = @ \union {a}]
    OBVIOUS
  <2>2. A!Notes(r, x) /\ UNCHANGED <<log, exports, files>>
    BY <1>5, <2>1 DEF A!Inserts
  <2>3. IsTx(x) /\ x.at = "held" /\ x.own = t.own \union {a} /\ x.read = t.read
    BY <1>t DEF IsTx
  <2>4. a.hash # Nobody
    OBVIOUS
  <2>5. Table(x.own)
    BY <2>3, <2>4, <1>t, TablesGrow
  <2>6. Table(log)'
    BY <1>t, <2>2 DEF Table
  <2> QED
    BY <2>2, <2>3, <2>5, <2>6, <1>t, ExportElsewhere
<1>e. ASSUME NEW committed, Table(committed), A!EndsTransaction(r, committed) PROVE ExportInv'
  <2> PICK p : p = IF chain = r THEN "release" ELSE "done"
    OBVIOUS
  <2>p. p \notin {"invalid", "insert", "write", "written"}
    OBVIOUS
  <2> PICK x : x = [t EXCEPT !.at = p, !.own = {}]
    OBVIOUS
  <2>1. A!Notes(r, x) /\ log' = log \union committed /\ UNCHANGED <<exports, files>>
    BY <1>e DEF A!EndsTransaction
  <2>2. IsTx(x) /\ x.at = p /\ x.own = {} /\ x.read = t.read
    BY <1>t DEF IsTx
  <2>3. Table(log \union committed)
    BY <1>t, <1>e, TablesGrow
  <2>4. Table(log)'
    BY <2>1, <2>3 DEF Table
  <2> QED
    BY <2>p, <2>1, <2>2, <2>4, <1>t, NoTable, ExportElsewhere
<1>6. CASE A!Commits(r)
  BY <1>6, <1>e, <1>t DEF A!Commits
<1>7. CASE A!RollsBack(r)
  BY <1>7, <1>e, NoTable DEF A!RollsBack
<1>8. CASE A!ReleasesDistributed(r)
  BY <1>8, <1>g DEF A!ReleasesDistributed
<1>9. ASSUME NEW id \in ExportIds, A!ExportReads(r, id) PROVE ExportInv'
  <2>0. UNCHANGED <<log, exports, files>> /\ Table(log)'
    BY <1>9, <1>t DEF A!ExportReads, Table
  <2>f. /\ \A f \in files' : A!IsOrdered(f.lines)
        /\ \A e \in exports' : FileOf(files', e)
    BY <2>0 DEF ExportInv, FileOf
  <2>1. CASE A!_verify_hash_chain(log) # {}
    <3> PICK x : x = [t EXCEPT !.at = "invalid", !.read = log]
      OBVIOUS
    <3>1. A!Notes(r, x)
      BY <1>9, <2>1 DEF A!ExportReads
    <3>2. IsTx(x) /\ x.at = "invalid" /\ x.own = t.own /\ x.read = log
      BY <1>t DEF IsTx
    <3>3. ~A!IsChain(log)
      BY <1>t, <2>1, ChainIsVerified DEF Table
    <3>4. Exporting(x)
      BY <3>2, <3>3, <1>t DEF Exporting
    <3> QED
      BY <3>1, <3>2, <3>4, <2>0, <2>f, ExportFrame
  <2>2. CASE A!_verify_hash_chain(log) = {}
    <3> PICK lines : lines = A!_order_valid_hash_chain(log)
      OBVIOUS
    <3> PICK x : x = [t EXCEPT !.at = "insert", !.export = id, !.read = log, !.lines = lines]
      OBVIOUS
    <3>1. A!Notes(r, x)
      BY <1>9, <2>2 DEF A!ExportReads
    <3>2. IsTx(x) /\ x.at = "insert" /\ x.own = t.own /\ x.read = log /\ x.lines = lines
      BY <1>t DEF IsTx
    <3>3. A!IsOrdered(lines) /\ A!Range(lines) = log /\ Len(lines) = Cardinality(log)
      BY <1>t, <2>2, VerifiedIsWhole DEF Table
    <3>4. Exporting(x)
      BY <3>2, <3>3, <1>t DEF Exporting
    <3> QED
      BY <3>1, <3>2, <3>4, <2>0, <2>f, ExportFrame
  <2> QED
    BY <2>1, <2>2
<1>10. CASE A!ExportInserts(r)
  <2>0. UNCHANGED <<log, exports, files>> /\ t.at = "insert"
    BY <1>10 DEF A!ExportInserts, A!At
  <2>1. CASE txs[r].export \in exports
    BY <1>10, <2>1, <1>g DEF A!ExportInserts
  <2>2. CASE txs[r].export \notin exports
    <3> PICK x : x = [t EXCEPT !.at = "write"]
      OBVIOUS
    <3>1. A!Notes(r, x)
      BY <1>10, <2>2 DEF A!ExportInserts, A!Goes
    <3>2. IsTx(x) /\ x.at = "write" /\ x.own = t.own /\ x.read = t.read /\ x.lines = t.lines
      BY <1>t DEF IsTx
    <3>3. Exporting(x)
      BY <3>2, <2>0, <1>t DEF Exporting
    <3>4. /\ \A f \in files' : A!IsOrdered(f.lines)
          /\ \A e \in exports' : FileOf(files', e)
      BY <2>0 DEF ExportInv, FileOf
    <3>5. Table(log)'
      BY <1>t, <2>0 DEF Table
    <3> QED
      BY <3>1, <3>2, <3>3, <3>4, <3>5, <2>0, ExportFrame
  <2> QED
    BY <2>1, <2>2
<1>11. CASE A!SinkWrites(r)
  <2>0. UNCHANGED <<log, exports>> /\ t.at = "write"
    BY <1>11 DEF A!SinkWrites, A!At
  <2>1. CASE \E f \in files : f.export = txs[r].export
    BY <1>11, <2>1, <1>g DEF A!SinkWrites
  <2>2. CASE ~ \E f \in files : f.export = txs[r].export
    <3> PICK x : x = [t EXCEPT !.at = "written"]
      OBVIOUS
    <3> PICK f : f = [export |-> t.export, lines |-> t.lines]
      OBVIOUS
    <3>1. A!Notes(r, x) /\ files' = files \union {f}
      BY <1>11, <2>2 DEF A!SinkWrites, A!Goes
    <3>2. /\ IsTx(x) /\ x.at = "written" /\ x.own = t.own /\ x.read = t.read
          /\ x.lines = t.lines /\ x.export = t.export
      BY <1>t DEF IsTx
    <3>3. Exporting(x) /\ A!IsOrdered(f.lines)
      BY <3>2, <2>0, <1>t DEF Exporting
    <3>4. /\ \A g \in files' : A!IsOrdered(g.lines)
          /\ \A e \in exports' : FileOf(files', e)
      BY <2>0, <3>1, <3>3 DEF ExportInv, FileOf
    <3>5. Table(log)' /\ FileOf(files', x.export)
      BY <1>t, <2>0, <3>1, <3>2 DEF Table, FileOf
    <3> QED
      BY <3>1, <3>2, <3>3, <3>4, <3>5, ExportFrame
  <2> QED
    BY <2>1, <2>2
<1>12. CASE A!ExportCommits(r)
  <2> PICK x : x = [t EXCEPT !.at = "done"]
    OBVIOUS
  <2>1. A!Notes(r, x) /\ UNCHANGED <<log, files>> /\ exports' = exports \union {t.export} /\ t.at = "written"
    BY <1>12 DEF A!ExportCommits, A!Goes, A!At
  <2>2. IsTx(x) /\ x.at = "done" /\ x.own = t.own /\ x.read = t.read
    BY <1>t DEF IsTx
  <2>3. Exporting(x)
    BY <2>2, <1>t DEF Exporting
  <2>4. /\ \A g \in files' : A!IsOrdered(g.lines)
        /\ \A e \in exports' : FileOf(files', e)
    BY <2>1, <1>t DEF ExportInv, FileOf
  <2>5. Table(log)'
    BY <1>t, <2>1 DEF Table
  <2> QED
    BY <2>1, <2>2, <2>3, <2>4, <2>5, ExportFrame
<1>13. CASE A!ExportRollsBack(r)
  BY <1>13, <1>g DEF A!ExportRollsBack
<1>14. ASSUME NEW cutoff, A!RetentionReads(r, cutoff) PROVE ExportInv'
  <2> PICK expired : expired = {a \in log : a.created < cutoff}
    OBVIOUS
  <2> PICK p : p = IF expired = log THEN "retain" ELSE "done"
    OBVIOUS
  <2>p. p \notin {"invalid", "insert", "write", "written"}
    OBVIOUS
  <2> PICK x : x = [t EXCEPT !.at = p, !.read = expired]
    OBVIOUS
  <2>1. A!Notes(r, x) /\ UNCHANGED <<log, exports, files>>
    BY <1>14 DEF A!RetentionReads
  <2>2. IsTx(x) /\ x.at = p /\ x.own = t.own /\ x.read = expired
    BY <1>t DEF IsTx
  <2>3. Table(expired)
    BY <1>t, TablesGrow
  <2>4. Table(log)'
    BY <1>t, <2>1 DEF Table
  <2> QED
    BY <2>p, <2>1, <2>2, <2>3, <2>4, <1>t, ExportElsewhere
<1>15. CASE A!RetentionDeletes(r)
  <2> PICK x : x = [t EXCEPT !.at = "done"]
    OBVIOUS
  <2>1. A!Notes(r, x) /\ log' = log \ txs[r].read /\ UNCHANGED <<exports, files>>
    BY <1>15 DEF A!RetentionDeletes, A!Goes
  <2>2. IsTx(x) /\ x.at = "done" /\ x.own = t.own /\ x.read = t.read
    BY <1>t DEF IsTx
  <2>3. Table(log \ txs[r].read)
    BY <1>t, TablesGrow
  <2>4. Table(log)'
    BY <2>1, <2>3 DEF Table
  <2> QED
    BY <2>1, <2>2, <2>4, <1>t, ExportElsewhere
<1> QED
  BY <1>1, <1>2, <1>3, <1>4, <1>5, <1>6, <1>7, <1>8, <1>9, <1>10, <1>11, <1>12, <1>13, <1>14, <1>15
  DEF A!RequestStep

LEMMA ExportHolds == ExportInv => ExportsWholeChains
<1> SUFFICES ASSUME ExportInv PROVE A!ExportsWholeChains
  BY DEF ExportsWholeChains
<1>1. DOMAIN txs = A!Requests
  BY DEF ExportInv
<1> QED
  BY <1>1, SameCardinality DEF ExportInv, Exporting, FileOf, A!ExportsWholeChains, A!At

(* Exports (platform_apps/audit/services.py, export_logs): from any table of *)
(* records, one that was tampered with too, an export is the whole log as it *)
(* was read, in the order of its chain, or is refused because there is no    *)
(* such order; and every export row has the file that was written for it.    *)
THEOREM ExportsAreWhole ==
  ASSUME Nobody \notin Ids, NEW Logs,
         \A logs \in Logs : IsFiniteSet(logs) /\ \A a \in logs : a.hash # Nobody
  PROVE  A!InitWith(Logs) /\ [][A!Next]_A!auditVars => []ExportsWholeChains
<1>1. A!InitWith(Logs) => ExportInv
  BY ExportInit DEF Table
<1>2. ExportInv /\ [A!Next]_A!auditVars => ExportInv'
  BY ExportNext
<1> QED
  BY <1>1, <1>2, ExportHolds, PTL

-----------------------------------------------------------------------------
(* The rate limiter (RateLimit): a step adds nothing to the log, a decision   *)
(* without an increment or one with it (StepShape); the counters of fixed and *)
(* of sliding windows against the log (FixedInv, SlideInv); what follows for  *)
(* the decisions.                                                             *)

(* Division by a window.                                                     *)
LEMMA Divided ==
  \A a \in Nat, W \in Nat \ {0} :
    /\ a \div W \in Nat /\ a % W \in 0 .. W - 1
    /\ W * (a \div W) <= a /\ a < W * (a \div W) + W
<1> TAKE a \in Nat, W \in Nat \ {0}
<1>1. a \div W \in Int /\ a % W \in Int /\ a = W * (a \div W) + (a % W) /\ a % W \in 0 .. W - 1
  BY Z3
<1> QED
  BY <1>1

LEMMA ProductsGrow ==
  \A x, y, z \in Nat : x <= y => z * x <= z * y /\ x * z <= y * z /\ z * x \in Nat /\ x * z = z * x
OBVIOUS

LEMMA DividedGrows ==
  \A W \in Nat \ {0} : \A a, b \in Nat : a <= b => a \div W <= b \div W
<1> SUFFICES ASSUME NEW W \in Nat \ {0}, NEW a \in Nat, NEW b \in Nat, a <= b, b \div W < a \div W PROVE FALSE
  BY Divided
<1> PICK q \in Nat : q = a \div W
  BY Divided
<1> PICK p \in Nat : p = b \div W
  BY Divided
<1>1. W * q <= a /\ b < W * p + W
  BY Divided
<1>2. p + 1 <= q
  OBVIOUS
<1>3. W * (p + 1) <= W * q
  BY <1>2, ProductsGrow
<1>4. W * (p + 1) = W * p + W
  OBVIOUS
<1>5. W * p \in Nat /\ W * q \in Nat
  BY ProductsGrow
<1> QED
  BY <1>1, <1>3, <1>4, <1>5

(* The windows after the one of a.                                           *)
LEMMA DividedNext ==
  \A W \in Nat \ {0} : \A a \in Nat : (a + W) \div W = (a \div W) + 1
<1> TAKE W \in Nat \ {0}
<1> TAKE a \in Nat
<1> PICK q \in Nat : q = a \div W
  BY Divided
<1> PICK p \in Nat : p = (a + W) \div W
  BY Divided
<1>0. a + W \in Nat
  OBVIOUS
<1>1. W * q <= a /\ a < W * q + W /\ W * p <= a + W /\ a + W < W * p + W
  BY <1>0, Divided
<1>2. W * q \in Nat /\ W * p \in Nat /\ W * (q + 1) = W * q + W /\ W * (q + 2) = W * q + 2 * W
  BY ProductsGrow
<1>3. CASE p <= q
  <2>1. W * p <= W * q
    BY <1>3, ProductsGrow
  <2> QED
    BY <1>1, <1>2, <2>1
<1>4. CASE q + 2 <= p
  <2>1. W * (q + 2) <= W * p
    BY <1>4, ProductsGrow
  <2> QED
    BY <1>1, <1>2, <2>1
<1> QED
  BY <1>3, <1>4

LEMMA DividedBelow ==
  ASSUME NEW W \in Nat \ {0}, NEW a \in Nat, NEW p \in Nat, a < W * p + W PROVE a \div W <= p
<1> PICK n \in Nat : n = a \div W
  BY Divided
<1>1. W * n <= a
  BY Divided
<1>2. W * p \in Nat /\ W * n \in Nat /\ W * (p + 1) = W * p + W
  BY ProductsGrow
<1>3. CASE p + 1 <= n
  <2>1. W * (p + 1) <= W * n
    BY <1>3, ProductsGrow
  <2> QED
    BY <1>1, <1>2, <2>1
<1> QED
  BY <1>3

LEMMA Weighing ==
  ASSUME NEW W \in Nat \ {0}, NEW d \in Nat, d <= W, NEW p \in Nat, NEW q \in Nat, p <= q
  PROVE  /\ (p * d + W - 1) \div W \in Nat /\ (p * d + W - 1) \div W <= p
         /\ (p * d + W - 1) \div W <= (q * d + W - 1) \div W
<1> PICK m \in Nat : m = p * d
  BY ProductsGrow
<1> PICK k \in Nat : k = q * d
  BY ProductsGrow
<1>1. m <= k
  BY ProductsGrow
<1>2. p * d <= p * W /\ p * W = W * p /\ W * p \in Nat
  BY ProductsGrow
<1>3. m + W - 1 \in Nat /\ k + W - 1 \in Nat /\ m + W - 1 < W * p + W /\ m + W - 1 <= k + W - 1
  <2> PICK n \in Nat : n = W * p
    BY <1>2
  <2>1. m <= n
    BY <1>2
  <2> QED
    BY <1>1, <2>1
<1>4. (m + W - 1) \div W \in Nat /\ (m + W - 1) \div W <= p /\ (m + W - 1) \div W <= (k + W - 1) \div W
  BY <1>3, Divided, DividedBelow, DividedGrows
<1> QED
  BY <1>4

(* What a bucket weighs is no more than it counts, and grows with it         *)
(* (weighted_previous).                                                      *)
LEMMA WeightedBounds ==
  ASSUME L!Window \in Nat \ {0}, NEW e \in 0 .. L!Window - 1, NEW p \in Nat, NEW q \in Nat, p <= q
  PROVE  L!Weighted(p, e) \in Nat /\ L!Weighted(p, e) <= p /\ L!Weighted(p, e) <= L!Weighted(q, e)
<1> PICK W \in Nat \ {0} : W = L!Window
  OBVIOUS
<1> PICK d \in Nat : d = W - e /\ d <= W
  OBVIOUS
<1>1. L!Weighted(p, e) = (p * d + W - 1) \div W /\ L!Weighted(q, e) = (q * d + W - 1) \div W
  BY DEF L!Weighted
<1> QED
  BY <1>1, Weighing

-----------------------------------------------------------------------------
\* Decisions, counters and calls.
Reasons == {"unlimited", "allowed", "limit_exceeded", "cache_unavailable"}
Decided == [key : {Identity[r] : r \in Limited}, since : Nat, at : Nat, reason : Reasons,
            allowed : BOOLEAN, until : Nat]
Counter == [count : Nat \ {0}, until : Nat]

BucketOf(lm, since) == IF lm.sliding THEN since \div lm.window ELSE 0

IsCall(x) == x = [f \in {"at", "charge", "previous"} |-> x[f]] /\ x.at \in {"clock", "get", "set", "incrby"}

IsCharge(lm, k, c) ==
  /\ c.since \in Nat /\ c.cell = <<k, BucketOf(lm, c.since)>>
  /\ c.elapsed = IF lm.sliding THEN c.since % lm.window ELSE 0

Calling(lm, r, x, t) ==
  \/ x = L!Idle
  \/ /\ lm.provider = "redis" /\ Identity[r] # Nobody
     /\ IsCall(x) /\ x.previous \in Nat /\ IsCharge(lm, Identity[r], x.charge) /\ x.charge.since <= t

LimitTypes ==
  /\ limiter \in Limiters /\ now \in Nat /\ now <= MaxTime
  /\ decisions \in Seq(Decided)
  /\ \A i \in DOMAIN decisions : decisions[i].since <= decisions[i].at /\ decisions[i].at <= now
  /\ counters \in [L!Cells -> {Nobody} \union Counter]
  /\ calls = [r \in Limited |-> calls[r]]
  /\ \A r \in Limited : Calling(limiter, r, calls[r], now)

\* How a step adds to the log while no increments raced: nothing, a decision
\* without an increment, or one with it.
Uneventful == UNCHANGED <<counters, decisions>> /\ now <= now'

Uncounted(d) ==
  /\ d \in Decided /\ d.at = now /\ d.since <= now
  /\ d.reason \in {"unlimited", "cache_unavailable"}
  /\ d.key # Nobody => limiter.provider = "redis" /\ (d.allowed => ~limiter.fail_closed)
  /\ decisions' = Append(decisions, d)
  /\ UNCHANGED <<counters, now>>

CellOf(d) == <<d.key, BucketOf(limiter, d.since)>>
Weight(d, p) == IF limiter.sliding THEN L!Weighted(p, d.since % limiter.window) ELSE 0

Judged(d, c, p) ==
  /\ d.until = c.until
  /\ d.allowed <=> c.count + Weight(d, p) <= limiter.limit
  /\ d.reason = IF d.allowed THEN "allowed" ELSE "limit_exceeded"

Increments(r, d, c) ==
  /\ d \in Decided /\ d.key = Identity[r] /\ d.key # Nobody /\ d.at = now /\ d.since <= now
  /\ CellOf(d) \in L!Cells /\ c \in Counter
  /\ L!Counted(CellOf(d)) = 0 => c.count = 1 /\ c.until = now + L!CounterTtl
  /\ L!Counted(CellOf(d)) # 0 => c.count = counters[CellOf(d)].count + 1
                                 /\ c.until = counters[CellOf(d)].until
  /\ IF limiter.provider = "memory"
       THEN d.since = now /\ Judged(d, c, L!Counted(L!Previous(CellOf(d))))
       ELSE /\ calls[r] # L!Idle /\ d.since = calls[r].charge.since
            /\ \/ Judged(d, c, calls[r].previous)
               \/ d.reason = "cache_unavailable" /\ (d.allowed => ~limiter.fail_closed)
  /\ decisions' = Append(decisions, d)
  /\ counters' = [counters EXCEPT ![CellOf(d)] = c]
  /\ UNCHANGED now

StepShape ==
  Uneventful \/ (\E d : Uncounted(d)) \/ (\E r \in Limited : \E d, c : Increments(r, d, c))

LEMMA LimiterFields ==
  ASSUME limiter \in Limiters
  PROVE  /\ limiter.provider \in {"memory", "redis"} /\ limiter.sliding \in BOOLEAN
         /\ limiter.fail_closed \in BOOLEAN
         /\ limiter.limit \in Nat \ {0} /\ limiter.window \in Nat \ {0}
BY LimitersAssumption

LEMMA CallsGoOn ==
  ASSUME LimitTypes, UNCHANGED limiter, NEW r \in Limited, NEW x, L!Notes(r, x),
         Calling(limiter, r, x, now'), now' \in Nat, now <= now'
  PROVE  /\ calls' = [q \in Limited |-> calls'[q]]
         /\ \A q \in Limited : Calling(limiter', q, calls'[q], now')
<1>1. calls' = [q \in Limited |-> calls'[q]] /\ calls'[r] = x /\ \A q \in Limited \ {r} : calls'[q] = calls[q]
  BY DEF LimitTypes, L!Notes
<1>2. ASSUME NEW q \in Limited PROVE Calling(limiter, q, calls[q], now')
  BY DEF LimitTypes, Calling, IsCharge
<1> QED
  BY <1>1, <1>2

\* The charge of a call now is one of the cells.
LEMMA ChargeNow ==
  ASSUME LimitTypes, NEW r \in Limited, Identity[r] # Nobody
  PROVE  /\ IsCharge(limiter, Identity[r], L!Charge(r)) /\ L!Charge(r).since = now
<1>1. L!Charge(r) = [cell |-> <<Identity[r], IF limiter.sliding THEN now \div limiter.window ELSE 0>>,
                     elapsed |-> IF limiter.sliding THEN now % limiter.window ELSE 0, since |-> now]
  BY DEF L!Charge, L!Sliding, L!Window
<1> QED
  BY <1>1 DEF IsCharge, BucketOf, LimitTypes

LEMMA ChargeCell ==
  ASSUME LimitTypes, NEW r \in Limited, Identity[r] # Nobody, NEW x, IsCharge(limiter, Identity[r], x),
         x.since <= now
  PROVE  x.cell \in L!Cells /\ L!Previous(x.cell) \in L!Cells
<1>1. limiter.window \in Nat \ {0} /\ MaxTime \in Nat /\ now \in Nat /\ now <= MaxTime /\ x.since \in Nat
  BY LimiterFields, DatabaseLockAssumption DEF LimitTypes, IsCharge
<1>2. BucketOf(limiter, x.since) \in 0 .. MaxTime
  <2> PICK W \in Nat \ {0} : W = limiter.window
    BY <1>1
  <2> PICK a \in Nat : a = x.since /\ a <= MaxTime
    BY <1>1
  <2>1. a < W * a + W
    <3>1. 1 * a <= W * a /\ W * a \in Nat
      BY ProductsGrow
    <3> QED
      BY <3>1
  <2>2. a \div W \in Nat /\ a \div W <= a
    BY <2>1, DividedBelow, Divided
  <2> QED
    BY <2>2, <1>1 DEF BucketOf
<1>3. Identity[r] \in L!Keys
  BY DEF L!Keys
<1> QED
  BY <1>1, <1>2, <1>3 DEF IsCharge, L!Cells, L!Previous

\* A count, and the count after an increment.
LEMMA CountedOne ==
  ASSUME LimitTypes, Nobody \notin Counter, NEW cell \in L!Cells
  PROVE  /\ L!Counted(cell) \in Nat
         /\ L!Counted(cell) # 0 => /\ counters[cell] \in Counter /\ counters[cell] # Nobody
                                   /\ L!Counted(cell) = counters[cell].count /\ now < counters[cell].until
<1>1. counters[cell] \in {Nobody} \union Counter /\ now \in Nat
  BY DEF LimitTypes
<1> QED
  BY <1>1 DEF L!Counted, Counter

LEMMA IncrementedOne ==
  ASSUME LimitTypes, Nobody \notin Counter, NEW cell \in L!Cells, NEW ttl \in Nat
  PROVE  /\ L!Incremented(cell, ttl) \in Counter
         /\ L!Counted(cell) = 0 => L!Incremented(cell, ttl).count = 1 /\ L!Incremented(cell, ttl).until = now + ttl
         /\ L!Counted(cell) # 0 => /\ L!Incremented(cell, ttl).count = counters[cell].count + 1
                                   /\ L!Incremented(cell, ttl).until = counters[cell].until
<1>0. now \in Nat
  BY DEF LimitTypes
<1>1. CASE L!Counted(cell) = 0
  <2>1. L!Incremented(cell, ttl) = [count |-> 1, until |-> now + ttl]
    BY <1>1 DEF L!Incremented
  <2> QED
    BY <1>0, <1>1, <2>1 DEF Counter
<1>2. CASE L!Counted(cell) # 0
  <2> PICK c \in Counter : c = counters[cell]
    BY <1>2, CountedOne
  <2>1. L!Incremented(cell, ttl) = [c EXCEPT !.count = @ + 1]
    BY <1>2, CountedOne DEF L!Incremented
  <2>2. [c EXCEPT !.count = @ + 1] = [count |-> c.count + 1, until |-> c.until]
    BY DEF Counter
  <2> QED
    BY <1>2, <2>1, <2>2 DEF Counter
<1> QED
  BY <1>1, <1>2

\* A log with one decision more.
LEMMA DecisionsGrow ==
  ASSUME LimitTypes, NEW d \in Decided, d.at = now, d.since <= now, decisions' = Append(decisions, d), now' = now
  PROVE  /\ decisions' \in Seq(Decided)
         /\ \A i \in DOMAIN decisions' : decisions'[i].since <= decisions'[i].at /\ decisions'[i].at <= now'
<1> PICK l \in Seq(Decided) : l = decisions
  BY DEF LimitTypes
<1>1. Append(l, d) \in Seq(Decided) /\ DOMAIN Append(l, d) = 1 .. Len(l) + 1 /\ DOMAIN l = 1 .. Len(l)
  OBVIOUS
<1>2. \A i \in 1 .. Len(l) + 1 : Append(l, d)[i] = IF i = Len(l) + 1 THEN d ELSE l[i]
  OBVIOUS
<1>3. \A i \in DOMAIN l : l[i].since <= l[i].at /\ l[i].at <= now
  BY DEF LimitTypes
<1>4. \A i \in 1 .. Len(l) + 1 : i # Len(l) + 1 => i \in DOMAIN l
  BY <1>1
<1>5. decisions' = Append(l, d)
  OBVIOUS
<1>6. ASSUME NEW i \in DOMAIN decisions' PROVE decisions'[i].since <= decisions'[i].at /\ decisions'[i].at <= now
  <2>1. i \in 1 .. Len(l) + 1 /\ decisions'[i] = IF i = Len(l) + 1 THEN d ELSE l[i]
    BY <1>1, <1>2, <1>5
  <2>2. i # Len(l) + 1 => l[i].since <= l[i].at /\ l[i].at <= now
    BY <1>3, <1>4, <2>1
  <2>3. now <= now
    BY DEF LimitTypes
  <2> QED
    BY <2>1, <2>2, <2>3
<1> QED
  BY <1>1, <1>5, <1>6

LEMMA DecidesOne ==
  ASSUME LimitTypes, NEW r \in Limited, NEW x, IsCharge(limiter, Identity[r], x), NEW p \in Nat, NEW c \in Counter,
         L!Decides(r, x, p, c)
  PROVE  \E d \in Decided : /\ decisions' = Append(decisions, d)
                            /\ d.key = Identity[r] /\ d.since = x.since /\ d.at = now
                            /\ Judged(d, c, p) /\ CellOf(d) = x.cell
<1> PICK w : w = IF limiter.sliding THEN L!Weighted(p, x.since % limiter.window) ELSE 0
  OBVIOUS
<1> PICK allowed : allowed = (c.count + w <= limiter.limit)
  OBVIOUS
<1>0. allowed \in BOOLEAN
  OBVIOUS
<1> PICK reason \in Reasons : reason = IF allowed THEN "allowed" ELSE "limit_exceeded"
  BY DEF Reasons
<1>1. w = IF L!Sliding THEN L!Weighted(p, x.elapsed) ELSE 0
  BY DEF IsCharge, L!Sliding
<1> PICK d : d = [key |-> Identity[r], since |-> x.since, at |-> now, reason |-> reason,
                  allowed |-> allowed, until |-> c.until]
  OBVIOUS
<1>2. decisions' = Append(decisions, d)
  BY <1>1 DEF L!Decides, L!Decision, L!Sliding, L!Limit
<1>3. x.since \in Nat /\ c.until \in Nat
  BY DEF IsCharge, Counter
<1>4. /\ d \in Decided /\ d.key = Identity[r] /\ d.since = x.since /\ d.at = now
      /\ d.reason = reason /\ (d.allowed <=> allowed) /\ d.until = c.until
  BY <1>0, <1>3 DEF LimitTypes, Decided
<1>5. Weight(d, p) = w
  BY <1>4 DEF Weight
<1>6. Judged(d, c, p)
  BY <1>4, <1>5 DEF Judged
<1>7. CellOf(d) = x.cell
  BY <1>4 DEF CellOf, IsCharge
<1> QED
  BY <1>2, <1>4, <1>6, <1>7

LEMMA FailureOne ==
  ASSUME LimitTypes, NEW r \in Limited, IsCharge(limiter, Identity[r], calls[r].charge),
         L!_cache_failure_decision(r)
  PROVE  \E d \in Decided : /\ decisions' = Append(decisions, d)
                            /\ d.key = Identity[r] /\ d.since = calls[r].charge.since /\ d.at = now
                            /\ d.reason = "cache_unavailable" /\ (d.allowed => ~limiter.fail_closed)
                            /\ CellOf(d) = calls[r].charge.cell
<1> PICK since \in Nat : since = calls[r].charge.since
  BY DEF IsCharge
<1> PICK allowed \in BOOLEAN : allowed = ~limiter.fail_closed
  BY LimiterFields DEF LimitTypes
<1> PICK reason \in Reasons : reason = "cache_unavailable"
  BY DEF Reasons
<1> PICK d : d = [key |-> Identity[r], since |-> since, at |-> now, reason |-> reason,
                  allowed |-> allowed, until |-> 0]
  OBVIOUS
<1>1. decisions' = Append(decisions, d)
  BY DEF L!_cache_failure_decision, L!Decision, L!FailClosed
<1>2. /\ d \in Decided /\ d.key = Identity[r] /\ d.since = since /\ d.at = now
      /\ d.reason = reason /\ (d.allowed <=> allowed) /\ d.until = 0
  BY DEF LimitTypes, Decided
<1>3. CellOf(d) = calls[r].charge.cell
  BY <1>2 DEF CellOf, IsCharge
<1> QED
  BY <1>1, <1>2, <1>3

LEMMA LimitInit == L!Init => LimitTypes
<1> SUFFICES ASSUME L!Init PROVE LimitTypes
  OBVIOUS
<1>1. MaxTime \in Nat
  BY DatabaseLockAssumption
<1>2. decisions = << >> /\ now = 0 /\ limiter \in Limiters
  BY DEF L!Init
<1>3. counters \in [L!Cells -> {Nobody} \union Counter]
  BY DEF L!Init
<1>4. calls = [r \in Limited |-> calls[r]] /\ \A r \in Limited : calls[r] = L!Idle
  BY DEF L!Init
<1> QED
  BY <1>1, <1>2, <1>3, <1>4 DEF LimitTypes, Calling

\* The parts of a state make the next one well typed.
LEMMA TypesFrom ==
  ASSUME LimitTypes, UNCHANGED limiter, now' \in Nat, now' <= MaxTime, decisions' \in Seq(Decided),
         \A i \in DOMAIN decisions' : decisions'[i].since <= decisions'[i].at /\ decisions'[i].at <= now',
         counters' \in [L!Cells -> {Nobody} \union Counter],
         calls' = [q \in Limited |-> calls'[q]],
         \A q \in Limited : Calling(limiter', q, calls'[q], now')
  PROVE  LimitTypes'
BY DEF LimitTypes

\* A call goes on, or ends, while the log stays or grows.
LEMMA CallTypes ==
  ASSUME LimitTypes, UNCHANGED <<limiter, now>>, NEW r \in Limited,
         \/ calls' = calls
         \/ \E x : L!Notes(r, x) /\ Calling(limiter, r, x, now),
         \/ decisions' = decisions
         \/ \E d \in Decided : decisions' = Append(decisions, d) /\ d.at = now /\ d.since <= now,
         counters' \in [L!Cells -> {Nobody} \union Counter]
  PROVE  LimitTypes'
<1>1. now' \in Nat /\ now' <= MaxTime /\ now <= now'
  BY DEF LimitTypes
<1>2. /\ calls' = [q \in Limited |-> calls'[q]]
      /\ \A q \in Limited : Calling(limiter', q, calls'[q], now')
  <2>1. CASE calls' = calls
    BY <2>1 DEF LimitTypes
  <2>2. CASE \E x : L!Notes(r, x) /\ Calling(limiter, r, x, now)
    <3> PICK x : L!Notes(r, x) /\ Calling(limiter, r, x, now)
      BY <2>2
    <3> QED
      BY <1>1, CallsGoOn
  <2> QED
    BY <2>1, <2>2
<1>3. /\ decisions' \in Seq(Decided)
      /\ \A i \in DOMAIN decisions' : decisions'[i].since <= decisions'[i].at /\ decisions'[i].at <= now'
  <2>1. CASE decisions' = decisions
    BY <2>1 DEF LimitTypes
  <2>2. ASSUME NEW d \in Decided, decisions' = Append(decisions, d), d.at = now, d.since <= now
        PROVE  /\ decisions' \in Seq(Decided)
               /\ \A i \in DOMAIN decisions' : decisions'[i].since <= decisions'[i].at /\ decisions'[i].at <= now'
    BY <2>2, DecisionsGrow
  <2> QED
    BY <2>1, <2>2
<1> QED
  BY <1>1, <1>2, <1>3, TypesFrom

LEMMA TickStep ==
  ASSUME LimitTypes, UNCHANGED limiter, L!Tick PROVE LimitTypes' /\ Uneventful
<1>1. now' = now + 1 /\ now < MaxTime /\ UNCHANGED <<counters, calls, decisions>> /\ now \in Nat /\ MaxTime \in Nat
  BY DatabaseLockAssumption DEF LimitTypes, L!Tick
<1>2. now' \in Nat /\ now' <= MaxTime /\ now <= now'
  BY <1>1
<1>3. ASSUME NEW q \in Limited PROVE Calling(limiter', q, calls'[q], now')
  <2>1. Calling(limiter, q, calls[q], now)
    BY DEF LimitTypes
  <2>2. CASE calls[q] = L!Idle
    BY <2>2, <1>1 DEF Calling
  <2>3. CASE calls[q] # L!Idle
    <3>1. calls[q].charge.since \in Nat /\ calls[q].charge.since <= now
      BY <2>1, <2>3 DEF Calling, IsCharge
    <3>2. calls[q].charge.since <= now'
      BY <3>1, <1>1
    <3> QED
      BY <3>2, <2>1, <2>3, <1>1 DEF Calling
  <2> QED
    BY <2>2, <2>3
<1>4. ASSUME NEW i \in DOMAIN decisions PROVE decisions[i].since <= decisions[i].at /\ decisions[i].at <= now'
  <2>1. decisions[i] \in Decided
    BY DEF LimitTypes
  <2> QED
    BY <2>1, <1>1 DEF LimitTypes, Decided
<1> QED
  BY <1>1, <1>2, <1>3, <1>4, TypesFrom DEF LimitTypes, Uneventful

LEMMA PassesStep ==
  ASSUME LimitTypes, UNCHANGED limiter, NEW r \in Limited, L!Passes(r)
  PROVE  LimitTypes' /\ StepShape /\ raced' = raced
<1> PICK d : d = [key |-> Identity[r], since |-> now, at |-> now, reason |-> "unlimited",
                  allowed |-> TRUE, until |-> 0]
  OBVIOUS
<1>1. decisions' = Append(decisions, d) /\ UNCHANGED <<counters, now, calls, raced>> /\ Identity[r] = Nobody
  BY DEF L!Passes, L!Decision
<1>2. d \in Decided /\ d.at = now /\ d.since <= now /\ d.key = Nobody /\ d.reason = "unlimited"
  BY <1>1 DEF LimitTypes, Decided, Reasons
<1>3. Uncounted(d)
  BY <1>1, <1>2 DEF Uncounted
<1>4. counters' \in [L!Cells -> {Nobody} \union Counter]
  BY <1>1 DEF LimitTypes
<1> QED
  BY <1>1, <1>2, <1>3, <1>4, CallTypes DEF StepShape

LEMMA MemoryStep ==
  ASSUME LimitTypes, Nobody \notin Counter, UNCHANGED limiter, NEW r \in Limited, L!check_memory(r)
  PROVE  LimitTypes' /\ StepShape /\ raced' = raced
<1> PICK x : x = L!Charge(r)
  OBVIOUS
<1>0. limiter.provider = "memory" /\ Identity[r] # Nobody /\ UNCHANGED <<now, calls, raced>>
  BY DEF L!check_memory
<1>1. IsCharge(limiter, Identity[r], x) /\ x.since = now
      /\ x.cell \in L!Cells /\ L!Previous(x.cell) \in L!Cells
  BY <1>0, ChargeNow, ChargeCell DEF LimitTypes
<1>2. L!CounterTtl \in Nat
  BY LimiterFields DEF LimitTypes, L!CounterTtl, L!Window, L!Sliding
<1> PICK c : c = L!Incremented(x.cell, L!CounterTtl)
  OBVIOUS
<1>3. /\ c \in Counter
      /\ L!Counted(x.cell) = 0 => c.count = 1 /\ c.until = now + L!CounterTtl
      /\ L!Counted(x.cell) # 0 => c.count = counters[x.cell].count + 1 /\ c.until = counters[x.cell].until
  BY <1>1, <1>2, IncrementedOne
<1> PICK p : p = L!Counted(L!Previous(x.cell))
  OBVIOUS
<1>4. p \in Nat
  BY <1>1, CountedOne
<1>5. counters' = [counters EXCEPT ![x.cell] = c] /\ L!Decides(r, x, p, c)
  BY DEF L!check_memory
<1>6. PICK d \in Decided : /\ decisions' = Append(decisions, d)
                           /\ d.key = Identity[r] /\ d.since = x.since /\ d.at = now
                           /\ Judged(d, c, p) /\ CellOf(d) = x.cell
  BY <1>1, <1>3, <1>4, <1>5, DecidesOne
<1>7. now <= now
  BY DEF LimitTypes
<1>8. Increments(r, d, c)
  BY <1>0, <1>1, <1>3, <1>5, <1>6, <1>7 DEF Increments
<1>9. counters' \in [L!Cells -> {Nobody} \union Counter]
  BY <1>1, <1>3, <1>5 DEF LimitTypes
<1>10. LimitTypes'
  BY <1>0, <1>1, <1>6, <1>7, <1>9, CallTypes
<1> QED
  BY <1>0, <1>8, <1>10 DEF StepShape

LEMMA StartsStep ==
  ASSUME LimitTypes, UNCHANGED limiter, NEW r \in Limited, L!Starts(r)
  PROVE  LimitTypes' /\ Uneventful /\ raced' = raced
<1> PICK c : c = L!Charge(r)
  OBVIOUS
<1>0. /\ limiter.provider = "redis" /\ Identity[r] # Nobody /\ UNCHANGED <<counters, now, decisions, raced>>
      /\ L!Notes(r, [at |-> IF L!Sliding THEN "clock" ELSE "get", charge |-> c, previous |-> 0])
  BY DEF L!Starts
<1> PICK place : place = IF L!Sliding THEN "clock" ELSE "get"
  OBVIOUS
<1> PICK x : x = [at |-> place, charge |-> c, previous |-> 0]
  OBVIOUS
<1>1. IsCharge(limiter, Identity[r], c) /\ c.since = now /\ now <= now
  BY <1>0, ChargeNow DEF LimitTypes
<1>2. IsCall(x) /\ x.charge = c /\ x.previous = 0
  BY DEF IsCall
<1>3. L!Notes(r, x) /\ Calling(limiter, r, x, now)
  BY <1>0, <1>1, <1>2 DEF Calling
<1>4. counters' \in [L!Cells -> {Nobody} \union Counter]
  BY <1>0 DEF LimitTypes
<1> QED
  BY <1>0, <1>1, <1>3, <1>4, CallTypes DEF Uneventful

\* A call that is under way.
LEMMA CallNow ==
  ASSUME LimitTypes, NEW r \in Limited, calls[r].at \in {"clock", "get", "set", "incrby"}
  PROVE  /\ calls[r] # L!Idle /\ limiter.provider = "redis" /\ Identity[r] # Nobody
         /\ IsCall(calls[r]) /\ calls[r].previous \in Nat
         /\ IsCharge(limiter, Identity[r], calls[r].charge) /\ calls[r].charge.since <= now
         /\ calls[r].charge.since \in Nat
         /\ calls[r].charge.cell \in L!Cells /\ L!Previous(calls[r].charge.cell) \in L!Cells
<1>1. calls[r] # L!Idle
  BY DEF L!Idle
<1>2. /\ limiter.provider = "redis" /\ Identity[r] # Nobody /\ IsCall(calls[r]) /\ calls[r].previous \in Nat
      /\ IsCharge(limiter, Identity[r], calls[r].charge) /\ calls[r].charge.since <= now
  BY <1>1 DEF LimitTypes, Calling
<1> QED
  BY <1>1, <1>2, ChargeCell DEF IsCharge

\* GET of the bucket before, and of the counter.
LEMMA GetsStep ==
  ASSUME LimitTypes, Nobody \notin Counter, UNCHANGED limiter, NEW r \in Limited, L!GetsPrevious(r) \/ L!Gets(r)
  PROVE  LimitTypes' /\ Uneventful /\ raced' = raced
<1>0. UNCHANGED <<counters, now, decisions, raced>>
  BY DEF L!GetsPrevious, L!Gets
<1> PICK c : c = calls[r]
  OBVIOUS
<1>1. c.at \in {"clock", "get", "set", "incrby"}
  BY DEF L!GetsPrevious, L!Gets, L!At
<1>2. /\ c # L!Idle /\ limiter.provider = "redis" /\ Identity[r] # Nobody
      /\ IsCall(c) /\ c.previous \in Nat
      /\ IsCharge(limiter, Identity[r], c.charge) /\ c.charge.since <= now
  BY <1>1, CallNow
<1> PICK p : p = L!Counted(L!Previous(c.charge.cell))
  OBVIOUS
<1>3. p \in Nat
  BY <1>1, CallNow, CountedOne
<1> PICK place : place = IF L!Counted(c.charge.cell) = 0 THEN "set" ELSE "incrby"
  OBVIOUS
<1>4. PICK x : L!Notes(r, x) /\ (x = [c EXCEPT !.at = "get", !.previous = p] \/ x = [c EXCEPT !.at = place])
  BY DEF L!GetsPrevious, L!Gets
<1>5. IsCall(x) /\ x.charge = c.charge /\ x.previous \in Nat
  BY <1>2, <1>3, <1>4 DEF IsCall
<1>6. Calling(limiter, r, x, now)
  BY <1>2, <1>5 DEF Calling
<1>7. counters' \in [L!Cells -> {Nobody} \union Counter] /\ now <= now
  BY <1>0 DEF LimitTypes
<1> QED
  BY <1>0, <1>4, <1>6, <1>7, CallTypes DEF Uneventful

LEMMA FailsStep ==
  ASSUME LimitTypes, UNCHANGED limiter, NEW r \in Limited, L!CacheFails(r)
  PROVE  LimitTypes' /\ StepShape /\ raced' = raced
<1>0. /\ calls[r].at \in {"clock", "get", "set", "incrby"} /\ L!_cache_failure_decision(r)
      /\ L!Notes(r, L!Idle) /\ UNCHANGED <<counters, now, raced>>
  BY DEF L!CacheFails
<1>1. /\ IsCharge(limiter, Identity[r], calls[r].charge) /\ calls[r].charge.since <= now
      /\ limiter.provider = "redis"
  BY <1>0, CallNow
<1>2. PICK d \in Decided : /\ decisions' = Append(decisions, d)
                           /\ d.key = Identity[r] /\ d.since = calls[r].charge.since /\ d.at = now
                           /\ d.reason = "cache_unavailable" /\ (d.allowed => ~limiter.fail_closed)
                           /\ CellOf(d) = calls[r].charge.cell
  BY <1>0, <1>1, FailureOne
<1>3. Uncounted(d)
  BY <1>0, <1>1, <1>2 DEF Uncounted
<1>4. Calling(limiter, r, L!Idle, now)
  BY DEF Calling
<1>5. counters' \in [L!Cells -> {Nobody} \union Counter]
  BY <1>0 DEF LimitTypes
<1>6. LimitTypes'
  BY <1>0, <1>1, <1>2, <1>4, <1>5, CallTypes
<1> QED
  BY <1>0, <1>3, <1>6 DEF StepShape

\* The last command of an increment.
LEMMA IncrementStep ==
  ASSUME LimitTypes, Nobody \notin Counter, UNCHANGED limiter, NEW r \in Limited, L!Sets(r) \/ L!Incrby(r)
  PROVE  LimitTypes' /\ (~raced' => ~raced /\ StepShape)
<1> PICK x : x = calls[r].charge
  OBVIOUS
<1> PICK p : p = calls[r].previous
  OBVIOUS
<1>0. calls[r].at \in {"clock", "get", "set", "incrby"}
  BY DEF L!Sets, L!Incrby, L!At
<1>1. /\ calls[r] # L!Idle /\ limiter.provider = "redis" /\ Identity[r] # Nobody /\ p \in Nat
      /\ IsCharge(limiter, Identity[r], x) /\ x.since <= now /\ x.cell \in L!Cells
  BY <1>0, CallNow
<1>2. L!CounterTtl \in Nat /\ L!Never \in Nat /\ now \in Nat
  BY LimiterFields, DatabaseLockAssumption DEF LimitTypes, L!CounterTtl, L!Never, L!Window, L!Sliding
<1>3. PICK c : /\ L!Concludes(r, c)
               /\ \/ /\ c = [count |-> 1, until |-> now + L!CounterTtl]
                     /\ raced' = (raced \/ L!Counted(x.cell) > 0)
                  \/ /\ c = L!Incremented(x.cell, L!Never)
                     /\ raced' = (raced \/ L!Counted(x.cell) = 0)
  BY DEF L!Sets, L!Incrby
<1>4. c \in Counter
  BY <1>1, <1>2, <1>3, IncrementedOne DEF Counter
<1>5. L!Counted(x.cell) \in Nat
  BY <1>1, CountedOne
<1>6. ~raced' =>
        /\ ~raced
        /\ L!Counted(x.cell) = 0 => c.count = 1 /\ c.until = now + L!CounterTtl
        /\ L!Counted(x.cell) # 0 => c.count = counters[x.cell].count + 1 /\ c.until = counters[x.cell].until
  <2> SUFFICES ASSUME ~raced' 
                  PROVE  /\ ~raced
                         /\ L!Counted(x.cell) = 0 => c.count = 1 /\ c.until = now + L!CounterTtl
                         /\ L!Counted(x.cell) # 0 => /\ c.count = counters[x.cell].count + 1
                                                    /\ c.until = counters[x.cell].until
    OBVIOUS
  <2>1. CASE c = [count |-> 1, until |-> now + L!CounterTtl] /\ raced' = (raced \/ L!Counted(x.cell) > 0)
    <3>1. ~raced /\ ~(L!Counted(x.cell) > 0)
      BY <2>1
    <3>2. L!Counted(x.cell) = 0
      BY <3>1, <1>5
    <3> QED
      BY <2>1, <3>1, <3>2
  <2>2. CASE c = L!Incremented(x.cell, L!Never) /\ raced' = (raced \/ L!Counted(x.cell) = 0)
    <3>1. ~raced /\ L!Counted(x.cell) # 0
      BY <2>2
    <3> QED
      BY <2>2, <3>1, <1>1, <1>2, IncrementedOne
  <2> QED
    BY <1>3, <2>1, <2>2
<1>7. /\ counters' = [counters EXCEPT ![x.cell] = c] /\ L!Notes(r, L!Idle) /\ UNCHANGED now
      /\ L!Decides(r, x, p, c) \/ L!_cache_failure_decision(r)
  BY <1>3 DEF L!Concludes
<1>8. PICK d \in Decided :
        /\ decisions' = Append(decisions, d)
        /\ d.key = Identity[r] /\ d.since = x.since /\ d.at = now /\ CellOf(d) = x.cell
        /\ Judged(d, c, p) \/ (d.reason = "cache_unavailable" /\ (d.allowed => ~limiter.fail_closed))
  <2>1. CASE L!Decides(r, x, p, c)
    BY <1>1, <1>4, <2>1, DecidesOne
  <2>2. CASE L!_cache_failure_decision(r)
    BY <1>1, <2>2, FailureOne
  <2> QED
    BY <1>7, <2>1, <2>2
<1>9. ~raced' => Increments(r, d, c)
  BY <1>1, <1>4, <1>6, <1>7, <1>8 DEF Increments
<1>10. counters' \in [L!Cells -> {Nobody} \union Counter]
  BY <1>1, <1>4, <1>7 DEF LimitTypes
<1>11. Calling(limiter, r, L!Idle, now)
  BY DEF Calling
<1>12. LimitTypes'
  BY <1>1, <1>7, <1>8, <1>10, <1>11, CallTypes
<1> QED
  BY <1>6, <1>9, <1>12 DEF StepShape

LEMMA LimitStep ==
  ASSUME LimitTypes, Nobody \notin Counter, [L!Next]_L!rateVars
  PROVE  LimitTypes' /\ UNCHANGED limiter /\ (~raced' => ~raced /\ StepShape)
<1>1. CASE UNCHANGED L!rateVars
  <2>1. UNCHANGED <<limiter, counters, now, calls, decisions, raced>> /\ now <= now
    BY <1>1 DEF L!rateVars, LimitTypes
  <2>2. LimitTypes'
    BY <2>1 DEF LimitTypes
  <2> QED
    BY <2>1, <2>2 DEF StepShape, Uneventful
<1>2. CASE L!Tick /\ UNCHANGED limiter
  <2>1. raced' = raced
    BY <1>2 DEF L!Tick
  <2> QED
    BY <1>2, <2>1, TickStep DEF StepShape
<1>3. ASSUME NEW r \in Limited, L!RequestStep(r), UNCHANGED limiter
      PROVE  LimitTypes' /\ (~raced' => ~raced /\ StepShape)
  <2>1. CASE L!Passes(r)
    BY <1>3, <2>1, PassesStep
  <2>2. CASE L!check_memory(r)
    BY <1>3, <2>2, MemoryStep
  <2>3. CASE L!Starts(r)
    BY <1>3, <2>3, StartsStep DEF StepShape
  <2>4. CASE L!GetsPrevious(r) \/ L!Gets(r)
    BY <1>3, <2>4, GetsStep DEF StepShape
  <2>5. CASE L!Sets(r) \/ L!Incrby(r)
    BY <1>3, <2>5, IncrementStep
  <2>6. CASE L!CacheFails(r)
    BY <1>3, <2>6, FailsStep
  <2> QED
    BY <1>3, <2>1, <2>2, <2>3, <2>4, <2>5, <2>6 DEF L!RequestStep
<1> QED
  BY <1>1, <1>2, <1>3 DEF L!Next

-----------------------------------------------------------------------------
\* Decisions of a log l by their places: those for a key from a time on, with
\* a counter or in a bucket; what the i-th was counted with.
CallsFrom(l, k, t) == {j \in DOMAIN l : l[j].key = k /\ l[j].at >= t}
CallsIn(l, k, b, W) == {j \in DOMAIN l : l[j].key = k /\ l[j].since \div W = b}
PassedTill(l, k, u) == {j \in DOMAIN l : l[j].key = k /\ l[j].allowed /\ l[j].until = u}
Before(l, i, W) == {j \in 1 .. i : l[j].key = l[i].key /\ l[j].at > l[i].since - (2 * W)}
PassedIn(l, i, b, W) == {j \in 1 .. i : l[j].key = l[i].key /\ l[j].allowed /\ l[j].at \div W = b}

LEMMA Places ==
  ASSUME NEW n \in Nat, NEW S \in SUBSET (1 .. n)
  PROVE  /\ IsFiniteSet(S) /\ Cardinality(S) \in Nat
         /\ Cardinality(S \union {n + 1}) = Cardinality(S) + 1
         /\ \A T \in SUBSET S : Cardinality(T) <= Cardinality(S) /\ Cardinality(T) \in Nat
<1>1. IsFiniteSet(1 .. n)
  BY FS_Interval
<1>2. IsFiniteSet(S)
  BY <1>1, FS_Subset
<1>3. n + 1 \notin S
  OBVIOUS
<1>4. Cardinality(S) \in Nat
  BY <1>2, FS_CardinalityType
<1>5. Cardinality(S \union {n + 1}) = Cardinality(S) + 1
  BY <1>2, <1>3, FS_AddElement
<1>6. \A T \in SUBSET S : Cardinality(T) <= Cardinality(S) /\ Cardinality(T) \in Nat
  BY <1>2, FS_Subset, FS_CardinalityType
<1> QED
  BY <1>2, <1>4, <1>5, <1>6

LEMMA Appended ==
  ASSUME NEW l \in Seq(Decided), NEW d \in Decided, NEW m, m = Append(l, d), NEW n, n = Len(l)
  PROVE  /\ n \in Nat /\ m \in Seq(Decided) /\ DOMAIN l = 1 .. n /\ DOMAIN m = 1 .. n + 1 /\ m[n + 1] = d
         /\ \A i \in 1 .. n : m[i] = l[i]
OBVIOUS

LEMMA FromAppended ==
  ASSUME NEW l \in Seq(Decided), NEW d \in Decided, NEW k, NEW t \in Int
  PROVE  /\ Cardinality(CallsFrom(l, k, t)) \in Nat
         /\ d.key = k /\ d.at >= t => Cardinality(CallsFrom(Append(l, d), k, t)) = Cardinality(CallsFrom(l, k, t)) + 1
         /\ ~(d.key = k /\ d.at >= t) => Cardinality(CallsFrom(Append(l, d), k, t)) = Cardinality(CallsFrom(l, k, t))
<1> PICK m : m = Append(l, d)
  OBVIOUS
<1> PICK n : n = Len(l)
  OBVIOUS
<1>1. /\ n \in Nat /\ DOMAIN l = 1 .. n /\ DOMAIN m = 1 .. n + 1 /\ m[n + 1] = d
      /\ \A i \in 1 .. n : m[i] = l[i]
  BY Appended
<1>2. CallsFrom(l, k, t) \in SUBSET (1 .. n)
  BY <1>1 DEF CallsFrom
<1>3. CASE d.key = k /\ d.at >= t
  <2>1. CallsFrom(m, k, t) = CallsFrom(l, k, t) \union {n + 1}
    BY <1>1, <1>3 DEF CallsFrom
  <2>2. Cardinality(CallsFrom(l, k, t)) \in Nat /\ Cardinality(CallsFrom(l, k, t) \union {n + 1}) = Cardinality(CallsFrom(l, k, t)) + 1
    BY <1>1, <1>2, Places
  <2>3. Cardinality(CallsFrom(m, k, t)) = Cardinality(CallsFrom(l, k, t)) + 1
    BY <2>1, <2>2
  <2> QED
    BY <2>2, <2>3, <1>3
<1>4. CASE ~(d.key = k /\ d.at >= t)
  <2>1. CallsFrom(m, k, t) = CallsFrom(l, k, t)
    BY <1>1, <1>4 DEF CallsFrom
  <2> QED
    BY <2>1, <1>1, <1>2, <1>4, Places
<1> QED
  BY <1>3, <1>4

LEMMA InAppended ==
  ASSUME NEW l \in Seq(Decided), NEW d \in Decided, NEW k, NEW b, NEW W \in Nat \ {0}
  PROVE  /\ Cardinality(CallsIn(l, k, b, W)) \in Nat
         /\ d.key = k /\ d.since \div W = b => Cardinality(CallsIn(Append(l, d), k, b, W)) = Cardinality(CallsIn(l, k, b, W)) + 1
         /\ ~(d.key = k /\ d.since \div W = b) => Cardinality(CallsIn(Append(l, d), k, b, W)) = Cardinality(CallsIn(l, k, b, W))
<1> PICK m : m = Append(l, d)
  OBVIOUS
<1> PICK n : n = Len(l)
  OBVIOUS
<1>1. /\ n \in Nat /\ DOMAIN l = 1 .. n /\ DOMAIN m = 1 .. n + 1 /\ m[n + 1] = d
      /\ \A i \in 1 .. n : m[i] = l[i]
  BY Appended
<1>2. CallsIn(l, k, b, W) \in SUBSET (1 .. n)
  BY <1>1 DEF CallsIn
<1>3. CASE d.key = k /\ d.since \div W = b
  <2>1. CallsIn(m, k, b, W) = CallsIn(l, k, b, W) \union {n + 1}
    BY <1>1, <1>3 DEF CallsIn
  <2>2. Cardinality(CallsIn(l, k, b, W)) \in Nat /\ Cardinality(CallsIn(l, k, b, W) \union {n + 1}) = Cardinality(CallsIn(l, k, b, W)) + 1
    BY <1>1, <1>2, Places
  <2>3. Cardinality(CallsIn(m, k, b, W)) = Cardinality(CallsIn(l, k, b, W)) + 1
    BY <2>1, <2>2
  <2> QED
    BY <2>2, <2>3, <1>3
<1>4. CASE ~(d.key = k /\ d.since \div W = b)
  <2>1. CallsIn(m, k, b, W) = CallsIn(l, k, b, W)
    BY <1>1, <1>4 DEF CallsIn
  <2> QED
    BY <2>1, <1>1, <1>2, <1>4, Places
<1> QED
  BY <1>3, <1>4

LEMMA TillAppended ==
  ASSUME NEW l \in Seq(Decided), NEW d \in Decided, NEW k, NEW u
  PROVE  /\ Cardinality(PassedTill(l, k, u)) \in Nat
         /\ d.key = k /\ d.allowed /\ d.until = u => Cardinality(PassedTill(Append(l, d), k, u)) = Cardinality(PassedTill(l, k, u)) + 1
         /\ ~(d.key = k /\ d.allowed /\ d.until = u) => Cardinality(PassedTill(Append(l, d), k, u)) = Cardinality(PassedTill(l, k, u))
<1> PICK m : m = Append(l, d)
  OBVIOUS
<1> PICK n : n = Len(l)
  OBVIOUS
<1>1. /\ n \in Nat /\ DOMAIN l = 1 .. n /\ DOMAIN m = 1 .. n + 1 /\ m[n + 1] = d
      /\ \A i \in 1 .. n : m[i] = l[i]
  BY Appended
<1>2. PassedTill(l, k, u) \in SUBSET (1 .. n)
  BY <1>1 DEF PassedTill
<1>3. CASE d.key = k /\ d.allowed /\ d.until = u
  <2>1. PassedTill(m, k, u) = PassedTill(l, k, u) \union {n + 1}
    BY <1>1, <1>3 DEF PassedTill
  <2>2. Cardinality(PassedTill(l, k, u)) \in Nat /\ Cardinality(PassedTill(l, k, u) \union {n + 1}) = Cardinality(PassedTill(l, k, u)) + 1
    BY <1>1, <1>2, Places
  <2>3. Cardinality(PassedTill(m, k, u)) = Cardinality(PassedTill(l, k, u)) + 1
    BY <2>1, <2>2
  <2> QED
    BY <2>2, <2>3, <1>3
<1>4. CASE ~(d.key = k /\ d.allowed /\ d.until = u)
  <2>1. PassedTill(m, k, u) = PassedTill(l, k, u)
    BY <1>1, <1>4 DEF PassedTill
  <2> QED
    BY <2>1, <1>1, <1>2, <1>4, Places
<1> QED
  BY <1>3, <1>4

\* What was counted for a decision of the past does not change.
LEMMA PastAppended ==
  ASSUME NEW l \in Seq(Decided), NEW d \in Decided, NEW i \in DOMAIN l
  PROVE  /\ Append(l, d)[i] = l[i] /\ \A W : Before(Append(l, d), i, W) = Before(l, i, W)
         /\ \A b, W : PassedIn(Append(l, d), i, b, W) = PassedIn(l, i, b, W)
<1> PICK m : m = Append(l, d)
  OBVIOUS
<1> PICK n : n = Len(l)
  OBVIOUS
<1>1. /\ n \in Nat /\ DOMAIN l = 1 .. n /\ \A j \in 1 .. n : m[j] = l[j]
  BY Appended
<1>2. \A j \in 1 .. i : m[j] = l[j]
  BY <1>1
<1>3. m[i] = l[i]
  BY <1>1
<1> QED
  BY <1>2, <1>3 DEF Before, PassedIn

-----------------------------------------------------------------------------
(* Fixed windows.  Of a key with counter c: the counter ends within a window *)
(* and counts no more than was called in its lifetime; under a rule that     *)
(* fails closed, what passed did so with this counter or one that ended a    *)
(* window earlier at least, and no more than counted, nor than the limit.    *)
FixedKey(k, c, l, t, lm) ==
  /\ c # Nobody => /\ c.until <= t + lm.window
                   /\ c.count <= Cardinality(CallsFrom(l, k, c.until - lm.window))
  /\ lm.fail_closed =>
       /\ \A i \in DOMAIN l : l[i].key = k /\ l[i].allowed =>
            /\ c # Nobody /\ (l[i].until = c.until \/ l[i].until + lm.window <= c.until)
            /\ l[i].until - lm.window <= l[i].at /\ l[i].at < l[i].until
       /\ \A i, j \in DOMAIN l :
            /\ l[i].key = k /\ l[i].allowed /\ l[j].key = k /\ l[j].allowed /\ l[i].until < l[j].until
            => l[i].until + lm.window <= l[j].until
       /\ \A u \in Nat : Cardinality(PassedTill(l, k, u)) <= lm.limit
       /\ c # Nobody => Cardinality(PassedTill(l, k, c.until)) <= c.count

IsLimiter(lm) == lm.limit \in Nat \ {0} /\ lm.window \in Nat \ {0} /\ lm.fail_closed \in BOOLEAN

LEMMA KeyUncounted ==
  ASSUME NEW lm, IsLimiter(lm), NEW k, NEW c \in {Nobody} \union Counter, NEW l \in Seq(Decided), NEW t \in Nat,
         FixedKey(k, c, l, t, lm), NEW d \in Decided, d.key = k /\ lm.fail_closed => ~d.allowed,
         NEW m, m = Append(l, d)
  PROVE  FixedKey(k, c, m, t, lm)
<1> PICK n : n = Len(l)
  OBVIOUS
<1>0. /\ n \in Nat /\ DOMAIN l = 1 .. n /\ DOMAIN m = 1 .. n + 1 /\ m[n + 1] = d
      /\ \A i \in 1 .. n : m[i] = l[i]
  BY Appended
<1>1. ASSUME c # Nobody
      PROVE  c.until <= t + lm.window /\ c.count <= Cardinality(CallsFrom(m, k, c.until - lm.window))
  <2> PICK s \in Int : s = c.until - lm.window
    BY <1>1 DEF Counter, IsLimiter
  <2>1. c.until <= t + lm.window /\ c.count <= Cardinality(CallsFrom(l, k, s)) /\ c.count \in Nat
    BY <1>1 DEF FixedKey, Counter
  <2>2. /\ Cardinality(CallsFrom(l, k, s)) \in Nat
        /\ \/ Cardinality(CallsFrom(m, k, s)) = Cardinality(CallsFrom(l, k, s))
           \/ Cardinality(CallsFrom(m, k, s)) = Cardinality(CallsFrom(l, k, s)) + 1
    BY FromAppended
  <2> QED
    BY <2>1, <2>2
<1>2. ASSUME lm.fail_closed
      PROVE  /\ \A i \in DOMAIN m : m[i].key = k /\ m[i].allowed => i \in DOMAIN l /\ m[i] = l[i]
             /\ \A u : Cardinality(PassedTill(m, k, u)) = Cardinality(PassedTill(l, k, u))
  <2>1. d.key = k => ~d.allowed
    BY <1>2
  <2>2. ASSUME NEW i \in DOMAIN m, m[i].key = k, m[i].allowed PROVE i \in DOMAIN l /\ m[i] = l[i]
    <3>1. i # n + 1
      BY <2>1, <2>2, <1>0
    <3> QED
      BY <3>1, <1>0
  <2>3. ASSUME NEW u PROVE Cardinality(PassedTill(m, k, u)) = Cardinality(PassedTill(l, k, u))
    <3>1. ~(d.key = k /\ d.allowed /\ d.until = u)
      BY <2>1
    <3> QED
      BY <3>1, TillAppended
  <2> QED
    BY <2>2, <2>3
<1>3. ASSUME lm.fail_closed
      PROVE  /\ \A i \in DOMAIN m : m[i].key = k /\ m[i].allowed =>
                  /\ c # Nobody /\ (m[i].until = c.until \/ m[i].until + lm.window <= c.until)
                  /\ m[i].until - lm.window <= m[i].at /\ m[i].at < m[i].until
             /\ \A i, j \in DOMAIN m :
                  /\ m[i].key = k /\ m[i].allowed /\ m[j].key = k /\ m[j].allowed /\ m[i].until < m[j].until
                  => m[i].until + lm.window <= m[j].until
             /\ \A u \in Nat : Cardinality(PassedTill(m, k, u)) <= lm.limit
             /\ c # Nobody => Cardinality(PassedTill(m, k, c.until)) <= c.count
  BY <1>2, <1>3 DEF FixedKey
<1> QED
  BY <1>1, <1>3 DEF FixedKey

LEMMA KeyHit ==
  ASSUME NEW lm, IsLimiter(lm), NEW k, NEW c \in {Nobody} \union Counter, NEW l \in Seq(Decided), NEW t \in Nat,
         FixedKey(k, c, l, t, lm), NEW d \in Decided, d.key = k, d.at = t,
         NEW m, m = Append(l, d), NEW e \in Counter, Nobody \notin Counter,
         \/ c # Nobody /\ t < c.until /\ e.count = c.count + 1 /\ e.until = c.until
         \/ (c = Nobody \/ c.until <= t) /\ e.count = 1 /\ e.until = t + lm.window,
         lm.fail_closed /\ d.allowed => d.until = e.until /\ e.count <= lm.limit
  PROVE  /\ FixedKey(k, e, m, t, lm)
         /\ e.count <= Cardinality(CallsFrom(m, k, e.until - lm.window)) /\ e.until <= t + lm.window
<1> PICK n : n = Len(l)
  OBVIOUS
<1>0. /\ n \in Nat /\ DOMAIN l = 1 .. n /\ DOMAIN m = 1 .. n + 1 /\ m[n + 1] = d
      /\ \A i \in 1 .. n : m[i] = l[i] /\ l[i] \in Decided
  BY Appended
<1> PICK W \in Nat \ {0} : W = lm.window
  BY DEF IsLimiter
<1> DEFINE Live == c # Nobody /\ t < c.until /\ e.count = c.count + 1 /\ e.until = c.until
           New == (c = Nobody \/ c.until <= t) /\ e.count = 1 /\ e.until = t + W
<1>n. Live \/ New
  OBVIOUS
<1>c. c # Nobody => c.count \in Nat \ {0} /\ c.until \in Nat /\ c.until <= t + W
                    /\ c.count <= Cardinality(CallsFrom(l, k, c.until - W))
  BY DEF Counter, FixedKey
<1>e. e # Nobody /\ e.count \in Nat \ {0} /\ e.until \in Nat /\ t < e.until /\ e.until <= t + W
  BY <1>n, <1>c DEF Counter
<1>1. e.count <= Cardinality(CallsFrom(m, k, e.until - W))
  <2> PICK s \in Int : s = e.until - W
    BY <1>e
  <2>1. s <= t
    BY <1>e
  <2>2. /\ Cardinality(CallsFrom(l, k, s)) \in Nat
        /\ Cardinality(CallsFrom(m, k, s)) = Cardinality(CallsFrom(l, k, s)) + 1
    BY <2>1, FromAppended
  <2>3. CASE Live
    BY <2>3, <2>2, <1>c
  <2>4. CASE New
    BY <2>4, <2>2
  <2> QED
    BY <1>n, <2>3, <2>4
<1>2. ASSUME lm.fail_closed, NEW i \in DOMAIN m, m[i].key = k, m[i].allowed
      PROVE  /\ m[i].until = e.until \/ m[i].until + W <= e.until
             /\ m[i].until - W <= m[i].at /\ m[i].at < m[i].until /\ m[i].until \in Nat
  <2>1. CASE i = n + 1
    <3>1. d.until = e.until /\ m[i] = d
      BY <1>0, <1>2, <2>1
    <3> QED
      BY <3>1, <1>e
  <2>2. CASE i # n + 1
    <3>1. i \in DOMAIN l /\ m[i] = l[i] /\ l[i] \in Decided
      BY <1>0, <2>2
    <3>2. /\ c # Nobody /\ (l[i].until = c.until \/ l[i].until + W <= c.until)
          /\ l[i].until - W <= l[i].at /\ l[i].at < l[i].until
      BY <3>1, <1>2 DEF FixedKey
    <3>3. l[i].until \in Nat
      BY <3>1 DEF Decided
    <3>4. CASE Live
      BY <3>1, <3>2, <3>3, <3>4
    <3>5. CASE New
      BY <3>1, <3>2, <3>3, <3>5, <1>c
    <3> QED
      BY <3>4, <3>5, <1>n
  <2> QED
    BY <2>1, <2>2
<1>3. ASSUME lm.fail_closed, NEW i \in DOMAIN m, NEW j \in DOMAIN m,
             m[i].key = k, m[i].allowed, m[j].key = k, m[j].allowed, m[i].until < m[j].until
      PROVE  m[i].until + W <= m[j].until
  <2>1. CASE i # n + 1 /\ j # n + 1
    BY <2>1, <1>0, <1>3 DEF FixedKey
  <2>2. CASE j = n + 1
    <3>1. m[j].until = e.until
      BY <2>2, <1>0, <1>3
    <3>2. m[i].until \in Nat /\ (m[i].until = e.until \/ m[i].until + W <= e.until)
      BY <1>2, <1>3
    <3> QED
      BY <3>1, <3>2, <1>3, <1>e
  <2>3. CASE i = n + 1
    <3>1. m[i].until = e.until
      BY <2>3, <1>0, <1>3
    <3>2. m[j].until \in Nat /\ (m[j].until = e.until \/ m[j].until + W <= e.until)
      BY <1>2, <1>3
    <3> QED
      BY <3>1, <3>2, <1>3, <1>e
  <2> QED
    BY <2>1, <2>2, <2>3
<1>4. ASSUME lm.fail_closed, NEW u \in Nat
      PROVE  Cardinality(PassedTill(m, k, u)) <= lm.limit /\ (u = e.until => Cardinality(PassedTill(m, k, u)) <= e.count)
  <2> PICK p : p = Cardinality(PassedTill(l, k, u))
    OBVIOUS
  <2> PICK q : q = Cardinality(PassedTill(m, k, u))
    OBVIOUS
  <2>1. /\ p \in Nat
        /\ d.key = k /\ d.allowed /\ d.until = u => q = p + 1
        /\ ~(d.key = k /\ d.allowed /\ d.until = u) => q = p
    BY TillAppended
  <2>2. p <= lm.limit /\ lm.limit \in Nat
    BY <1>4 DEF FixedKey, IsLimiter
  <2>3. u = e.until /\ Live => p <= c.count
    BY <1>4 DEF FixedKey
  <2>4. u = e.until /\ New => p = 0
    <3> SUFFICES ASSUME u = e.until, New PROVE PassedTill(l, k, u) = {}
      BY FS_EmptySet
    <3> SUFFICES ASSUME NEW i \in DOMAIN l, l[i].key = k, l[i].allowed, l[i].until = u PROVE FALSE
      BY DEF PassedTill
    <3>1. c # Nobody /\ (u = c.until \/ u + W <= c.until)
      BY <1>4 DEF FixedKey
    <3> QED
      BY <3>1, <1>c
  <2>5. u = e.until => p + 1 <= e.count
    BY <2>1, <2>3, <2>4, <1>n, <1>c, <1>e
  <2>6. CASE d.allowed /\ d.until = u
    <3>1. u = e.until /\ e.count <= lm.limit
      BY <2>6, <1>4
    <3> QED
      BY <3>1, <2>1, <2>2, <2>5, <2>6, <1>e
  <2>7. CASE ~(d.allowed /\ d.until = u)
    BY <2>1, <2>2, <2>5, <2>7, <1>e
  <2> QED
    BY <2>6, <2>7
<1>5. lm.fail_closed =>
        /\ \A i \in DOMAIN m : m[i].key = k /\ m[i].allowed =>
             /\ e # Nobody /\ (m[i].until = e.until \/ m[i].until + lm.window <= e.until)
             /\ m[i].until - lm.window <= m[i].at /\ m[i].at < m[i].until
        /\ \A i, j \in DOMAIN m :
             /\ m[i].key = k /\ m[i].allowed /\ m[j].key = k /\ m[j].allowed /\ m[i].until < m[j].until
             => m[i].until + lm.window <= m[j].until
        /\ \A u \in Nat : Cardinality(PassedTill(m, k, u)) <= lm.limit
        /\ e # Nobody => Cardinality(PassedTill(m, k, e.until)) <= e.count
  BY <1>2, <1>3, <1>4, <1>e
<1> QED
  BY <1>1, <1>5, <1>e DEF FixedKey

(* Every denial was for cause, and of a fixed window ends in time.           *)
Cause(l, i, lm) ==
  /\ Cardinality(Before(l, i, lm.window)) > lm.limit
  /\ ~lm.sliding => l[i].until <= l[i].at + lm.window
Denials(l, lm) == \A i \in DOMAIN l : l[i].reason = "limit_exceeded" => Cause(l, i, lm)

LEMMA DenialsAppended ==
  ASSUME NEW lm, NEW l \in Seq(Decided), NEW d \in Decided, Denials(l, lm),
         d.reason = "limit_exceeded" => Cause(Append(l, d), Len(l) + 1, lm)
  PROVE  Denials(Append(l, d), lm)
<1> PICK m : m = Append(l, d)
  OBVIOUS
<1> PICK n : n = Len(l)
  OBVIOUS
<1>1. /\ n \in Nat /\ DOMAIN l = 1 .. n /\ DOMAIN m = 1 .. n + 1 /\ m[n + 1] = d
      /\ \A i \in 1 .. n : m[i] = l[i]
  BY Appended
<1>2. ASSUME NEW i \in DOMAIN m, m[i].reason = "limit_exceeded" PROVE Cause(m, i, lm)
  <2>1. CASE i = n + 1
    BY <1>1, <1>2, <2>1
  <2>2. CASE i # n + 1
    <3>1. i \in DOMAIN l /\ m[i] = l[i]
      BY <1>1, <2>2
    <3>2. Before(m, i, lm.window) = Before(l, i, lm.window)
      BY <3>1, PastAppended
    <3>3. Cause(l, i, lm)
      BY <3>1, <1>2 DEF Denials
    <3> QED
      BY <3>1, <3>2, <3>3 DEF Cause
  <2> QED
    BY <2>1, <2>2
<1> QED
  BY <1>2 DEF Denials

\* The calls of a counter's lifetime are calls before the denial.
LEMMA FixedCause ==
  ASSUME NEW lm, IsLimiter(lm), NEW l \in Seq(Decided), NEW d \in Decided, d.since <= d.at, NEW u \in Nat,
         NEW c \in Nat, d.at < u,
         c <= Cardinality(CallsFrom(Append(l, d), d.key, u - lm.window)), c > lm.limit
  PROVE  Cardinality(Before(Append(l, d), Len(l) + 1, lm.window)) > lm.limit
<1> PICK m : m = Append(l, d)
  OBVIOUS
<1> PICK n : n = Len(l)
  OBVIOUS
<1> PICK W \in Nat \ {0} : W = lm.window
  BY DEF IsLimiter
<1>1. /\ n \in Nat /\ m \in Seq(Decided) /\ DOMAIN l = 1 .. n /\ DOMAIN m = 1 .. n + 1 /\ m[n + 1] = d
  BY Appended
<1>2. d.since \in Nat /\ d.at \in Nat /\ \A j \in 1 .. n + 1 : m[j].at \in Nat
  <2>1. ASSUME NEW j \in 1 .. n + 1 PROVE m[j] \in Decided
    BY <1>1
  <2> QED
    BY <2>1 DEF Decided
<1>3. ASSUME NEW j \in CallsFrom(m, d.key, u - W) PROVE j \in Before(m, n + 1, W)
  <2>1. j \in 1 .. n + 1 /\ m[j].key = d.key /\ m[j].at >= u - W
    BY <1>1, <1>3 DEF CallsFrom
  <2>2. m[j].at > d.since - (2 * W)
    <3> PICK a \in Nat : a = m[j].at
      BY <1>2, <2>1
    <3> PICK f \in Nat : f = d.since
      BY <1>2
    <3>1. a >= u - W /\ f < u
      BY <1>2, <2>1
    <3>2. a > f - (2 * W)
      BY ONLY <3>1, a \in Nat, f \in Nat, u \in Nat, W \in Nat \ {0}
    <3> QED
      BY <3>2
  <2> QED
    BY <1>1, <2>1, <2>2 DEF Before
<1>4. Before(m, n + 1, W) \in SUBSET (1 .. n + 1)
  BY DEF Before
<1>5. n + 1 \in Nat
  BY <1>1
<1>6. /\ Cardinality(Before(m, n + 1, W)) \in Nat
      /\ Cardinality(CallsFrom(m, d.key, u - W)) <= Cardinality(Before(m, n + 1, W))
      /\ Cardinality(CallsFrom(m, d.key, u - W)) \in Nat
  BY <1>3, <1>4, <1>5, Places
<1> QED
  BY <1>6 DEF IsLimiter

\* Retry-After.  The counter of key k is one that denied, or began no earlier
\* than every one that denied ended; and whoever is denied from the end of a
\* counter that denied on has used up the limit since.
RetryKey(c, l, k, W) ==
  \A i \in DOMAIN l : l[i].key = k /\ l[i].reason = "limit_exceeded" =>
    c # Nobody /\ (l[i].until = c.until \/ l[i].until + W <= c.until)

Since(l, j, t) == {m \in 1 .. j : l[m].key = l[j].key /\ l[m].at >= t}
Renewed(l, i, j, M) ==
  /\ l[i].reason = "limit_exceeded" /\ l[j].reason = "limit_exceeded" /\ l[j].key = l[i].key
  /\ l[j].at >= l[i].until
  => Cardinality(Since(l, j, l[i].until)) > M
Retried(l, M) == \A j \in DOMAIN l : \A i \in 1 .. j - 1 : Renewed(l, i, j, M)
Excused(l, d, M) ==
  d.reason = "limit_exceeded" => \A i \in DOMAIN l : Renewed(Append(l, d), i, Len(l) + 1, M)

LEMMA RetryElse ==
  ASSUME NEW c, NEW k, NEW W, NEW l \in Seq(Decided), NEW d \in Decided, RetryKey(c, l, k, W),
         ~(d.key = k /\ d.reason = "limit_exceeded")
  PROVE  RetryKey(c, Append(l, d), k, W)
<1> PICK m : m = Append(l, d)
  OBVIOUS
<1> PICK n : n = Len(l)
  OBVIOUS
<1>1. /\ n \in Nat /\ DOMAIN l = 1 .. n /\ DOMAIN m = 1 .. n + 1 /\ m[n + 1] = d
      /\ \A i \in 1 .. n : m[i] = l[i]
  BY Appended
<1>2. ASSUME NEW i \in DOMAIN m, m[i].key = k, m[i].reason = "limit_exceeded"
      PROVE  c # Nobody /\ (m[i].until = c.until \/ m[i].until + W <= c.until)
  <2>1. i \in 1 .. n
    BY <1>1, <1>2
  <2> QED
    BY <2>1, <1>1, <1>2 DEF RetryKey
<1> QED
  BY <1>2 DEF RetryKey

\* A decision that is not a denial, or is one for cause, keeps the old ones.
LEMMA RetriedAppended ==
  ASSUME NEW M, NEW l \in Seq(Decided), NEW d \in Decided, Retried(l, M), Excused(l, d, M)
  PROVE  Retried(Append(l, d), M)
<1> PICK m : m = Append(l, d)
  OBVIOUS
<1> PICK n : n = Len(l)
  OBVIOUS
<1>1. /\ n \in Nat /\ DOMAIN l = 1 .. n /\ DOMAIN m = 1 .. n + 1 /\ m[n + 1] = d
      /\ \A i \in 1 .. n : m[i] = l[i]
  BY Appended
<1>2. ASSUME NEW j \in DOMAIN m, NEW i \in 1 .. j - 1 PROVE Renewed(m, i, j, M)
  <2>1. CASE j = n + 1
    <3>1. i \in DOMAIN l /\ m[j] = d
      BY <1>1, <2>1
    <3>2. CASE d.reason = "limit_exceeded"
      BY <3>1, <3>2, <2>1 DEF Excused
    <3>3. CASE d.reason # "limit_exceeded"
      BY <3>1, <3>3 DEF Renewed
    <3> QED
      BY <3>2, <3>3
  <2>2. CASE j # n + 1
    <3>1. j \in 1 .. n /\ i \in 1 .. n /\ 1 .. j \subseteq 1 .. n
      BY <1>1, <2>2
    <3>2. m[i] = l[i] /\ m[j] = l[j] /\ \A t : Since(m, j, t) = Since(l, j, t)
      BY <3>1, <1>1 DEF Since
    <3>3. Renewed(l, i, j, M)
      BY <3>1, <1>1 DEF Retried
    <3> QED
      BY <3>2, <3>3 DEF Renewed
  <2> QED
    BY <2>1, <2>2
<1> QED
  BY <1>2 DEF Retried

\* An increment of the counter of key k, from c to e, for the decision d.
CountsOn(c, e, t, W) ==
  \/ c # Nobody /\ t < c.until /\ e.count = c.count + 1 /\ e.until = c.until
  \/ (c = Nobody \/ c.until <= t) /\ e.count = 1 /\ e.until = t + W
DecidedOn(l, d, e, lm) ==
  /\ e.count <= Cardinality(CallsFrom(Append(l, d), d.key, e.until - lm.window))
  /\ d.reason = "limit_exceeded" => d.until = e.until /\ e.count > lm.limit

LEMMA RetryHit ==
  ASSUME NEW lm, IsLimiter(lm), NEW k, NEW c \in {Nobody} \union Counter, NEW l \in Seq(Decided), NEW t \in Nat,
         RetryKey(c, l, k, lm.window), NEW d \in Decided, d.key = k, d.at = t,
         NEW e \in Counter, Nobody \notin Counter, CountsOn(c, e, t, lm.window), DecidedOn(l, d, e, lm)
  PROVE  RetryKey(e, Append(l, d), k, lm.window) /\ Excused(l, d, lm.limit)
<1> PICK m : m = Append(l, d)
  OBVIOUS
<1> PICK n : n = Len(l)
  OBVIOUS
<1>0. /\ n \in Nat /\ DOMAIN l = 1 .. n /\ DOMAIN m = 1 .. n + 1 /\ m[n + 1] = d
      /\ \A i \in 1 .. n : m[i] = l[i] /\ l[i] \in Decided
  BY Appended
<1> PICK W \in Nat \ {0} : W = lm.window
  BY DEF IsLimiter
<1> PICK u \in Nat : u = e.until
  BY DEF Counter
<1>1. ASSUME NEW i \in 1 .. n, l[i].key = k, l[i].reason = "limit_exceeded"
      PROVE  (l[i].until = u \/ l[i].until + W <= u) /\ (l[i].until <= t => l[i].until + W <= u)
  <2> PICK v \in Nat : v = l[i].until
    BY <1>0 DEF Decided
  <2>1. c # Nobody /\ (v = c.until \/ v + W <= c.until)
    BY <1>0, <1>1 DEF RetryKey
  <2> PICK w \in Nat : w = c.until
    BY <2>1 DEF Counter
  <2>2. (t < w /\ u = w) \/ (w <= t /\ u = t + W)
    BY <2>1 DEF CountsOn
  <2>3. v = w \/ v + W <= w
    BY <2>1
  <2>4. (v = u \/ v + W <= u) /\ (v <= t => v + W <= u)
    BY ONLY <2>2, <2>3, t \in Nat, u \in Nat, v \in Nat, w \in Nat, W \in Nat \ {0}
  <2> QED
    BY <2>4
<1>2. RetryKey(e, m, k, W)
  <2>1. ASSUME NEW i \in DOMAIN m, m[i].key = k, m[i].reason = "limit_exceeded"
        PROVE  e # Nobody /\ (m[i].until = e.until \/ m[i].until + W <= e.until)
    <3>1. CASE i = n + 1
      <4>1. m[i] = d /\ d.until = e.until
        BY <3>1, <2>1, <1>0 DEF DecidedOn
      <4> QED
        BY <4>1
    <3>2. CASE i # n + 1
      <4>1. i \in 1 .. n /\ m[i] = l[i]
        BY <3>2, <1>0
      <4> QED
        BY <4>1, <2>1, <1>1
    <3> QED
      BY <3>1, <3>2
  <2> QED
    BY <2>1 DEF RetryKey
<1>3. ASSUME d.reason = "limit_exceeded", NEW i \in DOMAIN l PROVE Renewed(m, i, n + 1, lm.limit)
  <2>1. i \in 1 .. n /\ m[i] = l[i] /\ m[n + 1] = d
    BY <1>0
  <2> SUFFICES ASSUME l[i].reason = "limit_exceeded", d.key = l[i].key, d.at >= l[i].until
               PROVE  Cardinality(Since(m, n + 1, l[i].until)) > lm.limit
    BY <2>1 DEF Renewed
  <2> PICK v \in Nat : v = l[i].until
    BY <2>1, <1>0 DEF Decided
  <2>2. v + W <= u
    BY <2>1, <1>1
  <2>3. \A j \in 1 .. n + 1 : m[j].at \in Nat
    <3>1. ASSUME NEW j \in 1 .. n + 1 PROVE m[j] \in Decided
      BY <1>0
    <3> QED
      BY <3>1 DEF Decided
  <2>4. ASSUME NEW j \in CallsFrom(m, k, u - W) PROVE j \in Since(m, n + 1, v)
    <3>1. j \in 1 .. n + 1 /\ m[j].key = k /\ m[j].at >= u - W
      BY <2>4, <1>0 DEF CallsFrom
    <3> PICK a \in Nat : a = m[j].at
      BY <3>1, <2>3
    <3>2. a >= v
      BY ONLY <2>2, <3>1, a = m[j].at, a \in Nat, u \in Nat, v \in Nat, W \in Nat \ {0}
    <3> QED
      BY <3>1, <3>2, <2>1 DEF Since
  <2>5. Since(m, n + 1, v) \in SUBSET (1 .. n + 1) /\ n + 1 \in Nat
    BY <1>0 DEF Since
  <2>6. /\ Cardinality(Since(m, n + 1, v)) \in Nat
        /\ Cardinality(CallsFrom(m, k, u - W)) <= Cardinality(Since(m, n + 1, v))
        /\ Cardinality(CallsFrom(m, k, u - W)) \in Nat
    BY <2>4, <2>5, Places
  <2>7. e.count > lm.limit /\ e.count <= Cardinality(CallsFrom(m, k, u - W)) /\ e.count \in Nat /\ lm.limit \in Nat
    BY <1>3 DEF Counter, IsLimiter, DecidedOn
  <2> QED
    BY <2>6, <2>7
<1> QED
  BY <1>2, <1>3 DEF Excused

RetryInv ==
  ~limiter.sliding =>
    /\ \A k \in L!Keys : RetryKey(counters[<<k, 0>>], decisions, k, limiter.window)
    /\ Retried(decisions, limiter.limit)

FixedInv == ~limiter.sliding => \A k \in L!Keys : FixedKey(k, counters[<<k, 0>>], decisions, now, limiter)

LEMMA FixedStep ==
  ASSUME LimitTypes, UNCHANGED limiter, ~limiter.sliding, Nobody \notin Counter, now' \in Nat,
         FixedInv, RetryInv, Denials(decisions, limiter), StepShape
  PROVE  FixedInv' /\ RetryInv' /\ Denials(decisions', limiter')
<1> PICK lm : lm = limiter
  OBVIOUS
<1> PICK l \in Seq(Decided) : l = decisions
  BY DEF LimitTypes
<1> PICK t \in Nat : t = now
  BY DEF LimitTypes
<1> PICK W \in Nat \ {0} : W = lm.window
  BY LimiterFields DEF LimitTypes
<1>0. IsLimiter(lm) /\ MaxTime \in Nat
  BY LimiterFields, DatabaseLockAssumption DEF LimitTypes, IsLimiter
<1>1. ASSUME NEW k \in L!Keys
      PROVE  <<k, 0>> \in L!Cells /\ counters[<<k, 0>>] \in {Nobody} \union Counter /\ k # Nobody
             /\ FixedKey(k, counters[<<k, 0>>], l, t, lm) /\ RetryKey(counters[<<k, 0>>], l, k, W)
  <2>1. <<k, 0>> \in L!Cells /\ k # Nobody
    BY <1>0 DEF L!Cells, L!Keys
  <2> QED
    BY <2>1 DEF LimitTypes, FixedInv, RetryInv
<1>2. CASE Uneventful
  <2>1. ASSUME NEW k \in L!Keys PROVE FixedKey(k, counters'[<<k, 0>>], decisions', now', limiter')
    <3> PICK c \in {Nobody} \union Counter : c = counters[<<k, 0>>]
      BY <1>1
    <3>1. c # Nobody => c.until \in Nat
      BY DEF Counter
    <3>2. now \in Nat /\ now <= now'
      BY <1>2 DEF LimitTypes, Uneventful
    <3>3. FixedKey(k, c, l, t, lm)
      BY <1>1
    <3>4. c # Nobody => c.until <= t + lm.window /\ c.until <= now' + lm.window
      <4>1. c # Nobody => c.until <= t + W
        BY <3>3 DEF FixedKey
      <4> QED
        BY <3>1, <3>2, <4>1
    <3>5. FixedKey(k, c, l, now', lm)
      BY <3>3, <3>4 DEF FixedKey
    <3> QED
      BY <3>5, <1>2 DEF Uneventful
  <2> QED
    BY <2>1, <1>2 DEF FixedInv, RetryInv, Uneventful
<1>3. ASSUME NEW d, Uncounted(d) PROVE FixedInv' /\ RetryInv' /\ Denials(decisions', limiter')
  <2>1. d \in Decided /\ decisions' = Append(l, d) /\ counters' = counters /\ now' = t
        /\ d.reason # "limit_exceeded"
    BY <1>3 DEF Uncounted
  <2>2. ASSUME NEW k \in L!Keys PROVE FixedKey(k, counters'[<<k, 0>>], decisions', now', limiter')
    <3> PICK c \in {Nobody} \union Counter : c = counters[<<k, 0>>]
      BY <1>1
    <3>1. FixedKey(k, c, l, t, lm) /\ k # Nobody
      BY <1>1
    <3>2. d.key = k /\ lm.fail_closed => ~d.allowed
      BY <3>1, <1>3 DEF Uncounted
    <3>3. FixedKey(k, c, Append(l, d), t, lm)
      BY <3>1, <3>2, <2>1, <1>0, KeyUncounted
    <3> QED
      BY <3>3, <2>1
  <2>3. Denials(Append(l, d), lm)
    BY <2>1, DenialsAppended
  <2>4. \A k \in L!Keys : RetryKey(counters'[<<k, 0>>], decisions', k, lm.window)
    BY <1>1, <2>1, RetryElse
  <2>5. Retried(decisions', lm.limit)
    BY <2>1, RetriedAppended DEF RetryInv, Excused
  <2> QED
    BY <2>1, <2>2, <2>3, <2>4, <2>5 DEF FixedInv, RetryInv
<1>4. ASSUME NEW r \in Limited, NEW d, NEW e, Increments(r, d, e) PROVE FixedInv' /\ RetryInv' /\ Denials(decisions', limiter')
  <2>1. d \in Decided /\ decisions' = Append(l, d) /\ now' = t /\ d.at = t /\ d.since <= d.at /\ e \in Counter
        /\ d.key # Nobody /\ d.key = Identity[r]
    BY <1>4 DEF Increments
  <2>2. d.key \in L!Keys
    BY <2>1 DEF L!Keys
  <2>3. CellOf(d) = <<d.key, 0>>
    BY DEF CellOf, BucketOf
  <2>4. counters' = [counters EXCEPT ![<<d.key, 0>>] = e]
    BY <2>3, <1>4 DEF Increments
  <2>5. counters'[<<d.key, 0>>] = e /\ \A k \in L!Keys \ {d.key} : counters'[<<k, 0>>] = counters[<<k, 0>>]
    BY <2>2, <2>4, <1>1 DEF LimitTypes
  <2> PICK c \in {Nobody} \union Counter : c = counters[<<d.key, 0>>]
    BY <1>1, <2>2
  <2>6. \/ c # Nobody /\ t < c.until /\ e.count = c.count + 1 /\ e.until = c.until
        \/ (c = Nobody \/ c.until <= t) /\ e.count = 1 /\ e.until = t + lm.window
    <3>1. L!CounterTtl = lm.window
      BY DEF L!CounterTtl, L!Sliding, L!Window
    <3>2. L!Counted(<<d.key, 0>>) = IF c # Nobody /\ c.until > t THEN c.count ELSE 0
      BY DEF L!Counted
    <3>3. /\ L!Counted(<<d.key, 0>>) = 0 => e.count = 1 /\ e.until = t + lm.window
          /\ L!Counted(<<d.key, 0>>) # 0 => e.count = c.count + 1 /\ e.until = c.until
      BY <1>4, <2>3, <3>1 DEF Increments
    <3>4. c # Nobody => c.count \in Nat \ {0} /\ c.until \in Nat
      BY DEF Counter
    <3> QED
      BY <3>2, <3>3, <3>4
  <2>7. /\ lm.fail_closed /\ d.allowed => d.until = e.until /\ e.count <= lm.limit
        /\ d.reason = "limit_exceeded" => d.until = e.until /\ e.count > lm.limit
    <3>1. Weight(d, calls[r].previous) = 0 /\ Weight(d, L!Counted(L!Previous(CellOf(d)))) = 0
      BY DEF Weight
    <3>2. e.count \in Nat /\ lm.limit \in Nat
      BY <1>0, <2>1 DEF IsLimiter, Counter
    <3>3. \/ d.until = e.until /\ (d.allowed <=> e.count + 0 <= lm.limit)
             /\ d.reason = IF d.allowed THEN "allowed" ELSE "limit_exceeded"
          \/ d.reason = "cache_unavailable" /\ (d.allowed => ~lm.fail_closed)
      BY <3>1, <1>4 DEF Increments, Judged
    <3> QED
      BY <3>2, <3>3
  <2>8. FixedKey(d.key, c, l, t, lm)
    BY <1>1, <2>2
  <2>9. /\ FixedKey(d.key, e, Append(l, d), t, lm)
        /\ e.count <= Cardinality(CallsFrom(Append(l, d), d.key, e.until - lm.window)) /\ e.until <= t + lm.window
    <3> PICK k : k = d.key
      OBVIOUS
    <3> PICK m : m = Append(l, d)
      OBVIOUS
    <3>1. lm.fail_closed /\ d.allowed => d.until = e.until /\ e.count <= lm.limit
      BY <2>7
    <3>2. /\ FixedKey(k, e, m, t, lm)
          /\ e.count <= Cardinality(CallsFrom(m, k, e.until - lm.window)) /\ e.until <= t + lm.window
      <4>1. FixedKey(k, c, l, t, lm) /\ d.key = k /\ d.at = t /\ e \in Counter /\ d \in Decided /\ IsLimiter(lm)
        BY <2>1, <2>8, <1>0
      <4> QED
        BY ONLY <4>1, <3>1, <2>6, c \in {Nobody} \union Counter, l \in Seq(Decided), t \in Nat, m = Append(l, d), Nobody \notin Counter, KeyHit
    <3> QED
      BY <3>2
  <2>10. ASSUME NEW k \in L!Keys PROVE FixedKey(k, counters'[<<k, 0>>], decisions', now', limiter')
    <3>1. CASE k = d.key
      BY <3>1, <2>1, <2>5, <2>9
    <3>2. CASE k # d.key
      <4> PICK b \in {Nobody} \union Counter : b = counters[<<k, 0>>]
        BY <1>1
      <4>1. FixedKey(k, b, l, t, lm)
        BY <1>1
      <4>2. FixedKey(k, b, Append(l, d), t, lm)
        BY <4>1, <3>2, <2>1, <1>0, KeyUncounted
      <4> QED
        BY <4>2, <3>2, <2>1, <2>5
    <3> QED
      BY <3>1, <3>2
  <2>11. d.reason = "limit_exceeded" => Cause(Append(l, d), Len(l) + 1, lm)
    <3> SUFFICES ASSUME d.reason = "limit_exceeded" PROVE Cause(Append(l, d), Len(l) + 1, lm)
      OBVIOUS
    <3>1. d.until = e.until /\ e.count > lm.limit /\ e.count \in Nat /\ e.until \in Nat
      BY <2>1, <2>7 DEF Counter
    <3>2. t < e.until
      <4>1. c # Nobody => c.until \in Nat
        BY DEF Counter
      <4> QED
        BY <2>6, <4>1
    <3>3. Cardinality(Before(Append(l, d), Len(l) + 1, lm.window)) > lm.limit
      BY <3>1, <3>2, <2>1, <2>9, <1>0, FixedCause
    <3>4. Append(l, d)[Len(l) + 1] = d
      BY <2>1
    <3> QED
      BY <3>1, <3>3, <3>4, <2>1, <2>9 DEF Cause
  <2>12. Denials(Append(l, d), lm)
    BY <2>1, <2>11, DenialsAppended
  <2>13. RetryKey(e, Append(l, d), d.key, lm.window) /\ Excused(l, d, lm.limit)
    <3>1. CountsOn(c, e, t, lm.window)
      BY <2>6 DEF CountsOn
    <3>2. DecidedOn(l, d, e, lm)
      BY <2>7, <2>9 DEF DecidedOn
    <3>3. RetryKey(c, l, d.key, lm.window)
      BY <1>1, <2>2
    <3> QED
      BY <3>1, <3>2, <3>3, <2>1, <1>0, RetryHit
  <2>14. ASSUME NEW k \in L!Keys PROVE RetryKey(counters'[<<k, 0>>], decisions', k, lm.window)
    <3>1. CASE k = d.key
      BY <3>1, <2>1, <2>5, <2>13
    <3>2. CASE k # d.key
      <4> PICK b : b = counters[<<k, 0>>]
        OBVIOUS
      <4>1. RetryKey(b, l, k, lm.window)
        BY <1>1
      <4>2. RetryKey(b, Append(l, d), k, lm.window)
        BY <4>1, <3>2, <2>1, RetryElse
      <4> QED
        BY <4>2, <3>2, <2>1, <2>5
    <3> QED
      BY <3>1, <3>2
  <2>15. Retried(decisions', lm.limit)
    BY <2>1, <2>13, RetriedAppended DEF RetryInv
  <2> QED
    BY <2>1, <2>10, <2>12, <2>14, <2>15 DEF FixedInv, RetryInv
<1> QED
  BY <1>2, <1>3, <1>4 DEF StepShape

LEMMA WindowsApart ==
  ASSUME NEW W \in Nat \ {0}, NEW a \in Nat, NEW b \in Nat, a + 2 * W <= b
  PROVE  (a \div W) + 2 <= b \div W
<1>1. a + W \in Nat /\ (a + W) + W \in Nat /\ (a + W) + W <= b
  OBVIOUS
<1>2. (a + W) \div W = (a \div W) + 1 /\ ((a + W) + W) \div W = ((a + W) \div W) + 1
  BY <1>1, DividedNext
<1>3. ((a + W) + W) \div W <= b \div W
  BY <1>1, DividedGrows
<1>4. a \div W \in Nat /\ b \div W \in Nat
  BY Divided
<1> QED
  BY <1>2, <1>3, <1>4

(* Sliding windows.  The counter c of key k and bucket b counts no more than *)
(* the calls of the bucket; in memory it counts every one of them, and lives *)
(* two windows from one of them on.                                          *)
SlideCell(c, l, k, b, lm) ==
  /\ c # Nobody => c.count <= Cardinality(CallsIn(l, k, b, lm.window))
  /\ lm.provider = "memory" =>
       /\ c = Nobody => Cardinality(CallsIn(l, k, b, lm.window)) = 0
       /\ c # Nobody => /\ Cardinality(CallsIn(l, k, b, lm.window)) <= c.count
                        /\ \E f \in Nat : f \div lm.window = b /\ c.until = f + 2 * lm.window

LEMMA SlideElse ==
  ASSUME NEW lm, IsLimiter(lm), NEW k, NEW b \in Int, NEW c \in {Nobody} \union Counter, NEW l \in Seq(Decided),
         SlideCell(c, l, k, b, lm), NEW d \in Decided,
         d.key = k /\ d.since \div lm.window = b => lm.provider # "memory"
  PROVE  SlideCell(c, Append(l, d), k, b, lm)
<1> PICK m : m = Append(l, d)
  OBVIOUS
<1> PICK p : p = Cardinality(CallsIn(l, k, b, lm.window))
  OBVIOUS
<1> PICK q : q = Cardinality(CallsIn(m, k, b, lm.window))
  OBVIOUS
<1>1. /\ p \in Nat
      /\ d.key = k /\ d.since \div lm.window = b => q = p + 1
      /\ ~(d.key = k /\ d.since \div lm.window = b) => q = p
  BY InAppended DEF IsLimiter
<1>2. c # Nobody => c.count <= p /\ c.count \in Nat
  BY DEF SlideCell, Counter
<1>3. c # Nobody => c.count <= q
  BY <1>1, <1>2
<1>4. lm.provider = "memory" => q = p
  BY <1>1
<1> QED
  BY <1>3, <1>4 DEF SlideCell

LEMMA SlideHit ==
  ASSUME NEW lm, IsLimiter(lm), NEW k, NEW b \in Int, NEW c \in {Nobody} \union Counter, NEW l \in Seq(Decided),
         SlideCell(c, l, k, b, lm), NEW d \in Decided, NEW t \in Nat, NEW e \in Counter, Nobody \notin Counter,
         d.key = k, d.since \div lm.window = b, lm.provider = "memory" => d.since = t,
         \/ c # Nobody /\ t < c.until /\ e.count = c.count + 1 /\ e.until = c.until
         \/ (c = Nobody \/ c.until <= t) /\ e.count = 1 /\ e.until = t + 2 * lm.window
  PROVE  SlideCell(e, Append(l, d), k, b, lm)
<1> PICK W \in Nat \ {0} : W = lm.window
  BY DEF IsLimiter
<1> PICK m : m = Append(l, d)
  OBVIOUS
<1> PICK p : p = Cardinality(CallsIn(l, k, b, W))
  OBVIOUS
<1> PICK q : q = Cardinality(CallsIn(m, k, b, W))
  OBVIOUS
<1>1. p \in Nat /\ q = p + 1
  BY InAppended
<1>2. c # Nobody => c.count <= p /\ c.count \in Nat \ {0}
  BY DEF SlideCell, Counter
<1>3. e # Nobody /\ e.count \in Nat \ {0}
  BY DEF Counter
<1>4. e.count <= q
  BY <1>1, <1>2, <1>3
<1>5. ASSUME lm.provider = "memory"
      PROVE  q <= e.count /\ \E f \in Nat : f \div W = b /\ e.until = f + 2 * W
  <2>1. t \div W = b
    BY <1>5
  <2>2. /\ c = Nobody => p = 0
        /\ c # Nobody => p <= c.count
        /\ c # Nobody => \E f \in Nat : f \div W = b /\ c.until = f + 2 * W
    BY <1>5 DEF SlideCell
  <2>3. CASE c # Nobody /\ t < c.until /\ e.count = c.count + 1 /\ e.until = c.until
    BY <2>2, <2>3, <1>1, <1>2
  <2>4. CASE c = Nobody /\ e.count = 1 /\ e.until = t + 2 * W
    BY <2>1, <2>2, <2>4, <1>1
  <2>5. CASE c # Nobody /\ c.until <= t
    <3> PICK f \in Nat : f \div W = b /\ c.until = f + 2 * W
      BY <2>2, <2>5
    <3>1. f + 2 * W <= t
      BY <2>5
    <3>2. (f \div W) + 2 <= t \div W
      BY <3>1, WindowsApart
    <3> QED
      BY <3>2, <2>1
  <2> QED
    BY <2>3, <2>4, <2>5
<1> QED
  BY <1>3, <1>4, <1>5 DEF SlideCell

\* The calls of two buckets are calls before the denial.
LEMMA SlideCause ==
  ASSUME NEW lm, IsLimiter(lm), NEW l \in Seq(Decided), NEW d \in Decided, d.since <= d.at,
         \A i \in DOMAIN l : l[i].since <= l[i].at,
         NEW b \in Int, d.since \div lm.window = b, NEW c \in Nat, NEW p \in Nat, NEW w \in Nat, w <= p,
         c <= Cardinality(CallsIn(Append(l, d), d.key, b, lm.window)),
         p <= Cardinality(CallsIn(Append(l, d), d.key, b - 1, lm.window)),
         c + w > lm.limit
  PROVE  Cardinality(Before(Append(l, d), Len(l) + 1, lm.window)) > lm.limit
<1> PICK m : m = Append(l, d)
  OBVIOUS
<1> PICK n : n = Len(l)
  OBVIOUS
<1> PICK W \in Nat \ {0} : W = lm.window
  BY DEF IsLimiter
<1> PICK k : k = d.key
  OBVIOUS
<1> PICK S : S = CallsIn(m, k, b, W)
  OBVIOUS
<1> PICK T : T = CallsIn(m, k, b - 1, W)
  OBVIOUS
<1> PICK B : B = Before(m, n + 1, W)
  OBVIOUS
<1>1. /\ n \in Nat /\ DOMAIN l = 1 .. n /\ DOMAIN m = 1 .. n + 1 /\ m[n + 1] = d
      /\ \A i \in 1 .. n : m[i] = l[i] /\ l[i] \in Decided
  BY Appended
<1>2. ASSUME NEW j \in 1 .. n + 1 PROVE m[j].since \in Nat /\ m[j].at \in Nat /\ m[j].since <= m[j].at
  <2>1. CASE j = n + 1
    BY <1>1, <2>1 DEF Decided
  <2>2. CASE j # n + 1
    <3>1. j \in DOMAIN l /\ m[j] = l[j] /\ l[j] \in Decided
      BY <1>1, <2>2
    <3>2. l[j].since \in Nat /\ l[j].at \in Nat
      BY <3>1 DEF Decided
    <3> QED
      BY <3>1, <3>2
  <2> QED
    BY <2>1, <2>2
<1>3. ASSUME NEW j \in S \union T PROVE j \in B
  <2>1. j \in 1 .. n + 1 /\ m[j].key = k /\ (m[j].since \div W = b \/ m[j].since \div W = b - 1)
    BY <1>1, <1>3 DEF CallsIn
  <2> PICK a \in Nat : a = m[j].since
    BY <2>1, <1>2
  <2> PICK z \in Nat : z = m[j].at
    BY <2>1, <1>2
  <2> PICK f \in Nat : f = d.since
    BY DEF Decided
  <2>2. ~(a + 2 * W <= f)
    <3> SUFFICES ASSUME a + 2 * W <= f PROVE FALSE
      OBVIOUS
    <3>1. (a \div W) + 2 <= f \div W
      BY WindowsApart
    <3>2. f \div W = b /\ (a \div W = b \/ a \div W = b - 1)
      BY <2>1
    <3> PICK x \in Nat : x = a \div W
      BY Divided
    <3>3. x + 2 <= b /\ (x = b \/ x = b - 1)
      BY <3>1, <3>2
    <3> QED
      BY ONLY <3>3, x \in Nat, b \in Int
  <2>3. a <= z
    BY <2>1, <1>2
  <2>4. z > f - (2 * W)
    BY ONLY <2>2, <2>3, a \in Nat, z \in Nat, f \in Nat, W \in Nat \ {0}
  <2> QED
    BY <2>1, <2>4, <1>1 DEF Before
<1>4. B \in SUBSET (1 .. n + 1) /\ n + 1 \in Nat
  BY <1>1 DEF Before
<1>5. IsFiniteSet(B) /\ Cardinality(B) \in Nat /\ Cardinality(S \union T) <= Cardinality(B)
  BY <1>3, <1>4, Places
<1>6. IsFiniteSet(S) /\ IsFiniteSet(T)
  BY <1>3, <1>5, FS_Subset
<1>7. S \intersect T = {}
  BY DEF CallsIn
<1>8. Cardinality(S \union T) = Cardinality(S) + Cardinality(T) - Cardinality(S \intersect T)
  BY <1>6, FS_Union
<1>9. Cardinality(S \intersect T) = 0
  BY <1>7, FS_EmptySet
<1>10. Cardinality(S) \in Nat /\ Cardinality(T) \in Nat
  BY <1>6, FS_CardinalityType
<1>11. c <= Cardinality(S) /\ p <= Cardinality(T)
  OBVIOUS
<1>12. Cardinality(B) >= c + w
  BY <1>5, <1>8, <1>9, <1>10, <1>11
<1> QED
  BY <1>5, <1>12 DEF IsLimiter

Weighed(p, e, W) == (p * (W - e) + W - 1) \div W

(* What passed in a bucket and, weighted, in the bucket before was within    *)
(* the limit.                                                                *)
Kept(l, i, lm) ==
  Cardinality(PassedIn(l, i, l[i].at \div lm.window, lm.window))
  + Weighed(Cardinality(PassedIn(l, i, (l[i].at \div lm.window) - 1, lm.window)), l[i].at % lm.window, lm.window)
  <= lm.limit
KeptAll(l, lm) == \A i \in DOMAIN l : l[i].key # Nobody /\ l[i].allowed => Kept(l, i, lm)

AtOnce(l) == \A i \in DOMAIN l : l[i].key # Nobody => l[i].at = l[i].since

LEMMA AtOnceAppended ==
  ASSUME NEW l \in Seq(Decided), NEW d \in Decided, AtOnce(l), d.key # Nobody => d.at = d.since
  PROVE  AtOnce(Append(l, d))
<1> PICK m : m = Append(l, d)
  OBVIOUS
<1> PICK n : n = Len(l)
  OBVIOUS
<1>1. /\ n \in Nat /\ DOMAIN l = 1 .. n /\ DOMAIN m = 1 .. n + 1 /\ m[n + 1] = d
      /\ \A i \in 1 .. n : m[i] = l[i]
  BY Appended
<1>2. ASSUME NEW i \in DOMAIN m, m[i].key # Nobody PROVE m[i].at = m[i].since
  <2>1. CASE i = n + 1
    BY <1>1, <1>2, <2>1
  <2>2. CASE i # n + 1
    <3>1. i \in DOMAIN l /\ m[i] = l[i]
      BY <1>1, <2>2
    <3> QED
      BY <3>1, <1>2 DEF AtOnce
  <2> QED
    BY <2>1, <2>2
<1> QED
  BY <1>2 DEF AtOnce

LEMMA KeptAppended ==
  ASSUME NEW lm, NEW l \in Seq(Decided), NEW d \in Decided, KeptAll(l, lm),
         d.key # Nobody /\ d.allowed => Kept(Append(l, d), Len(l) + 1, lm)
  PROVE  KeptAll(Append(l, d), lm)
<1> PICK m : m = Append(l, d)
  OBVIOUS
<1> PICK n : n = Len(l)
  OBVIOUS
<1>1. /\ n \in Nat /\ DOMAIN l = 1 .. n /\ DOMAIN m = 1 .. n + 1 /\ m[n + 1] = d
      /\ \A i \in 1 .. n : m[i] = l[i]
  BY Appended
<1>2. ASSUME NEW i \in DOMAIN m, m[i].key # Nobody, m[i].allowed PROVE Kept(m, i, lm)
  <2>1. CASE i = n + 1
    BY <1>1, <1>2, <2>1
  <2>2. CASE i # n + 1
    <3>1. i \in DOMAIN l /\ m[i] = l[i]
      BY <1>1, <2>2
    <3>2. \A b, W : PassedIn(m, i, b, W) = PassedIn(l, i, b, W)
      BY <3>1, PastAppended
    <3>3. Kept(l, i, lm)
      BY <3>1, <1>2 DEF KeptAll
    <3> QED
      BY <3>1, <3>2, <3>3 DEF Kept
  <2> QED
    BY <2>1, <2>2
<1> QED
  BY <1>2 DEF KeptAll

\* What passed of a key is among its calls.
LEMMA KeptHit ==
  ASSUME NEW lm, IsLimiter(lm), NEW l \in Seq(Decided), NEW d \in Decided, AtOnce(Append(l, d)), d.key # Nobody,
         NEW b \in Int, d.at \div lm.window = b,
         NEW c \in Nat, Cardinality(CallsIn(Append(l, d), d.key, b, lm.window)) <= c,
         NEW p \in Nat, Cardinality(CallsIn(Append(l, d), d.key, b - 1, lm.window)) <= p,
         c + Weighed(p, d.at % lm.window, lm.window) <= lm.limit
  PROVE  Kept(Append(l, d), Len(l) + 1, lm)
<1> PICK m : m = Append(l, d)
  OBVIOUS
<1> PICK n : n = Len(l)
  OBVIOUS
<1> PICK W \in Nat \ {0} : W = lm.window
  BY DEF IsLimiter
<1> PICK k : k = d.key
  OBVIOUS
<1> PICK e : e = d.at % W
  OBVIOUS
<1> PICK a \in Nat : a = d.at
  BY DEF Decided
<1>1. /\ n \in Nat /\ DOMAIN m = 1 .. n + 1 /\ m[n + 1] = d
  BY Appended
<1>2. ASSUME NEW x
      PROVE  /\ PassedIn(m, n + 1, x, W) \subseteq CallsIn(m, k, x, W)
             /\ CallsIn(m, k, x, W) \in SUBSET (1 .. n + 1)
  BY <1>1 DEF PassedIn, CallsIn, AtOnce
<1>3. ASSUME NEW x
      PROVE  /\ Cardinality(PassedIn(m, n + 1, x, W)) \in Nat
             /\ Cardinality(CallsIn(m, k, x, W)) \in Nat
             /\ Cardinality(PassedIn(m, n + 1, x, W)) <= Cardinality(CallsIn(m, k, x, W))
  <2>1. n + 1 \in Nat
    BY <1>1
  <2> QED
    BY <1>2, <2>1, Places
<1> PICK s \in Nat : s = Cardinality(PassedIn(m, n + 1, b, W))
  BY <1>3
<1> PICK z \in Nat : z = Cardinality(PassedIn(m, n + 1, b - 1, W))
  BY <1>3
<1>4. s <= c /\ z <= p
  BY <1>3
<1>5. e \in 0 .. W - 1
  BY Divided
<1> PICK f \in Nat : f = W - e /\ f <= W
  BY <1>5
<1>6. Weighed(z, e, W) \in Nat /\ Weighed(p, e, W) \in Nat /\ Weighed(z, e, W) <= Weighed(p, e, W)
  <2>1. Weighed(z, e, W) = (z * f + W - 1) \div W /\ Weighed(p, e, W) = (p * f + W - 1) \div W
    BY ONLY f = W - e DEF Weighed
  <2>2. (z * f + W - 1) \div W \in Nat /\ (z * f + W - 1) \div W <= (p * f + W - 1) \div W
    BY <1>4, Weighing
  <2>3. (p * f + W - 1) \div W \in Nat
    <3>1. p <= p
      OBVIOUS
    <3> QED
      BY <3>1, Weighing
  <2> QED
    BY <2>1, <2>2, <2>3
<1>7. c + Weighed(p, e, W) <= lm.limit /\ lm.limit \in Nat
  BY DEF IsLimiter
<1>8. s + Weighed(z, e, W) <= lm.limit
  <2> PICK x \in Nat : x = Weighed(z, e, W)
    BY <1>6
  <2> PICK y \in Nat : y = Weighed(p, e, W)
    BY <1>6
  <2> PICK u \in Nat : u = lm.limit
    BY <1>7
  <2>1. s <= c /\ x <= y /\ c + y <= u
    BY <1>4, <1>6, <1>7
  <2>2. s + x <= u
    BY ONLY <2>1, s \in Nat, c \in Nat, x \in Nat, y \in Nat, u \in Nat
  <2> QED
    BY ONLY <2>2, x = Weighed(z, e, W), u = lm.limit
<1> QED
  BY <1>1, <1>8 DEF Kept

-----------------------------------------------------------------------------
PreviousFits(q, x, l, lm) ==
  x # L!Idle =>
    x.previous <= Cardinality(CallsIn(l, Identity[q], BucketOf(lm, x.charge.since) - 1, lm.window))

SlideInv ==
  limiter.sliding =>
    /\ \A k \in L!Keys, b \in (-1) .. MaxTime : SlideCell(counters[<<k, b>>], decisions, k, b, limiter)
    /\ \A q \in Limited : PreviousFits(q, calls[q], decisions, limiter)
    /\ limiter.provider = "memory" => AtOnce(decisions) /\ KeptAll(decisions, limiter)

\* What a call of Redis remembers is a count of the bucket before its own.
LEMMA CallsShape ==
  ASSUME LimitTypes, Nobody \notin Counter, [L!Next]_L!rateVars, NEW q \in Limited, calls'[q] # L!Idle
  PROVE  \/ calls'[q] = calls[q]
         \/ calls'[q].previous = 0
         \/ /\ calls[q] # L!Idle /\ calls'[q].charge = calls[q].charge
            /\ \/ calls'[q].previous = calls[q].previous
               \/ calls'[q].previous = L!Counted(L!Previous(calls[q].charge.cell))
<1>1. CASE calls' = calls
  BY <1>1
<1>2. ASSUME NEW r \in Limited, NEW x, L!Notes(r, x)
      PROVE  calls'[r] = x /\ \A i \in Limited \ {r} : calls'[i] = calls[i]
  BY <1>2 DEF L!Notes, LimitTypes
<1>3. ASSUME NEW r \in Limited, L!Starts(r)
      PROVE  calls'[r].previous = 0 /\ \A i \in Limited \ {r} : calls'[i] = calls[i]
  BY <1>3, <1>2 DEF L!Starts
<1>4. ASSUME NEW r \in Limited, L!GetsPrevious(r) \/ L!Gets(r)
      PROVE  /\ \A i \in Limited \ {r} : calls'[i] = calls[i]
             /\ calls[r] # L!Idle /\ calls'[r].charge = calls[r].charge
             /\ \/ calls'[r].previous = calls[r].previous
                \/ calls'[r].previous = L!Counted(L!Previous(calls[r].charge.cell))
  <2>1. calls[r] # L!Idle
    BY <1>4 DEF L!GetsPrevious, L!Gets, L!At, L!Idle
  <2>2. IsCall(calls[r])
    BY <2>1 DEF LimitTypes, Calling
  <2> PICK x : x = calls[r]
    OBVIOUS
  <2> PICK p : p = L!Counted(L!Previous(calls[r].charge.cell))
    OBVIOUS
  <2> PICK a : a = IF L!Counted(calls[r].charge.cell) = 0 THEN "set" ELSE "incrby"
    OBVIOUS
  <2>3. x = [f \in {"at", "charge", "previous"} |-> x[f]]
    BY <2>2 DEF IsCall
  <2>4. CASE L!GetsPrevious(r)
    <3>1. L!Notes(r, [x EXCEPT !.at = "get", !.previous = p])
      BY <2>4 DEF L!GetsPrevious
    <3>2. [x EXCEPT !.at = "get", !.previous = p].charge = x.charge /\ [x EXCEPT !.at = "get", !.previous = p].previous = p
      BY <2>3
    <3>3. calls'[r] = [x EXCEPT !.at = "get", !.previous = p] /\ \A i \in Limited \ {r} : calls'[i] = calls[i]
      BY <3>1, <1>2
    <3> QED
      BY <2>1, <3>2, <3>3
  <2>5. CASE L!Gets(r)
    <3>1. L!Notes(r, [x EXCEPT !.at = a])
      BY <2>5 DEF L!Gets
    <3>2. [x EXCEPT !.at = a].charge = x.charge /\ [x EXCEPT !.at = a].previous = x.previous
      BY <2>3
    <3>3. calls'[r] = [x EXCEPT !.at = a] /\ \A i \in Limited \ {r} : calls'[i] = calls[i]
      BY <3>1, <1>2
    <3> QED
      BY <2>1, <3>2, <3>3
  <2> QED
    BY <1>4, <2>4, <2>5
<1>5. ASSUME NEW r \in Limited, L!Sets(r) \/ L!Incrby(r) \/ L!CacheFails(r)
      PROVE  calls'[r] = L!Idle /\ \A i \in Limited \ {r} : calls'[i] = calls[i]
  <2>1. L!Notes(r, L!Idle)
    BY <1>5 DEF L!Sets, L!Incrby, L!CacheFails, L!Concludes
  <2> QED
    BY <2>1, <1>2
<1>6. UNCHANGED L!rateVars => calls' = calls
  BY DEF L!rateVars
<1>7. L!Tick => calls' = calls
  BY DEF L!Tick
<1>8. ASSUME NEW r \in Limited, L!Passes(r) \/ L!check_memory(r) PROVE calls' = calls
  BY <1>8 DEF L!Passes, L!check_memory
<1> QED
  BY <1>1, <1>3, <1>4, <1>5, <1>6, <1>7, <1>8 DEF L!Next, L!RequestStep

LEMMA CallsCounted ==
  ASSUME NEW l \in Seq(Decided), NEW k, NEW b, NEW W PROVE Cardinality(CallsIn(l, k, b, W)) \in Nat
<1> PICK n \in Nat : n = Len(l) /\ DOMAIN l = 1 .. n
  OBVIOUS
<1>1. CallsIn(l, k, b, W) \in SUBSET (1 .. n)
  BY DEF CallsIn
<1> QED
  BY <1>1, Places

LEMMA PreviousAppended ==
  ASSUME NEW lm, IsLimiter(lm), NEW l \in Seq(Decided), NEW d \in Decided, NEW q, NEW x, PreviousFits(q, x, l, lm),
         x # L!Idle => x.previous \in Nat
  PROVE  PreviousFits(q, x, Append(l, d), lm)
<1> SUFFICES ASSUME x # L!Idle
             PROVE  x.previous <= Cardinality(CallsIn(Append(l, d), Identity[q],
                                                      BucketOf(lm, x.charge.since) - 1, lm.window))
  BY DEF PreviousFits
<1> PICK b : b = BucketOf(lm, x.charge.since) - 1
  OBVIOUS
<1> PICK k : k = Identity[q]
  OBVIOUS
<1> PICK s : s = Cardinality(CallsIn(l, k, b, lm.window))
  OBVIOUS
<1> PICK z : z = Cardinality(CallsIn(Append(l, d), k, b, lm.window))
  OBVIOUS
<1>1. x.previous <= s
  BY DEF PreviousFits
<1>2. s \in Nat /\ (z = s \/ z = s + 1)
  BY InAppended DEF IsLimiter
<1>3. x.previous <= z
  BY <1>1, <1>2
<1> QED
  BY <1>3

\* The buckets before those of the calls.
LEMMA CallBucket ==
  ASSUME LimitTypes, limiter.sliding, NEW q \in Limited, Identity[q] # Nobody, NEW s \in Nat, s <= now
  PROVE  /\ s \div limiter.window \in 0 .. MaxTime /\ (s \div limiter.window) - 1 \in (-1) .. MaxTime
         /\ <<Identity[q], s \div limiter.window>> \in L!Cells
         /\ L!Previous(<<Identity[q], s \div limiter.window>>) = <<Identity[q], (s \div limiter.window) - 1>>
<1> PICK W \in Nat \ {0} : W = limiter.window
  BY LimiterFields DEF LimitTypes
<1> PICK b \in Nat : b = s \div W
  BY Divided
<1> PICK x : x = [cell |-> <<Identity[q], b>>, since |-> s, elapsed |-> s % W]
  OBVIOUS
<1>1. IsCharge(limiter, Identity[q], x) /\ x.since <= now
  BY DEF IsCharge, BucketOf
<1>2. <<Identity[q], b>> \in L!Cells /\ L!Previous(<<Identity[q], b>>) \in L!Cells
  BY <1>1, ChargeCell
<1>3. L!Previous(<<Identity[q], b>>) = <<Identity[q], b - 1>>
  BY DEF L!Previous
<1>4. b \in (-1) .. MaxTime /\ MaxTime \in Nat
  BY <1>2, DatabaseLockAssumption DEF L!Cells
<1>5. b - 1 \in (-1) .. MaxTime
  BY <1>4
<1> QED
  BY <1>2, <1>3, <1>4, <1>5

\* The count of a bucket, and of a bucket just over.
LEMMA CountFits ==
  ASSUME LimitTypes, limiter.sliding, Nobody \notin Counter, SlideInv, NEW k \in L!Keys, NEW b \in (-1) .. MaxTime
  PROVE  /\ L!Counted(<<k, b>>) \in Nat
         /\ L!Counted(<<k, b>>) <= Cardinality(CallsIn(decisions, k, b, limiter.window))
         /\ limiter.provider = "memory" /\ now \div limiter.window <= b + 1
            => Cardinality(CallsIn(decisions, k, b, limiter.window)) <= L!Counted(<<k, b>>)
<1> PICK l \in Seq(Decided) : l = decisions
  BY DEF LimitTypes
<1> PICK t \in Nat : t = now
  BY DEF LimitTypes
<1> PICK W \in Nat \ {0} : W = limiter.window
  BY LimiterFields DEF LimitTypes
<1> PICK n \in Nat : n = Cardinality(CallsIn(l, k, b, W))
  BY CallsCounted
<1>1. <<k, b>> \in L!Cells
  BY DEF L!Cells
<1> PICK c \in {Nobody} \union Counter : c = counters[<<k, b>>]
  BY <1>1 DEF LimitTypes
<1>2. L!Counted(<<k, b>>) = IF c # Nobody /\ c.until > t THEN c.count ELSE 0
  BY DEF L!Counted
<1>3. /\ c # Nobody => c.count <= n /\ c.count \in Nat /\ c.until \in Nat
      /\ limiter.provider = "memory" =>
           /\ c = Nobody => n = 0
           /\ c # Nobody => n <= c.count /\ \E f \in Nat : f \div W = b /\ c.until = f + 2 * W
  BY DEF SlideInv, SlideCell, Counter
<1>4. ASSUME limiter.provider = "memory", t \div W <= b + 1, c # Nobody PROVE c.until > t
  <2>0. c.until \in Nat
    BY <1>3, <1>4
  <2> SUFFICES ASSUME c.until <= t PROVE FALSE
    BY <2>0
  <2> PICK f \in Nat : f \div W = b /\ c.until = f + 2 * W
    BY <1>3, <1>4
  <2>1. (f \div W) + 2 <= t \div W
    BY WindowsApart
  <2> PICK y \in Nat : y = t \div W
    BY Divided
  <2> QED
    BY <2>1, <1>4
<1> QED
  BY <1>2, <1>3, <1>4

LEMMA PreviousNow ==
  ASSUME LimitTypes, limiter.sliding, Nobody \notin Counter, SlideInv, [L!Next]_L!rateVars, NEW q \in Limited
  PROVE  PreviousFits(q, calls'[q], decisions, limiter)
<1> SUFFICES ASSUME calls'[q] # L!Idle PROVE PreviousFits(q, calls'[q], decisions, limiter)
  BY DEF PreviousFits
<1>1. PreviousFits(q, calls[q], decisions, limiter)
  BY DEF SlideInv
<1>2. decisions \in Seq(Decided)
  BY DEF LimitTypes
<1>3. CASE calls'[q] = calls[q]
  BY <1>1, <1>3
<1>4. CASE calls'[q].previous = 0
  <2> PICK n \in Nat : n = Cardinality(CallsIn(decisions, Identity[q], BucketOf(limiter, calls'[q].charge.since) - 1, limiter.window))
    BY <1>2, CallsCounted
  <2>1. 0 <= n
    OBVIOUS
  <2> QED
    BY <1>4, <2>1 DEF PreviousFits
<1>5. CASE calls[q] # L!Idle /\ calls'[q].charge = calls[q].charge /\ calls'[q].previous = calls[q].previous
  BY <1>1, <1>5 DEF PreviousFits
<1>6. CASE calls[q] # L!Idle /\ calls'[q].charge = calls[q].charge
           /\ calls'[q].previous = L!Counted(L!Previous(calls[q].charge.cell))
  <2> PICK s \in Nat : s = calls[q].charge.since
    BY <1>6 DEF LimitTypes, Calling, IsCharge
  <2>1. Identity[q] # Nobody /\ s <= now /\ calls[q].charge.cell = <<Identity[q], s \div limiter.window>>
    BY <1>6 DEF LimitTypes, Calling, IsCharge, BucketOf
  <2> PICK b : b = (s \div limiter.window) - 1
    OBVIOUS
  <2>2. b \in (-1) .. MaxTime /\ L!Previous(calls[q].charge.cell) = <<Identity[q], b>>
    BY <2>1, CallBucket
  <2>3. Identity[q] \in L!Keys
    BY <2>1 DEF L!Keys
  <2>4. calls'[q].previous <= Cardinality(CallsIn(decisions, Identity[q], b, limiter.window))
    BY <1>6, <2>2, <2>3, CountFits
  <2>5. BucketOf(limiter, calls'[q].charge.since) - 1 = b
    BY <1>6 DEF BucketOf
  <2> QED
    BY <2>4, <2>5 DEF PreviousFits
<1> QED
  BY <1>3, <1>4, <1>5, <1>6, CallsShape

LEMMA WeightIs ==
  ASSUME LimitTypes, limiter.sliding, NEW d \in Decided, NEW p \in Nat
  PROVE  /\ Weight(d, p) = Weighed(p, d.since % limiter.window, limiter.window)
         /\ Weight(d, p) \in Nat /\ Weight(d, p) <= p
<1> PICK W \in Nat \ {0} : W = limiter.window
  BY LimiterFields DEF LimitTypes
<1> PICK e : e = d.since % W
  OBVIOUS
<1>1. Weight(d, p) = L!Weighted(p, e) /\ L!Weighted(p, e) = Weighed(p, e, W)
  BY DEF Weight, Weighed, L!Weighted, L!Window
<1>2. e \in 0 .. W - 1
  BY Divided DEF Decided
<1>3. p <= p /\ L!Window \in Nat \ {0} /\ e \in 0 .. L!Window - 1
  BY <1>2 DEF L!Window
<1>4. L!Weighted(p, e) \in Nat /\ L!Weighted(p, e) <= p
  BY <1>3, WeightedBounds
<1> QED
  BY <1>1, <1>4

LEMMA SlideQuiet ==
  ASSUME LimitTypes, UNCHANGED limiter, limiter.sliding, Nobody \notin Counter, [L!Next]_L!rateVars,
         SlideInv, Denials(decisions, limiter), Uneventful
  PROVE  SlideInv' /\ Denials(decisions', limiter')
<1>1. counters' = counters /\ decisions' = decisions /\ limiter' = limiter
  BY DEF Uneventful
<1>2. \A q \in Limited : PreviousFits(q, calls'[q], decisions, limiter)
  BY PreviousNow
<1> QED
  BY <1>1, <1>2 DEF SlideInv

LEMMA SlideUncounted ==
  ASSUME LimitTypes, LimitTypes', UNCHANGED limiter, limiter.sliding, Nobody \notin Counter, [L!Next]_L!rateVars,
         SlideInv, Denials(decisions, limiter), NEW d, Uncounted(d)
  PROVE  SlideInv' /\ Denials(decisions', limiter')
<1> PICK lm : lm = limiter
  OBVIOUS
<1> PICK l \in Seq(Decided) : l = decisions
  BY DEF LimitTypes
<1>0. IsLimiter(lm) /\ MaxTime \in Nat
  BY LimiterFields, DatabaseLockAssumption DEF LimitTypes, IsLimiter
<1>1. /\ d \in Decided /\ decisions' = Append(l, d) /\ counters' = counters
      /\ d.key # Nobody => lm.provider = "redis"
      /\ d.reason # "limit_exceeded"
  BY DEF Uncounted
<1>2. ASSUME NEW k \in L!Keys, NEW b \in (-1) .. MaxTime PROVE SlideCell(counters'[<<k, b>>], decisions', k, b, limiter')
  <2>1. <<k, b>> \in L!Cells /\ k # Nobody
    BY DEF L!Cells, L!Keys
  <2> PICK c \in {Nobody} \union Counter : c = counters[<<k, b>>]
    BY <2>1 DEF LimitTypes
  <2>2. SlideCell(c, l, k, b, lm)
    BY DEF SlideInv
  <2>3. SlideCell(c, Append(l, d), k, b, lm)
    BY <1>0, <1>1, <2>1, <2>2, SlideElse
  <2> QED
    BY <1>1, <2>3
<1>3. ASSUME NEW q \in Limited PROVE PreviousFits(q, calls'[q], decisions', limiter')
  <2> PICK x : x = calls'[q]
    OBVIOUS
  <2>1. PreviousFits(q, x, l, lm)
    BY PreviousNow
  <2>2. x # L!Idle => x.previous \in Nat
    BY DEF LimitTypes, Calling
  <2>3. PreviousFits(q, x, Append(l, d), lm)
    BY <1>0, <1>1, <2>1, <2>2, PreviousAppended
  <2> QED
    BY <1>1, <2>3
<1>4. ASSUME lm.provider = "memory" PROVE AtOnce(decisions') /\ KeptAll(decisions', limiter')
  <2>1. AtOnce(l) /\ KeptAll(l, lm) /\ d.key = Nobody
    BY <1>1, <1>4 DEF SlideInv
  <2>2. AtOnce(Append(l, d))
    BY <1>1, <2>1, AtOnceAppended
  <2>3. KeptAll(Append(l, d), lm)
    BY <1>1, <2>1, KeptAppended
  <2> QED
    BY <1>1, <2>2, <2>3
<1>5. Denials(Append(l, d), lm)
  BY <1>1, DenialsAppended
<1> QED
  BY <1>1, <1>2, <1>3, <1>4, <1>5 DEF SlideInv

LEMMA SlideHits ==
  ASSUME LimitTypes, LimitTypes', UNCHANGED limiter, limiter.sliding, Nobody \notin Counter, [L!Next]_L!rateVars,
         SlideInv, Denials(decisions, limiter), NEW r \in Limited, NEW d, NEW e, Increments(r, d, e)
  PROVE  SlideInv' /\ Denials(decisions', limiter')
<1> PICK lm : lm = limiter
  OBVIOUS
<1> PICK l \in Seq(Decided) : l = decisions
  BY DEF LimitTypes
<1> PICK t \in Nat : t = now
  BY DEF LimitTypes
<1> PICK W \in Nat \ {0} : W = lm.window
  BY LimiterFields DEF LimitTypes
<1>0. IsLimiter(lm) /\ MaxTime \in Nat
  BY LimiterFields, DatabaseLockAssumption DEF LimitTypes, IsLimiter
<1>1. d \in Decided /\ decisions' = Append(l, d) /\ d.at = t /\ d.since <= d.at /\ e \in Counter
      /\ d.key # Nobody /\ d.key = Identity[r] /\ d.since <= t
  BY DEF Increments
<1> PICK k : k = d.key
  OBVIOUS
<1> PICK f \in Nat : f = d.since
  BY <1>1 DEF Decided
<1> PICK b : b = f \div W
  OBVIOUS
<1>2. k \in L!Keys /\ CellOf(d) = <<k, b>>
  BY <1>1 DEF L!Keys, CellOf, BucketOf
<1>3. b \in 0 .. MaxTime /\ b - 1 \in (-1) .. MaxTime /\ <<k, b>> \in L!Cells /\ L!Previous(<<k, b>>) = <<k, b - 1>>
  BY <1>1, CallBucket
<1>4. b \in (-1) .. MaxTime /\ b \in Int /\ b - 1 \in Int
  BY <1>3
<1>5. counters' = [counters EXCEPT ![<<k, b>>] = e]
  BY <1>2 DEF Increments
<1>6. /\ counters'[<<k, b>>] = e
      /\ \A j \in L!Keys, z \in (-1) .. MaxTime : <<j, z>> \in L!Cells /\ (j # k \/ z # b => counters'[<<j, z>>] = counters[<<j, z>>])
  BY <1>3, <1>5 DEF LimitTypes, L!Cells
<1> PICK c \in {Nobody} \union Counter : c = counters[<<k, b>>]
  BY <1>3 DEF LimitTypes
<1>7. \/ c # Nobody /\ t < c.until /\ e.count = c.count + 1 /\ e.until = c.until
      \/ (c = Nobody \/ c.until <= t) /\ e.count = 1 /\ e.until = t + 2 * lm.window
  <2>1. L!CounterTtl = 2 * lm.window
    BY DEF L!CounterTtl, L!Sliding, L!Window
  <2>2. L!Counted(<<k, b>>) = IF c # Nobody /\ c.until > t THEN c.count ELSE 0
    BY DEF L!Counted
  <2>3. /\ L!Counted(<<k, b>>) = 0 => e.count = 1 /\ e.until = t + 2 * lm.window
        /\ L!Counted(<<k, b>>) # 0 => e.count = c.count + 1 /\ e.until = c.until
    BY <1>2, <2>1 DEF Increments
  <2>4. c # Nobody => c.count \in Nat \ {0} /\ c.until \in Nat
    BY DEF Counter
  <2> QED
    BY <2>2, <2>3, <2>4
<1>8. lm.provider = "memory" => d.since = t
  BY DEF Increments
<1>9. SlideCell(e, Append(l, d), k, b, lm)
  <2>1. SlideCell(c, l, k, b, lm)
    BY <1>2, <1>4 DEF SlideInv
  <2>2. d.since \div lm.window = b
    OBVIOUS
  <2> QED
    BY <2>1, <2>2, <1>0, <1>1, <1>4, <1>7, <1>8, SlideHit
<1>10. ASSUME NEW j \in L!Keys, NEW z \in (-1) .. MaxTime PROVE SlideCell(counters'[<<j, z>>], decisions', j, z, limiter')
  <2>1. CASE j = k /\ z = b
    BY <2>1, <1>1, <1>6, <1>9
  <2>2. CASE ~(j = k /\ z = b)
    <3> PICK y \in {Nobody} \union Counter : y = counters[<<j, z>>]
      BY <1>6 DEF LimitTypes
    <3>1. SlideCell(y, l, j, z, lm)
      BY DEF SlideInv
    <3>2. ~(d.key = j /\ d.since \div lm.window = z) /\ z \in Int
      BY <2>2
    <3>3. SlideCell(y, Append(l, d), j, z, lm)
      BY <1>0, <1>1, <3>1, <3>2, SlideElse
    <3> QED
      BY <3>3, <2>2, <1>1, <1>6
  <2> QED
    BY <2>1, <2>2
<1>11. ASSUME NEW q \in Limited PROVE PreviousFits(q, calls'[q], decisions', limiter')
  <2> PICK x : x = calls'[q]
    OBVIOUS
  <2>1. PreviousFits(q, x, l, lm)
    BY PreviousNow
  <2>2. x # L!Idle => x.previous \in Nat
    BY DEF LimitTypes, Calling
  <2>3. PreviousFits(q, x, Append(l, d), lm)
    BY <1>0, <1>1, <2>1, <2>2, PreviousAppended
  <2> QED
    BY <1>1, <2>3
<1>12. Cardinality(CallsIn(Append(l, d), k, b - 1, W)) = Cardinality(CallsIn(l, k, b - 1, W))
  <2>1. ~(d.key = k /\ d.since \div W = b - 1)
    BY <1>4
  <2> QED
    BY <2>1, <1>1, InAppended
<1>13. PICK p \in Nat :
         /\ p <= Cardinality(CallsIn(l, k, b - 1, W))
         /\ Judged(d, e, p) \/ d.reason = "cache_unavailable"
         /\ lm.provider = "memory" => Judged(d, e, p) /\ Cardinality(CallsIn(l, k, b - 1, W)) <= p
  <2>1. CASE lm.provider = "memory"
    <3> PICK p : p = L!Counted(<<k, b - 1>>)
      OBVIOUS
    <3>1. Judged(d, e, p)
      BY <2>1, <1>2, <1>3 DEF Increments
    <3>2. now \div limiter.window <= (b - 1) + 1
      BY <1>4, <1>8, <2>1
    <3>3. /\ p \in Nat /\ p <= Cardinality(CallsIn(l, k, b - 1, W))
          /\ Cardinality(CallsIn(l, k, b - 1, W)) <= p
      BY <2>1, <3>2, <1>2, <1>3, CountFits
    <3> QED
      BY <3>1, <3>3
  <2>2. CASE lm.provider # "memory"
    <3> PICK p : p = calls[r].previous
      OBVIOUS
    <3>1. /\ calls[r] # L!Idle /\ d.since = calls[r].charge.since
          /\ Judged(d, e, p) \/ d.reason = "cache_unavailable"
      BY <2>2 DEF Increments
    <3>2. p \in Nat
      BY <3>1 DEF LimitTypes, Calling
    <3>3. BucketOf(lm, calls[r].charge.since) = b
      BY <3>1 DEF BucketOf
    <3>4. PreviousFits(r, calls[r], l, lm)
      BY DEF SlideInv
    <3>5. p <= Cardinality(CallsIn(l, k, b - 1, W))
      BY <3>1, <3>3, <3>4, <1>1 DEF PreviousFits
    <3> QED
      BY <3>1, <3>2, <3>5, <2>2
  <2> QED
    BY <2>1, <2>2
<1>14. /\ Weight(d, p) = Weighed(p, d.since % W, W) /\ Weight(d, p) \in Nat /\ Weight(d, p) <= p
  BY <1>1, WeightIs
<1>15. e # Nobody /\ e.count \in Nat /\ lm.limit \in Nat
  BY <1>0, <1>1 DEF IsLimiter, Counter
<1>16. ASSUME lm.provider = "memory" PROVE AtOnce(decisions') /\ KeptAll(decisions', limiter')
  <2>1. AtOnce(l) /\ KeptAll(l, lm) /\ d.at = d.since
    BY <1>1, <1>8, <1>16 DEF SlideInv
  <2>2. AtOnce(Append(l, d))
    BY <1>1, <2>1, AtOnceAppended
  <2>3. d.allowed => e.count + Weighed(p, d.at % W, W) <= lm.limit
    BY <1>13, <1>14, <1>16, <2>1 DEF Judged
  <2>4. Cardinality(CallsIn(Append(l, d), k, b, W)) <= e.count
    BY <1>9, <1>15, <1>16 DEF SlideCell
  <2>5. Cardinality(CallsIn(Append(l, d), k, b - 1, W)) <= p
    BY <1>12, <1>13, <1>16
  <2>6. d.at \div W = b
    BY <2>1
  <2>7. d.allowed => Kept(Append(l, d), Len(l) + 1, lm)
    BY <1>0, <1>1, <1>4, <1>15, <2>2, <2>3, <2>4, <2>5, <2>6, KeptHit
  <2>8. KeptAll(Append(l, d), lm)
    BY <1>1, <2>1, <2>7, KeptAppended
  <2> QED
    BY <1>1, <2>2, <2>8
<1>17. d.reason = "limit_exceeded" => Cause(Append(l, d), Len(l) + 1, lm)
  <2> SUFFICES ASSUME d.reason = "limit_exceeded" PROVE Cause(Append(l, d), Len(l) + 1, lm)
    OBVIOUS
  <2>1. ~(e.count + Weight(d, p) <= lm.limit)
    BY <1>13 DEF Judged
  <2> PICK w \in Nat : w = Weight(d, p) /\ w <= p
    BY <1>14
  <2> PICK n \in Nat : n = e.count
    BY <1>15
  <2>2. n + w > lm.limit
    BY <2>1, <1>15
  <2>3. n <= Cardinality(CallsIn(Append(l, d), k, b, W))
    BY <1>9, <1>15 DEF SlideCell
  <2>4. p <= Cardinality(CallsIn(Append(l, d), k, b - 1, W))
    BY <1>12, <1>13
  <2>5. \A i \in DOMAIN l : l[i].since <= l[i].at
    BY DEF LimitTypes
  <2>6. d.since \div lm.window = b
    OBVIOUS
  <2>7. Cardinality(Before(Append(l, d), Len(l) + 1, lm.window)) > lm.limit
    BY <1>0, <1>1, <1>4, <2>2, <2>3, <2>4, <2>5, <2>6, SlideCause
  <2> QED
    BY <2>7 DEF Cause
<1>18. Denials(Append(l, d), lm)
  BY <1>1, <1>17, DenialsAppended
<1> QED
  BY <1>1, <1>10, <1>11, <1>16, <1>18 DEF SlideInv

\* A window that starts with a request let pass meets two counters at most.
LEMMA TwoCounters ==
  ASSUME NEW lm, IsLimiter(lm), NEW k, NEW c, NEW l \in Seq(Decided), NEW t, FixedKey(k, c, l, t, lm), lm.fail_closed,
         NEW i \in DOMAIN l, l[i].key = k, l[i].allowed,
         NEW S, S = {j \in DOMAIN l : l[j].key = k /\ l[j].allowed /\ l[j].at \in l[i].at .. l[i].at + lm.window - 1}
  PROVE  Cardinality(S) <= 2 * lm.limit
<1> PICK n \in Nat : n = Len(l) /\ DOMAIN l = 1 .. n
  OBVIOUS
<1> PICK W \in Nat \ {0} : W = lm.window
  BY DEF IsLimiter
<1> PICK M \in Nat : M = lm.limit
  BY DEF IsLimiter
<1>1. \A j \in DOMAIN l : l[j].at \in Nat /\ l[j].until \in Nat
  <2> TAKE j \in DOMAIN l
  <2>1. l[j] \in Decided
    OBVIOUS
  <2> QED
    BY <2>1 DEF Decided
<1>2. /\ \A j \in DOMAIN l : l[j].key = k /\ l[j].allowed => l[j].until - W <= l[j].at /\ l[j].at < l[j].until
      /\ \A j, z \in DOMAIN l : /\ l[j].key = k /\ l[j].allowed /\ l[z].key = k /\ l[z].allowed
                                /\ l[j].until < l[z].until
                                => l[j].until + W <= l[z].until
      /\ \A u \in Nat : Cardinality(PassedTill(l, k, u)) <= M
  BY DEF FixedKey
<1> PICK a \in Nat : a = l[i].at
  BY <1>1
<1> PICK u \in Nat : u = l[i].until
  BY <1>1
<1>3. u - W <= a /\ a < u
  BY <1>2
<1>4. ASSUME NEW j \in S
      PROVE  j \in DOMAIN l /\ l[j].key = k /\ l[j].allowed /\ (l[j].until = u \/ (u + W <= l[j].until /\ l[j].until < u + 2 * W))
  <2>1. j \in DOMAIN l /\ l[j].key = k /\ l[j].allowed /\ l[j].at \in a .. a + W - 1
    BY <1>4
  <2> PICK z \in Nat : z = l[j].at
    BY <2>1, <1>1
  <2> PICK v \in Nat : v = l[j].until
    BY <2>1, <1>1
  <2>2. v - W <= z /\ z < v /\ a <= z /\ z <= a + W - 1
    BY <2>1, <1>2
  <2>3. (v < u => v + W <= u) /\ (u < v => u + W <= v)
    BY <2>1, <1>2
  <2>4. v = u \/ (u + W <= v /\ v < u + 2 * W)
    BY ONLY <1>3, <2>2, <2>3, u \in Nat, v \in Nat, z \in Nat, a \in Nat, W \in Nat \ {0}
  <2> QED
    BY <2>1, <2>4
<1>5. ASSUME NEW v
      PROVE  PassedTill(l, k, v) \in SUBSET (1 .. n) /\ IsFiniteSet(PassedTill(l, k, v)) /\ Cardinality(PassedTill(l, k, v)) \in Nat
  <2>1. PassedTill(l, k, v) \in SUBSET (1 .. n)
    BY DEF PassedTill
  <2> QED
    BY <2>1, Places
<1>6. CASE \A j \in S : l[j].until = u
  <2>1. S \subseteq PassedTill(l, k, u)
    BY <1>4, <1>6 DEF PassedTill
  <2>2. Cardinality(S) \in Nat /\ Cardinality(S) <= Cardinality(PassedTill(l, k, u))
    BY <2>1, <1>5, Places
  <2> QED
    BY <2>2, <1>2, <1>5
<1>7. ASSUME NEW x \in S, l[x].until # u PROVE Cardinality(S) <= 2 * M
  <2> PICK v \in Nat : v = l[x].until
    BY <1>1, <1>4
  <2>1. u + W <= v /\ v < u + 2 * W
    BY <1>4, <1>7
  <2>2. ASSUME NEW j \in S PROVE j \in PassedTill(l, k, u) \union PassedTill(l, k, v)
    <3> PICK y \in Nat : y = l[j].until
      BY <1>1, <1>4
    <3>1. y = u \/ (u + W <= y /\ y < u + 2 * W)
      BY <1>4
    <3>2. (y < v => y + W <= v) /\ (v < y => v + W <= y)
      BY <1>2, <1>4
    <3>3. y = u \/ y = v
      BY ONLY <3>1, <3>2, <2>1, u \in Nat, v \in Nat, y \in Nat, W \in Nat \ {0}
    <3> QED
      BY <3>3, <1>4 DEF PassedTill
  <2> PICK A1 : A1 = PassedTill(l, k, u)
    OBVIOUS
  <2> PICK B1 : B1 = PassedTill(l, k, v)
    OBVIOUS
  <2>3. IsFiniteSet(A1) /\ IsFiniteSet(B1) /\ Cardinality(A1) \in Nat /\ Cardinality(B1) \in Nat
        /\ Cardinality(A1) <= M /\ Cardinality(B1) <= M
    BY <1>2, <1>5
  <2>4. IsFiniteSet(A1 \union B1) /\ IsFiniteSet(A1 \intersect B1)
        /\ Cardinality(A1 \union B1) = Cardinality(A1) + Cardinality(B1) - Cardinality(A1 \intersect B1)
    <3>1. A1 \intersect B1 \subseteq A1
      OBVIOUS
    <3> QED
      <4>1. IsFiniteSet(A1 \intersect B1)
        BY <2>3, <3>1, FS_Subset
      <4>2. /\ IsFiniteSet(A1 \union B1)
            /\ Cardinality(A1 \union B1) = Cardinality(A1) + Cardinality(B1) - Cardinality(A1 \intersect B1)
        <5>1. IsFiniteSet(A1) /\ IsFiniteSet(B1)
          BY <2>3
        <5> QED
          BY ONLY <5>1, FS_Union
      <4> QED
        BY <4>1, <4>2
  <2>5. Cardinality(A1 \intersect B1) \in Nat
    BY <2>4, FS_CardinalityType
  <2>6. IsFiniteSet(S) /\ Cardinality(S) <= Cardinality(A1 \union B1)
    BY <2>2, <2>4, FS_Subset
  <2>7. Cardinality(S) \in Nat
    BY <2>6, FS_CardinalityType
  <2> QED
    BY <2>3, <2>4, <2>5, <2>6, <2>7
<1> QED
  BY <1>6, <1>7

-----------------------------------------------------------------------------
LimitInv ==
  /\ LimitTypes
  /\ ~raced => FixedInv /\ RetryInv /\ SlideInv /\ Denials(decisions, limiter)

LEMMA LimitInvInit == Nobody \notin Counter /\ L!Init => LimitInv
<1> SUFFICES ASSUME Nobody \notin Counter, L!Init PROVE LimitInv
  OBVIOUS
<1>1. LimitTypes
  BY LimitInit
<1>2. /\ decisions = << >> /\ DOMAIN decisions = {} /\ (\A cell \in L!Cells : counters[cell] = Nobody)
      /\ \A q \in Limited : calls[q] = L!Idle
  BY DEF L!Init
<1>3. IsLimiter(limiter) /\ MaxTime \in Nat
  BY <1>1, LimiterFields, DatabaseLockAssumption DEF LimitTypes, IsLimiter
<1>4. ASSUME NEW k, NEW u PROVE Cardinality(PassedTill(decisions, k, u)) = 0 /\ Cardinality(CallsIn(decisions, k, u, limiter.window)) = 0
  <2>1. PassedTill(decisions, k, u) = {} /\ CallsIn(decisions, k, u, limiter.window) = {}
    BY <1>2 DEF PassedTill, CallsIn
  <2> QED
    BY <2>1, FS_EmptySet
<1>5. ASSUME NEW k \in L!Keys, NEW b \in (-1) .. MaxTime PROVE counters[<<k, b>>] = Nobody
  BY <1>2 DEF L!Cells
<1>6. FixedInv
  <2> SUFFICES ASSUME NEW k \in L!Keys PROVE FixedKey(k, counters[<<k, 0>>], decisions, now, limiter)
    BY DEF FixedInv
  <2>1. counters[<<k, 0>>] = Nobody
    BY <1>3, <1>5
  <2>2. \A u \in Nat : Cardinality(PassedTill(decisions, k, u)) <= limiter.limit
    BY <1>3, <1>4 DEF IsLimiter
  <2> QED
    BY <1>2, <2>1, <2>2 DEF FixedKey
<1>7. SlideInv
  <2>1. ASSUME NEW k \in L!Keys, NEW b \in (-1) .. MaxTime PROVE SlideCell(counters[<<k, b>>], decisions, k, b, limiter)
    BY <1>4, <1>5 DEF SlideCell
  <2>2. AtOnce(decisions) /\ KeptAll(decisions, limiter)
    BY <1>2 DEF AtOnce, KeptAll
  <2>3. \A q \in Limited : PreviousFits(q, calls[q], decisions, limiter)
    BY <1>2 DEF PreviousFits
  <2> QED
    BY <2>1, <2>2, <2>3 DEF SlideInv
<1>8. Denials(decisions, limiter)
  BY <1>2 DEF Denials
<1>9. RetryInv
  BY <1>2 DEF RetryInv, RetryKey, Retried
<1> QED
  BY <1>1, <1>6, <1>7, <1>8, <1>9 DEF LimitInv

LEMMA LimitInvStep ==
  ASSUME Nobody \notin Counter, LimitInv, [L!Next]_L!rateVars PROVE LimitInv'
<1>1. LimitTypes /\ LimitTypes' /\ UNCHANGED limiter /\ (~raced' => ~raced /\ StepShape)
  BY LimitStep DEF LimitInv
<1> SUFFICES ASSUME ~raced' PROVE FixedInv' /\ RetryInv' /\ SlideInv' /\ Denials(decisions', limiter')
  BY <1>1 DEF LimitInv
<1>2. ~raced /\ StepShape /\ FixedInv /\ RetryInv /\ SlideInv /\ Denials(decisions, limiter)
  BY <1>1 DEF LimitInv
<1>3. now' \in Nat
  BY <1>1 DEF LimitTypes
<1>4. CASE ~limiter.sliding
  <2>1. FixedInv' /\ RetryInv' /\ Denials(decisions', limiter')
    BY <1>1, <1>2, <1>3, <1>4, FixedStep
  <2>2. SlideInv'
    BY <1>1, <1>4 DEF SlideInv
  <2> QED
    BY <2>1, <2>2
<1>5. CASE limiter.sliding
  <2>1. FixedInv' /\ RetryInv'
    BY <1>1, <1>5 DEF FixedInv, RetryInv
  <2>2. SlideInv' /\ Denials(decisions', limiter')
    BY <1>1, <1>2, <1>5, SlideQuiet, SlideUncounted, SlideHits DEF StepShape
  <2> QED
    BY <2>1, <2>2
<1> QED
  BY <1>4, <1>5

LEMMA LimitCardinality == \A X : L!Cardinality(X) = Cardinality(X)
BY DEF L!Cardinality, Cardinality

LEMMA LimitInvSuffices == LimitInv => LimitsAsDeclared
<1> SUFFICES ASSUME LimitInv PROVE LimitsAsDeclared
  OBVIOUS
<1> PICK lm : lm = limiter
  OBVIOUS
<1> PICK l \in Seq(Decided) : l = decisions
  BY DEF LimitInv, LimitTypes
<1> PICK W \in Nat \ {0} : W = lm.window
  BY LimiterFields DEF LimitInv, LimitTypes
<1>0. IsLimiter(lm)
  BY LimiterFields DEF LimitInv, LimitTypes, IsLimiter
<1>1. ASSUME ~raced, NEW i \in DOMAIN l, l[i].reason = "limit_exceeded"
      PROVE  /\ Cardinality(L!CallsBefore(i)) > lm.limit
             /\ ~lm.sliding => l[i].until <= l[i].at + W
  <2>1. Cause(l, i, lm)
    BY <1>1 DEF LimitInv, Denials
  <2>2. L!CallsBefore(i) = Before(l, i, W)
    BY DEF L!CallsBefore, L!Window, Before
  <2> QED
    BY <2>1, <2>2 DEF Cause
<1>2. L!LimitedForCause
  BY <1>1, LimitCardinality DEF L!LimitedForCause, L!Limit
<1>3. L!RetryAfterHolds
  <2>1. ASSUME ~raced, ~lm.sliding, NEW i \in DOMAIN l, NEW j \in i + 1 .. Len(l),
               l[i].reason = "limit_exceeded", l[j].reason = "limit_exceeded", l[j].key = l[i].key,
               l[j].at >= l[i].until
        PROVE  Cardinality(L!CallsSince(j, l[i].until)) > lm.limit
    <3>1. DOMAIN l = 1 .. Len(l) /\ Len(l) \in Nat
      OBVIOUS
    <3>2. j \in DOMAIN l /\ i \in 1 .. j - 1
      BY <3>1
    <3>3. Renewed(l, i, j, lm.limit)
      BY <3>2, <2>1 DEF LimitInv, RetryInv, Retried
    <3>4. L!CallsSince(j, l[i].until) = Since(l, j, l[i].until)
      BY DEF L!CallsSince, Since
    <3> QED
      BY <3>3, <3>4, <2>1 DEF Renewed
  <2> QED
    BY <1>1, <2>1, LimitCardinality DEF L!RetryAfterHolds, L!Sliding, L!Window, L!Limit
<1>4. ASSUME lm.fail_closed, ~raced, lm.sliding, lm.provider = "memory", NEW i \in DOMAIN l, l[i].key # Nobody, l[i].allowed
      PROVE  Cardinality(L!PassedInBucket(i, l[i].at \div W))
             + L!Weighted(Cardinality(L!PassedInBucket(i, (l[i].at \div W) - 1)), l[i].at % W) <= lm.limit
  <2>1. Kept(l, i, lm)
    BY <1>4 DEF LimitInv, SlideInv, KeptAll
  <2>2. \A b : L!PassedInBucket(i, b) = PassedIn(l, i, b, W)
    BY DEF L!PassedInBucket, L!Window, PassedIn
  <2>3. \A p, e : L!Weighted(p, e) = Weighed(p, e, W)
    BY DEF L!Weighted, Weighed, L!Window
  <2> QED
    BY <2>1, <2>2, <2>3 DEF Kept
<1>5. ASSUME lm.fail_closed, ~raced, ~lm.sliding, NEW i \in DOMAIN l, l[i].key # Nobody, l[i].allowed
      PROVE  /\ Cardinality(L!PassedUntil(l[i].key, l[i].until)) <= lm.limit
             /\ Cardinality(L!PassedFrom(l[i].key, l[i].at)) <= 2 * lm.limit
  <2> PICK k : k = l[i].key
    OBVIOUS
  <2>1. k \in {Identity[r] : r \in Limited} /\ l[i].until \in Nat
    <3>1. l[i] \in Decided
      OBVIOUS
    <3> QED
      BY <3>1 DEF Decided
  <2>2. k \in L!Keys
    BY <2>1, <1>5 DEF L!Keys
  <2>3. FixedKey(k, counters[<<k, 0>>], l, now, lm)
    BY <2>2, <1>5 DEF LimitInv, FixedInv
  <2>4. L!PassedUntil(k, l[i].until) = PassedTill(l, k, l[i].until)
    BY DEF L!PassedUntil, PassedTill
  <2>5. Cardinality(L!PassedUntil(k, l[i].until)) <= lm.limit
    BY <2>1, <2>3, <2>4, <1>5 DEF FixedKey
  <2>6. L!PassedFrom(k, l[i].at) =
          {j \in DOMAIN l : l[j].key = k /\ l[j].allowed /\ l[j].at \in l[i].at .. l[i].at + lm.window - 1}
    BY DEF L!PassedFrom, L!Window
  <2>7. Cardinality(L!PassedFrom(k, l[i].at)) <= 2 * lm.limit
    BY <2>3, <2>6, <1>0, <1>5, TwoCounters
  <2> QED
    BY <2>5, <2>7
<1>6. L!RateKept
  <2> SUFFICES ASSUME lm.fail_closed, ~raced, lm.sliding => lm.provider = "memory",
                      NEW i \in DOMAIN l, l[i].key # Nobody, l[i].allowed
               PROVE  IF lm.sliding
                        THEN Cardinality(L!PassedInBucket(i, l[i].at \div W))
                             + L!Weighted(Cardinality(L!PassedInBucket(i, (l[i].at \div W) - 1)), l[i].at % W) <= lm.limit
                        ELSE /\ Cardinality(L!PassedUntil(l[i].key, l[i].until)) <= lm.limit
                             /\ Cardinality(L!PassedFrom(l[i].key, l[i].at)) <= 2 * lm.limit
    BY LimitCardinality DEF L!RateKept, L!Sliding, L!FailClosed, L!Limit, L!Window
  <2> QED
    BY <1>4, <1>5
<1> QED
  BY <1>2, <1>3, <1>6 DEF LimitsAsDeclared

(* The limiters keep their rules, whatever requests, keys, clock and limits  *)
(* there are (RateLimit): LimitsAsDeclared, of the limiter's specification.  *)
(* Nobody must not be a counter.                                             *)
THEOREM LimitersKeepTheirRules ==
  ASSUME Nobody \notin Counter PROVE L!Spec => []LimitsAsDeclared
<1>1. L!Init => LimitInv
  BY LimitInvInit
<1>2. LimitInv /\ [L!Next]_L!rateVars => LimitInv'
  BY LimitInvStep
<1> QED
  BY <1>1, <1>2, LimitInvSuffices, PTL DEF L!Spec
=============================================================================
