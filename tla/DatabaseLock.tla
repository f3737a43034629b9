---------------------------- MODULE DatabaseLock ----------------------------
(***************************************************************************)
(* DatabaseLockProvider (core/locks/database.py) for one lock_key: the row *)
(* of core_locks, and clients that acquire, extend and release.  Each call *)
(* is a short transaction of its own; it reads the clock and the row first *)
(* and updates the row under a condition later, so both may be stale.      *)
(* All clients read one clock.                                             *)
(***************************************************************************)
EXTENDS Integers

CONSTANTS
  Clients,     \* the callers, each with at most one call under way
  OwnerToken,  \* the owner_token each passes
  NoOwner,     \* owner_token before the row exists
  Ttl,         \* ttl_seconds
  MaxTime,     \* bound: the clock stops here
  MaxGrants    \* bound: grants of the lock

ASSUME DatabaseLockAssumption ==
  /\ Ttl \in Nat \ {0}
  /\ MaxTime \in Nat
  /\ MaxGrants \in Nat

VARIABLES
  now,      \* the wall clock
  row,      \* the row of core_locks; fencing_token 0: no row yet
  pc,       \* the statement each client's call is about to execute
  at,       \* "now" of that call
  handle    \* the LockHandle a client works under; fencing_token 0: none

vars == <<now, row, pc, at, handle>>

Owners == {OwnerToken[c] : c \in Clients}

NoHandle == [expires_at |-> 0, fencing_token |-> 0]

TypeOK ==
  /\ now \in Nat
  /\ row \in [owner_token : Owners \union {NoOwner}, expires_at : Nat, fencing_token : Nat]
  /\ pc \in [Clients -> {"idle", "acquire", "insert", "update", "release", "extend"}]
  /\ at \in [Clients -> Nat]
  /\ handle \in [Clients -> [expires_at : Nat, fencing_token : Nat]]

RowExists == row.fencing_token > 0

Init ==
  /\ now = 0
  /\ row = [owner_token |-> NoOwner, expires_at |-> 0, fencing_token |-> 0]
  /\ pc = [c \in Clients |-> "idle"]
  /\ at = [c \in Clients |-> 0]
  /\ handle = [c \in Clients |-> NoHandle]

\* The call returns; h is the handle the client works under from now on.
Return(c, h) ==
  /\ pc' = [pc EXCEPT ![c] = "idle"]
  /\ at' = [at EXCEPT ![c] = 0]
  /\ handle' = [handle EXCEPT ![c] = h]
  /\ UNCHANGED now

\* The call goes on to statement p, with clock reading t.
GoOn(c, p, t) ==
  /\ pc' = [pc EXCEPT ![c] = p]
  /\ at' = [at EXCEPT ![c] = t]
  /\ UNCHANGED <<now, row, handle>>

-----------------------------------------------------------------------------
\* _acquire_in_session starts: it reads the clock before the row.
Acquire(c) ==
  /\ pc[c] = "idle"
  /\ row.fencing_token < MaxGrants
  /\ handle[c] = NoHandle
  /\ GoOn(c, "acquire", now)

AcquireRead(c) ==
  /\ pc[c] = "acquire"
  /\ \/ /\ RowExists
        /\ row.expires_at > at[c]
        /\ Return(c, NoHandle)
        /\ UNCHANGED row
     \/ /\ RowExists
        /\ row.expires_at <= at[c]
        /\ GoOn(c, "update", at[c])
     \/ /\ ~RowExists
        /\ GoOn(c, "insert", at[c])

Granted(c, t) == [expires_at |-> at[c] + Ttl, fencing_token |-> t]

\* INSERT; a row that appeared meanwhile is an IntegrityError and one more try
\* with a new clock reading.  Rows are never deleted, so that try finds the row
\* and there is no third.
AcquireInsert(c) ==
  /\ pc[c] = "insert"
  /\ \/ /\ ~RowExists
        /\ row' = [owner_token |-> OwnerToken[c], expires_at |-> at[c] + Ttl,
                   fencing_token |-> 1]
        /\ Return(c, Granted(c, 1))
     \/ /\ RowExists
        /\ GoOn(c, "acquire", now)

\* Mutant: the update forgets to raise the token.
TakenRow_SameToken(c) ==
  [owner_token |-> OwnerToken[c], expires_at |-> at[c] + Ttl,
   fencing_token |-> row.fencing_token]

\* The row after UPDATE ... SET fencing_token = fencing_token + 1.
TakenRow(c) ==
  [owner_token |-> OwnerToken[c], expires_at |-> at[c] + Ttl,
   fencing_token |-> row.fencing_token + 1]

\* Mutant: the UPDATE has no WHERE expires_at <= now.
AcquireUpdate_Unconditional(c) ==
  /\ pc[c] = "update"
  /\ row' = TakenRow(c)
  /\ Return(c, Granted(c, TakenRow(c).fencing_token))

\* UPDATE ... WHERE expires_at <= now; rowcount 0 means another owner was faster.
AcquireUpdate(c) ==
  /\ pc[c] = "update"
  /\ \/ /\ row.expires_at <= at[c]
        /\ row' = TakenRow(c)
        /\ Return(c, Granted(c, TakenRow(c).fencing_token))
     \/ /\ row.expires_at > at[c]
        /\ Return(c, NoHandle)
        /\ UNCHANGED row

\* The row is this owner's and unexpired at time t.
OwnedAt(c, t) ==
  /\ RowExists
  /\ row.owner_token = OwnerToken[c]
  /\ row.expires_at > t

\* release: the client works no longer under the lease.  The row is read before
\* the clock, but what was read only decides an early return that changes
\* nothing, as the UPDATE does when the row is no longer this owner's.
ReleaseRead(c) ==
  /\ pc[c] = "idle"
  /\ handle[c] # NoHandle
  /\ \/ /\ OwnedAt(c, now)
        /\ pc' = [pc EXCEPT ![c] = "release"]
        /\ at' = [at EXCEPT ![c] = now]
        /\ handle' = [handle EXCEPT ![c] = NoHandle]
        /\ UNCHANGED <<now, row>>
     \/ /\ ~OwnedAt(c, now)
        /\ Return(c, NoHandle)
        /\ UNCHANGED row

ReleaseUpdate(c) ==
  /\ pc[c] = "release"
  /\ row' = IF OwnedAt(c, at[c]) THEN [row EXCEPT !.expires_at = at[c]] ELSE row
  /\ Return(c, NoHandle)

\* extend: None (no handle) when the lease is lost at either point.
ExtendRead(c) ==
  /\ pc[c] = "idle"
  /\ handle[c] # NoHandle
  /\ \/ /\ OwnedAt(c, now)
        /\ GoOn(c, "extend", now)
     \/ /\ ~OwnedAt(c, now)
        /\ Return(c, NoHandle)
        /\ UNCHANGED row

ExtendUpdate(c) ==
  /\ pc[c] = "extend"
  /\ \/ /\ OwnedAt(c, at[c])
        /\ row' = [row EXCEPT !.expires_at = at[c] + Ttl]
        /\ Return(c, Granted(c, row.fencing_token))
     \/ /\ ~OwnedAt(c, at[c])
        /\ Return(c, NoHandle)
        /\ UNCHANGED row

\* The client dies anywhere; the row keeps its lease until it expires.
Crash(c) ==
  /\ pc[c] # "idle" \/ handle[c] # NoHandle
  /\ Return(c, NoHandle)
  /\ UNCHANGED row

Tick ==
  /\ now < MaxTime
  /\ now' = now + 1
  /\ UNCHANGED <<row, pc, at, handle>>

Next ==
  \/ \E c \in Clients :
       \/ Acquire(c) \/ AcquireRead(c) \/ AcquireInsert(c) \/ AcquireUpdate(c)
       \/ ReleaseRead(c) \/ ReleaseUpdate(c)
       \/ ExtendRead(c) \/ ExtendUpdate(c)
       \/ Crash(c)
  \/ Tick

Spec == Init /\ [][Next]_vars

-----------------------------------------------------------------------------
(* No two clients both believe they hold an unexpired lease, although every *)
(* call decides on a clock and a row it read earlier.                       *)
MutualExclusion ==
  \A c, d \in Clients :
    handle[c].expires_at > now /\ handle[d].expires_at > now => c = d

(* A client that believes its lease unexpired holds the newest fencing      *)
(* token: a resource that compares tokens never refuses the current owner.  *)
CurrentOwnerHasNewestToken ==
  \A c \in Clients :
    handle[c].expires_at > now => handle[c].fencing_token = row.fencing_token

Lock == INSTANCE FencedLock WITH
  token <- row.fencing_token,
  owner <- row.owner_token,
  live  <- row.expires_at > now

(* The table implements FencedLock: a grant never overlaps a live lease, its *)
(* token is larger than every token before, and nothing else moves the lock *)
(* to another owner.                                                        *)
ImplementsFencedLock == Lock!Spec
=============================================================================
