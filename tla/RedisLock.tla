----------------------------- MODULE RedisLock ------------------------------
(***************************************************************************)
(* RedisLockProvider (core/locks/redis.py) for one lock_key: the lock key  *)
(* and the fencing counter in Redis, and clients that acquire, extend and  *)
(* release.  Redis executes one command or script at a time; between two   *)
(* commands of one call, and between a command and the moment its caller   *)
(* reads the clock, the others run.                                        *)
(***************************************************************************)
EXTENDS Integers

CONSTANTS
  Clients,    \* the callers; the owner_token of each is its own (uuid4)
  NoOwner,    \* owner of the lock key before the first SET; no client
  Ttl,        \* ttl_seconds
  MaxTime,    \* bound: the clock stops here
  MaxTokens   \* bound: acquire calls start only below this counter value

VARIABLES
  now,      \* the clock of Redis and of the clients
  counter,  \* the fencing key
  key,      \* the lock key, live while expires_at > now
  pc,       \* the command each client is about to send or whose reply it awaits
  fencing,  \* fencing_token of the acquire under way
  tries,    \* iterations of acquire's loop already used up
  handle    \* the LockHandle a client works under; fencing_token 0: none

vars == <<now, counter, key, pc, fencing, tries, handle>>

NoHandle == [expires_at |-> 0, fencing_token |-> 0]

TypeOK ==
  /\ now \in Nat
  /\ counter \in Nat
  /\ key \in [owner_token : Clients \union {NoOwner}, fencing_token : Nat, expires_at : Nat]
  /\ pc \in [Clients -> {"idle", "incr", "set", "set_done", "get", "extend_done"}]
  /\ fencing \in [Clients -> Nat]
  /\ tries \in [Clients -> 0..1]
  /\ handle \in [Clients -> [expires_at : Nat, fencing_token : Nat]]

KeyExists == key.expires_at > now

Init ==
  /\ now = 0
  /\ counter = 0
  /\ key = [owner_token |-> NoOwner, fencing_token |-> 0, expires_at |-> 0]
  /\ pc = [c \in Clients |-> "idle"]
  /\ fencing = [c \in Clients |-> 0]
  /\ tries = [c \in Clients |-> 0]
  /\ handle = [c \in Clients |-> NoHandle]

GoOn(c, p) ==
  /\ pc' = [pc EXCEPT ![c] = p]
  /\ UNCHANGED <<now, handle>>

Return(c, h) ==
  /\ pc' = [pc EXCEPT ![c] = "idle"]
  /\ fencing' = [fencing EXCEPT ![c] = 0]
  /\ tries' = [tries EXCEPT ![c] = 0]
  /\ handle' = [handle EXCEPT ![c] = h]
  /\ UNCHANGED now

-----------------------------------------------------------------------------
Acquire(c) ==
  /\ pc[c] = "idle"
  /\ handle[c] = NoHandle
  /\ counter < MaxTokens
  /\ GoOn(c, "incr")
  /\ UNCHANGED <<counter, key, fencing, tries>>

\* INCR fencing_key
Incr(c) ==
  /\ pc[c] = "incr"
  /\ counter' = counter + 1
  /\ fencing' = [fencing EXCEPT ![c] = counter']
  /\ GoOn(c, "set")
  /\ UNCHANGED <<key, tries>>

\* SET lock_key payload NX PX
SetNx(c) ==
  /\ pc[c] = "set"
  /\ \/ /\ ~KeyExists
        /\ key' = [owner_token |-> c, fencing_token |-> fencing[c], expires_at |-> now + Ttl]
        /\ GoOn(c, "set_done")
     \/ /\ KeyExists
        /\ GoOn(c, "get")
        /\ UNCHANGED key
  /\ UNCHANGED <<counter, fencing, tries>>

\* The reply arrives; only now the client computes expires_at.
SetReply(c) ==
  /\ pc[c] = "set_done"
  /\ Return(c, [expires_at |-> now + Ttl, fencing_token |-> fencing[c]])
  /\ UNCHANGED <<counter, key>>

\* _blocked_handle: GET; when the key is gone by then, one more try, then
\* LOCK_NOT_ACQUIRED.
BlockedGet(c) ==
  /\ pc[c] = "get"
  /\ \/ /\ KeyExists \/ tries[c] = 1
        /\ Return(c, NoHandle)
     \/ /\ ~KeyExists
        /\ tries[c] = 0
        /\ tries' = [tries EXCEPT ![c] = 1]
        /\ GoOn(c, "incr")
        /\ UNCHANGED fencing
  /\ UNCHANGED <<counter, key>>

\* Mutant: the scripts do not compare the owner.
Owns_Anyone(c) == KeyExists

\* The test of both scripts: the key exists and its payload names this owner.
Owns(c) ==
  /\ KeyExists
  /\ key.owner_token = c

\* _RELEASE_SCRIPT: DEL.  The client works no longer under the lease.
Release(c) ==
  /\ pc[c] = "idle"
  /\ handle[c] # NoHandle
  /\ key' = IF Owns(c) THEN [key EXCEPT !.expires_at = now] ELSE key
  /\ Return(c, NoHandle)
  /\ UNCHANGED counter

\* _EXTEND_SCRIPT: PEXPIRE and the payload, or nothing and None.
Extend(c) ==
  /\ pc[c] = "idle"
  /\ handle[c] # NoHandle
  /\ \/ /\ Owns(c)
        /\ key' = [key EXCEPT !.expires_at = now + Ttl]
        /\ fencing' = [fencing EXCEPT ![c] = key.fencing_token]
        /\ GoOn(c, "extend_done")
        /\ UNCHANGED tries
     \/ /\ ~Owns(c)
        /\ Return(c, NoHandle)
        /\ UNCHANGED key
  /\ UNCHANGED counter

ExtendReply(c) ==
  /\ pc[c] = "extend_done"
  /\ Return(c, [expires_at |-> now + Ttl, fencing_token |-> fencing[c]])
  /\ UNCHANGED <<counter, key>>

\* The client dies, or its connection does; what Redis executed stays.
Crash(c) ==
  /\ pc[c] # "idle" \/ handle[c] # NoHandle
  /\ Return(c, NoHandle)
  /\ UNCHANGED <<counter, key>>

Tick ==
  /\ now < MaxTime
  /\ now' = now + 1
  /\ UNCHANGED <<counter, key, pc, fencing, tries, handle>>

Next ==
  \/ \E c \in Clients :
       \/ Acquire(c) \/ Incr(c) \/ SetNx(c) \/ SetReply(c) \/ BlockedGet(c)
       \/ Release(c) \/ Extend(c) \/ ExtendReply(c)
       \/ Crash(c)
  \/ Tick

Spec == Init /\ [][Next]_vars

-----------------------------------------------------------------------------
(* While the lock key exists only a step of its own owner changes it: no    *)
(* acquire overtakes it, and no late release or extension of a previous     *)
(* owner ends or prolongs it.                                               *)
OthersKeyUntouched ==
  [][\A c \in Clients :
       key.owner_token = c /\ KeyExists /\ key' # key
         => pc'[c] # pc[c] \/ handle'[c] # handle[c]]_vars

Lock == INSTANCE FencedLock WITH
  token <- key.fencing_token,
  owner <- key.owner_token,
  live  <- KeyExists

(* "Redis fencing token 单调递增" (docs/modules/core-locks.md): every grant has *)
(* a larger token than every grant before.                                  *)
ImplementsFencedLock == Lock!Spec
=============================================================================
