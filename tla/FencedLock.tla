----------------------------- MODULE FencedLock -----------------------------
(***************************************************************************)
(* What LockProvider promises for one lock_key: a lease is granted only    *)
(* when no other lease is live, and every grant carries a fencing token    *)
(* larger than all tokens granted before, so that a resource which         *)
(* remembers the largest token it has seen can refuse a previous owner.    *)
(***************************************************************************)
EXTENDS Naturals

VARIABLES
  token,  \* fencing token of the last grant, 0 before the first
  owner,  \* owner_token of the last grant
  live    \* whether that lease is unexpired and unreleased

vars == <<token, owner, live>>

Init ==
  /\ token = 0
  /\ live = FALSE

\* The lease may already be over when the grant reaches its owner.
Grant ==
  /\ ~live
  /\ token' \in Nat
  /\ token' > token
  /\ live' \in BOOLEAN

\* Release or expiry.
End ==
  /\ live' = FALSE
  /\ UNCHANGED <<token, owner>>

\* An owner that nobody has replaced extends its lease, even a lapsed one.
Extend ==
  /\ token > 0
  /\ live' = TRUE
  /\ UNCHANGED <<token, owner>>

Next == Grant \/ End \/ Extend

Spec == Init /\ [][Next]_vars
=============================================================================
