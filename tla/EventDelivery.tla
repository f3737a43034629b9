--------------------------- MODULE EventDelivery ---------------------------
(***************************************************************************)
(* What the outbox promises about an event, without leases, processes or   *)
(* transactions: it is delivered or dead-lettered after a bounded number   *)
(* of failures, and only a dead letter can be opened again.  One           *)
(* transaction may settle several events, so one step may move several.    *)
(***************************************************************************)
EXTENDS Naturals

CONSTANTS Events, MaxAttempts

VARIABLES
  state,     \* absent, open (to be delivered), published or dead
  attempts   \* failed attempts

vars == <<state, attempts>>

Init ==
  /\ state = [e \in Events |-> "absent"]
  /\ attempts = [e \in Events |-> 0]

Added(e) ==
  /\ state[e] = "absent"
  /\ state'[e] = "open"
  /\ attempts'[e] = attempts[e]

Published(e) ==
  /\ state[e] = "open"
  /\ state'[e] = "published"
  /\ attempts'[e] = attempts[e]

\* A failure counts; the last permitted one, or a permanent one, is the end.
Failed(e) ==
  /\ state[e] = "open"
  /\ attempts'[e] = attempts[e] + 1
  /\ \/ state'[e] = "dead"
     \/ state'[e] = "open" /\ attempts'[e] < MaxAttempts

Replayed(e) ==
  /\ state[e] = "dead"
  /\ state'[e] = "open"
  /\ attempts'[e] = attempts[e]

Untouched(e) ==
  /\ state'[e] = state[e]
  /\ attempts'[e] = attempts[e]

Next ==
  /\ state' = [e \in Events |-> state'[e]]
  /\ attempts' = [e \in Events |-> attempts'[e]]
  /\ \A e \in Events :
       Added(e) \/ Published(e) \/ Failed(e) \/ Replayed(e) \/ Untouched(e)

Spec == Init /\ [][Next]_vars
=============================================================================
