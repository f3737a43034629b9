------------------------------ MODULE MCOutbox ------------------------------
(* Instances of Outbox for TLC. *)
EXTENDS Outbox, TLC

CONSTANTS e1, e2, d1, d2, o1, outboxDispatcher

\* Both processes run with the default --dispatcher-id of the CLI.
MCDispatcherId == [d \in {d1, d2} |-> outboxDispatcher]

Symmetry == Permutations({e1, e2}) \union Permutations({d1, d2})
=============================================================================
