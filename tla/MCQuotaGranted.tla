---------------------------- MODULE MCQuotaGranted --------------------------
(* Quota with the database store, one rule and a key that has no row yet.   *)
EXTENDS Quota

CONSTANTS c1, c2, c3

\* One client asks for two of the three units, the others for one.
MCAmount == [c \in Clients |-> IF c = c1 THEN 2 ELSE 1]
MCLimit == [m \in Rules |-> 3]
=============================================================================
