---------------------------- MODULE MCAuditFork -----------------------------
(* Audit for TLC: three requests of one process whose transactions may have *)
(* begun before they record.                                                *)
EXTENDS Audit

CONSTANTS a1, a2, a3

MCProcessOf == [r \in Requests |-> 1]
MCSpec == Init /\ [][Next]_auditVars
=============================================================================
