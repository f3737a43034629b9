-------------------------- MODULE MCOutboxDispatch --------------------------
(* OutboxDispatch for TLC: two dispatchers.  The setting of a behaviour is   *)
(* chosen in its initial state.                                             *)
EXTENDS OutboxDispatch

CONSTANTS d1, d2

VARIABLE setting

\* The first handler of the second event always meets a database error.
MCPoison == {<<2, 1>>}

MCInit ==
  /\ setting \in {"poison", "live"}
  /\ Init

\* "live": one event, whose records are not old enough to be reclaimed.
\* "poison": both, no crash, no replay, and the first one's records may expire.
MCNext ==
  /\ Next
  /\ setting = "live" => db'[2].status = "absent" /\ expired' = {}
  /\ setting = "poison" => crashes' = 0 /\ expired' \subseteq {1} /\ replays' = replays
  /\ UNCHANGED setting

\* The fairness of FairSpec, in the setting that asks for it.
MCFairness == \A d \in Dispatchers : WF_vars(setting = "live" /\ Step(d))

MCSpec == MCInit /\ [][MCNext]_<<vars, setting>> /\ MCFairness

-----------------------------------------------------------------------------
(* Every event is delivered or dead-lettered although processes crash.      *)
AllSettled ==
  setting = "live" /\ db[1].status \in {"pending", "failed"}
    ~> db[1].status \in {"published", "dead_letter"}
=============================================================================
