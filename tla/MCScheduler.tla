---------------------------- MODULE MCScheduler -----------------------------
(* Scheduler for TLC: three minutes and three processes.  The setting of a   *)
(* behaviour is chosen in its initial state.                                *)
EXTENDS Scheduler

CONSTANTS i1, i2, op

VARIABLE setting

\* One instance as deployed, with a lock of its own, and two operators.
One == INSTANCE Scheduler WITH Instances <- {i1}, Operators <- {op, i2},
         MisfireLimit <- 1, MaxFaults <- 0

\* Two instances that share the lock, and an operator.
Shared == INSTANCE Scheduler WITH SharedLock <- TRUE

\* Two instances and a trigger that raises.
Latest == INSTANCE Scheduler WITH SharedLock <- TRUE, Policy <- "run_once",
            MisfireLimit <- 1

\* Two instances.
Skip == INSTANCE Scheduler WITH SharedLock <- TRUE, Cron <- {1, 2}, Policy <- "skip",
          MisfireLimit <- 1

\* The operator triggers nothing where liveness is checked.
NoOperator == proc'[op] = proc[op]

MCInit ==
  /\ setting \in {"shared", "one", "run_once", "skip"}
  /\ Init
  /\ deployed = IF setting = "one" THEN {i1} ELSE Instances

MCNext ==
  \/ setting = "shared" /\ Shared!Next /\ UNCHANGED setting
  \/ setting = "one" /\ One!Next /\ UNCHANGED setting
  \/ setting = "run_once" /\ Latest!Next /\ NoOperator /\ UNCHANGED setting
  \/ setting = "skip" /\ Skip!Next /\ NoOperator /\ UNCHANGED setting

\* The fairness of FairSpec, in the two settings that ask for it.
MCFairness ==
  /\ WF_vars(setting \in {"run_once", "skip"} /\ Tick)
  /\ \A p \in Instances : /\ WF_vars(setting = "run_once" /\ Latest!Step(p))
                          /\ WF_vars(setting = "skip" /\ Skip!Step(p))
  /\ \A s \in Minutes : WF_vars(setting \in {"run_once", "skip"} /\ LockExpires(s))

MCSpec == MCInit /\ [][MCNext]_<<vars, setting>> /\ MCFairness

-----------------------------------------------------------------------------
(* The schedule catches up with the clock, with two instances, crashes and  *)
(* deadlocks, and with skip or with run_once and a trigger that raises.     *)
LatecomersCatchUp ==
  setting \in {"run_once", "skip"} /\ last # 0
    ~> IF setting = "skip" THEN Skip!UpToDate ELSE Latest!UpToDate
=============================================================================
