---------------------------- MODULE MCTaskQueue -----------------------------
(* TaskQueue for TLC: two tasks and three processes that are not clients.   *)
(* The setting of a behaviour is chosen in its initial state.               *)
EXTENDS TaskQueue

CONSTANTS c1, w1, w2, o1

VARIABLE setting

\* One worker, and a second client in the place of the other.
One == INSTANCE TaskQueue WITH Clients <- {c1, w2}, Workers <- {w1},
         Providers <- {"sync", "database"}, Nested <- {}, Deletions <- FALSE

\* Two Celery workers.
Redelivery == INSTANCE TaskQueue WITH Providers <- {"celery"}, Nested <- {},
                Deletions <- FALSE, MaxRetries <- 0

\* Two loops of the database provider.
Live == INSTANCE TaskQueue WITH Providers <- {"database"}, Nested <- {},
          Deletions <- FALSE, MaxRetries <- 0, MaxCrashes <- 1

MCInit ==
  /\ \/ setting = "all" /\ Init
     \/ setting = "one" /\ One!Init
     \/ setting = "redelivery" /\ Redelivery!Init
     \/ setting = "live" /\ Live!Init
  /\ loops = IF setting = "one" THEN {w1} ELSE Workers

MCNext ==
  \/ setting = "all" /\ Next /\ UNCHANGED setting
  \/ setting = "one" /\ One!Next /\ UNCHANGED setting
  \/ setting = "redelivery" /\ Redelivery!Next /\ UNCHANGED setting
  \/ setting = "live" /\ Live!Next /\ UNCHANGED setting

\* Live!Fairness, in its setting.
MCFairness ==
  /\ \A w \in Workers : WF_vars(setting = "live" /\ Live!Step(w))
  /\ \A p \in Clients \cup Operators : WF_vars(setting = "live" /\ Live!Work(p))
  /\ \A t \in Tasks : WF_vars(setting = "live" /\ Live!BackoffElapsed(t))

MCSpec == MCInit /\ [][MCNext]_<<vars, setting>> /\ MCFairness

-----------------------------------------------------------------------------
(* Two loops of the database provider that overwrite one another settle     *)
(* every task, although one of them crashes.                                *)
SettledByTheLoops ==
  \A t \in Tasks : setting = "live" /\ table[t].status = "pending"
    ~> table[t].status \in {"succeeded", "failed", "dead_letter", "cancelled"}
=============================================================================
