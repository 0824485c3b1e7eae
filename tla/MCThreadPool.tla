---------------------------- MODULE MCThreadPool ----------------------------
(* Values for the constants of ThreadPool.                                 *)
EXTENDS ThreadPool, TLC

CONSTANTS w1, w2, w3, t1, t2, t3

TwoWorkers == {w1, w2}
ThreeWorkers == {w1, w2, w3}
TwoTasks == {t1, t2}
ThreeTasks == {t1, t2, t3}

\* kHIGH, kNORMAL and kLOW, and the same for every task
AllPriorities == [t \in Task |-> IF t = t1 THEN 0 ELSE IF t = t2 THEN 1 ELSE 2]
OnePriority == [t \in Task |-> 1]

AllCalls == {"Pause", "Resume", "ShutDown", "Stop_now", "Destroy"}
MostCalls == {"Pause", "Resume", "ShutDown", "Stop_now"}
OnlyShutDown == {"ShutDown"}

\* Workers are interchangeable.
WorkerSymmetry == Permutations(Worker)
=============================================================================
