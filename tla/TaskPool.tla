------------------------------ MODULE TaskPool ------------------------------
(***************************************************************************)
(* What a thread pool promises to the code that hands it tasks, with no    *)
(* threads, locks or condition variables.  A task is new until Enqueue     *)
(* decides about it; an accepted task is queued, then taken by exactly one *)
(* thread, then done.  The pool closes in one of two ways: drained, when   *)
(* no task is queued any more (ShutDown), or discarding what is queued     *)
(* (Stop_now).  Once the closing call has returned the pool is joined, and *)
(* no task is or ever will be in the hands of a thread.                    *)
(*                                                                         *)
(* ThreadPool implements this specification.                               *)
(***************************************************************************)
CONSTANT Task

VARIABLES
  task,    \* what has become of each task
  pool     \* "open", "closed" or "joined"

vars == <<task, pool>>

Progress == {"new", "queued", "taken", "done", "refused", "discarded"}

Init ==
  /\ task = [t \in Task |-> "new"]
  /\ pool = "open"

\* Task t moves from one stage to another, and the others stay where they are.
Move(t, from, to) ==
  /\ task[t] = from
  /\ task' = [task EXCEPT ![t] = to]

Accept(t) == pool = "open" /\ Move(t, "new", "queued") /\ UNCHANGED pool

Refuse(t) == pool # "open" /\ Move(t, "new", "refused") /\ UNCHANGED pool

Take(t) == pool = "open" /\ Move(t, "queued", "taken") /\ UNCHANGED pool

Finish(t) == pool # "joined" /\ Move(t, "taken", "done") /\ UNCHANGED pool

CloseDrained ==
  /\ pool = "open"
  /\ \A t \in Task : task[t] # "queued"
  /\ pool' = "closed"
  /\ UNCHANGED task

CloseDiscarding ==
  /\ pool = "open"
  /\ task' = [t \in Task |-> IF task[t] = "queued" THEN "discarded" ELSE task[t]]
  /\ pool' = "closed"

Join ==
  /\ pool = "closed"
  /\ \A t \in Task : task[t] # "taken"
  /\ pool' = "joined"
  /\ UNCHANGED task

Next ==
  \/ \E t \in Task : Accept(t) \/ Refuse(t) \/ Take(t) \/ Finish(t)
  \/ CloseDrained
  \/ CloseDiscarding
  \/ Join

Spec == Init /\ [][Next]_vars

=============================================================================
