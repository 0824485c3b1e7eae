-------------------------- MODULE ThreadPoolProofs --------------------------
(***************************************************************************)
(* Safety of ThreadPool for any number of workers, callers and tasks.      *)
(* The inductive invariant has four parts besides the shape of the         *)
(* variables: who holds a task (Hands), what the two counters count        *)
(* (Counts), where each accepted task is (EachTaskOnce), and what being    *)
(* stopped means (StopMarks).                                              *)
(***************************************************************************)
EXTENDS ThreadPool, FiniteSetTheorems, TLAPS

\* TypeOK, the ranges of the two counters left to Counts.
Shape ==
  /\ state \in ThreadStatus
  /\ stop \in BOOLEAN
  /\ task_queue \subseteq Task /\ completed \subseteq Task /\ discarded \subseteq Task
  /\ worker \in [Worker -> WorkerPoint]
  /\ hand \in [Worker -> Task \cup {NoTask}]
  /\ caller \in [Task -> CallerPoint]
  /\ owner \in OwnerPoint

\* A worker holds a task from the pop to the end of the task's body.
Hands == \A w \in Worker : hand[w] # NoTask <=> worker[w] \in {"popped", "running"}

\* The workers that have counted themselves in and not out again.
Active == {w \in Worker : worker[w] \in {"running", "ran"}}

Counts ==
  /\ current_thread_nums \in Int /\ active_threads \in Int
  /\ ThreadsAccounted
  /\ active_threads = Cardinality(Active)

\* The pool is stopped from the moment one of the two calls says so; from then
\* on nothing is queued, and only Stop_now ever throws a task away.
StopMarks ==
  /\ stop <=> state = "kStopped"
  /\ stop <=> owner \in {"sd_wake", "sd_join", "drained", "sn_wake", "sn_join", "halted"}
  /\ stop => task_queue = {}
  /\ owner \in {"drained", "halted"} => Live = {}
  /\ owner \notin {"sn_wake", "sn_join", "halted"} => discarded = {}

IInv == Shape /\ Hands /\ Counts /\ StopMarks /\ EachTaskOnce /\ QueueBounded

-----------------------------------------------------------------------------
(* The shape of the variables.                                             *)

\* Every step keeps each variable in its range.
LEMMA ShapeInductive == Shape /\ Hands /\ [Next]_vars => Shape'
<1> SUFFICES ASSUME Shape, Hands, [Next]_vars PROVE Shape'
  OBVIOUS
<1> USE DEF Shape, ThreadStatus, WorkerPoint, CallerPoint, OwnerPoint,
            status, tasks, threads
<1>1. CASE UNCHANGED vars
  BY <1>1 DEF vars
<1>2. ASSUME NEW t \in Task, Enqueue(t) PROVE Shape'
  <2>1. CASE EnqueueRefused(t) \/ EnqueueWaits(t)
    BY <2>1 DEF EnqueueRefused, EnqueueWaits
  <2>2. CASE EnqueuePushes(t)
    BY <2>2 DEF EnqueuePushes, Push, UpdateThreadNums
  <2>3. CASE EnqueueNotifies(t)
    BY <2>3 DEF EnqueueNotifies, NotifyGetTask
  <2> QED BY <1>2, <2>1, <2>2, <2>3 DEF Enqueue
<1>3. ASSUME NEW w \in Worker, WorkerThread(w) \/ Timeout(w) PROVE Shape'
  <2>1. CASE \/ FindNothing(w) \/ Sleep(w) \/ FindTask(w) \/ StayOn(w)
             \/ GoAround(w) \/ Choose(w) \/ Timeout(w)
    BY <2>1 DEF FindNothing, Sleep, FindTask, StayOn, GoAround, Choose, Timeout, Step
  <2>2. CASE IdleExit(w) \/ StopExit(w)
    BY <2>2 DEF IdleExit, StopExit, Exit
  <2>3. CASE Take(w)
    <3>1. PICK t \in task_queue : /\ task_queue' = Popped(t)
                                  /\ hand' = [hand EXCEPT ![w] = t]
      BY <2>3 DEF Take, MostUrgent
    <3>2. caller' \in [Task -> CallerPoint]
      BY <2>3 DEF Take, NotifyNotFull
    <3> QED BY <2>3, <3>1, <3>2 DEF Take, Popped
  <2>4. CASE Start(w) \/ Leave(w)
    BY <2>4 DEF Start, Leave
  <2>5. CASE Finish(w)
    BY <2>5 DEF Finish, Hands
  <2>6. CASE Signal(w)
    BY <2>6 DEF Signal, AllWoken
  <2> QED BY <1>3, <2>1, <2>2, <2>3, <2>4, <2>5, <2>6 DEF WorkerThread
<1>4. CASE OwnerDecides
  <2>1. CASE Pause \/ Resume
    BY <2>1 DEF Pause, Resume, SwitchStatus, AllWoken
  <2>2. CASE ShutDown \/ Stop_now \/ Destroy
    BY <2>2 DEF ShutDown, Stop_now, Destroy, MarkStopped, EmptyQueue, OwnerStep
  <2> QED BY <1>4, <2>1, <2>2 DEF OwnerDecides
<1>5. CASE OwnerProceeds \/ ShutDownTimeout
  BY <1>5 DEF OwnerProceeds, ShutDownTimeout, OwnerNotifiesAll, AllWoken, ShutDownWaits,
     ShutDownSleeps, ShutDownComplete, ShutDownTimesOut, MarkStopped, Join, OwnerStep
<1>6. CASE SpuriousWakeup
  BY <1>6 DEF SpuriousWakeup, Step, OwnerStep
<1> QED BY <1>1, <1>2, <1>3, <1>4, <1>5, <1>6 DEF Next

-----------------------------------------------------------------------------
(* Who holds a task.                                                       *)

\* A worker has a task in hand exactly between the pop and the end of the body.
LEMMA HandsInductive == Shape /\ Hands /\ [Next]_vars => Hands'
<1> SUFFICES ASSUME Shape, Hands, [Next]_vars PROVE Hands'
  OBVIOUS
<1> USE DEF Shape, Hands, status, tasks, threads
<1>1. CASE UNCHANGED vars
  BY <1>1 DEF vars
<1>2. ASSUME NEW t \in Task, Enqueue(t) PROVE Hands'
  <2>1. CASE EnqueueRefused(t) \/ EnqueueWaits(t)
    BY <2>1 DEF EnqueueRefused, EnqueueWaits
  <2>2. CASE EnqueuePushes(t)
    BY <2>2 DEF EnqueuePushes, Push, UpdateThreadNums
  <2>3. CASE EnqueueNotifies(t)
    BY <2>3 DEF EnqueueNotifies, NotifyGetTask
  <2> QED BY <1>2, <2>1, <2>2, <2>3 DEF Enqueue
<1>3. ASSUME NEW w \in Worker, WorkerThread(w) \/ Timeout(w) PROVE Hands'
  <2>1. CASE \/ FindNothing(w) \/ Sleep(w) \/ FindTask(w) \/ StayOn(w)
             \/ GoAround(w) \/ Choose(w) \/ Timeout(w)
    BY <2>1 DEF FindNothing, Sleep, FindTask, StayOn, GoAround, Choose, Timeout, Step
  <2>2. CASE IdleExit(w) \/ StopExit(w)
    BY <2>2 DEF IdleExit, StopExit, Exit
  <2>3. CASE Take(w)
    BY <2>3, TaskAssumption DEF Take, MostUrgent
  <2>4. CASE Start(w) \/ Leave(w)
    BY <2>4 DEF Start, Leave
  <2>5. CASE Finish(w)
    BY <2>5 DEF Finish
  <2>6. CASE Signal(w)
    BY <2>6 DEF Signal, AllWoken
  <2> QED BY <1>3, <2>1, <2>2, <2>3, <2>4, <2>5, <2>6 DEF WorkerThread
<1>4. CASE OwnerDecides
  BY <1>4 DEF OwnerDecides, Pause, Resume, SwitchStatus, AllWoken, ShutDown, Stop_now,
     Destroy, OwnerStep
<1>5. CASE OwnerProceeds \/ ShutDownTimeout
  BY <1>5 DEF OwnerProceeds, ShutDownTimeout, OwnerNotifiesAll, AllWoken, ShutDownWaits,
     ShutDownSleeps, ShutDownComplete, ShutDownTimesOut, Join, OwnerStep
<1>6. CASE SpuriousWakeup
  BY <1>6 DEF SpuriousWakeup, Step, OwnerStep
<1> QED BY <1>1, <1>2, <1>3, <1>4, <1>5, <1>6 DEF Next

-----------------------------------------------------------------------------
(* What the counters count.                                                *)

\* The sets the counters count are finite, and no larger than Worker.
LEMMA CountedSetsFinite ==
  /\ IsFiniteSet(Live) /\ Cardinality(Live) \in Nat
  /\ IsFiniteSet(Active) /\ Cardinality(Active) \in 0..Cardinality(Worker)
<1>1. Live \in SUBSET Worker /\ Active \in SUBSET Worker
  BY DEF Live, Active
<1>2. IsFiniteSet(Live) /\ IsFiniteSet(Active) /\ Cardinality(Active) <= Cardinality(Worker)
  BY <1>1, WorkerAssumption, FS_Subset
<1>3. /\ Cardinality(Live) \in Nat /\ Cardinality(Active) \in Nat
      /\ Cardinality(Worker) \in Nat
  BY <1>2, WorkerAssumption, FS_CardinalityType
<1> QED BY <1>2, <1>3

\* A step that leaves both counters and stop_ alone, or sets stop_, and moves no
\* worker in or out of the two sets, keeps them right.
LEMMA CountsKept ==
  Counts /\ UNCHANGED <<current_thread_nums, active_threads, Live, Active>> /\ (stop => stop')
  => Counts'
BY DEF Counts, ThreadsAccounted

\* Every step counts the worker that comes, goes, starts a task or ends one.
LEMMA CountsInductive == Shape /\ StopMarks /\ Counts /\ [Next]_vars => Counts'
<1> SUFFICES ASSUME Shape, StopMarks, Counts, [Next]_vars PROVE Counts'
  OBVIOUS
<1> USE DEF Shape, status, tasks, threads
<1> DEFINE Kept == /\ UNCHANGED <<current_thread_nums, active_threads, Live, Active>>
                   /\ stop => stop'
<1>0. Kept => Counts'
  BY CountsKept
<1> DEFINE Still == \A v \in Worker :
                      worker'[v] # worker[v] =>
                        /\ worker[v] \notin {"off", "running", "ran"}
                        /\ worker'[v] \notin {"off", "running", "ran"}
<1>s. Still => UNCHANGED <<Live, Active>>
  BY DEF Live, Active
<1>1. CASE UNCHANGED vars
  BY <1>0, <1>1 DEF vars, Live, Active
<1>2. ASSUME NEW t \in Task, Enqueue(t) PROVE Counts'
  <2>1. CASE EnqueueRefused(t) \/ EnqueueWaits(t)
    BY <1>0, <2>1 DEF EnqueueRefused, EnqueueWaits, Live, Active
  <2>2. CASE EnqueuePushes(t)
    <3>1. CASE UNCHANGED <<worker, current_thread_nums>>
      BY <1>0, <2>2, <3>1 DEF EnqueuePushes, Push, Live, Active
    <3>2. CASE ~UNCHANGED <<worker, current_thread_nums>>
      <4>1. PICK w \in Worker : worker[w] = "off" /\ worker' = [worker EXCEPT ![w] = "lock"]
        BY <2>2, <3>2 DEF EnqueuePushes, Push, UpdateThreadNums
      <4>2. /\ current_thread_nums' = current_thread_nums + 1
            /\ current_thread_nums < MaxThreads
            /\ UNCHANGED <<active_threads, stop>>
        BY <2>2, <3>2 DEF EnqueuePushes, Push, UpdateThreadNums
      <4>3. Live' = Live \cup {w} /\ w \notin Live /\ Active' = Active
        BY <4>1 DEF Live, Active
      <4>4. Cardinality(Live') = Cardinality(Live) + 1
        BY <4>3, CountedSetsFinite, FS_AddElement
      <4> QED BY <4>2, <4>3, <4>4, ConfigAssumption DEF Counts, ThreadsAccounted
    <3> QED BY <3>1, <3>2
  <2>3. CASE EnqueueNotifies(t)
    <3>1. Still
      BY <2>3 DEF EnqueueNotifies, NotifyGetTask
    <3> QED BY <1>0, <1>s, <2>3, <3>1 DEF EnqueueNotifies
  <2> QED BY <1>2, <2>1, <2>2, <2>3 DEF Enqueue
<1>3. ASSUME NEW w \in Worker, WorkerThread(w) \/ Timeout(w) PROVE Counts'
  <2>1. CASE \/ FindNothing(w) \/ Sleep(w) \/ FindTask(w) \/ StayOn(w)
             \/ GoAround(w) \/ Choose(w) \/ Timeout(w)
    <3>1. Still /\ UNCHANGED <<current_thread_nums, active_threads, stop>>
      BY <2>1 DEF FindNothing, Sleep, FindTask, StayOn, GoAround, Choose, Timeout, Step
    <3> QED BY <1>0, <1>s, <3>1
  <2>2. CASE IdleExit(w) \/ StopExit(w)
    <3>1. /\ worker[w] \in {"late", "check"}
          /\ worker' = [worker EXCEPT ![w] = "off"]
          /\ current_thread_nums' = current_thread_nums - 1
          /\ UNCHANGED <<active_threads, stop>>
          /\ stop \/ current_thread_nums > CoreThreads
      BY <2>2 DEF IdleExit, StopExit, Exit, Surplus, MustExit, StopMarks
    <3>2. Live' = Live \ {w} /\ w \in Live /\ Active' = Active
      BY <3>1 DEF Live, Active
    <3>3. Cardinality(Live') = Cardinality(Live) - 1
      BY <3>2, CountedSetsFinite, FS_RemoveElement
    <3> QED BY <3>1, <3>2, <3>3, ConfigAssumption DEF Counts, ThreadsAccounted
  <2>3. CASE Take(w)
    <3>1. Still /\ UNCHANGED <<current_thread_nums, active_threads, stop>>
      BY <2>3 DEF Take
    <3> QED BY <1>0, <1>s, <3>1
  <2>4. CASE Start(w)
    <3>1. Live' = Live /\ Active' = Active \cup {w} /\ w \notin Active
      BY <2>4 DEF Start, Live, Active
    <3>2. Cardinality(Active') = Cardinality(Active) + 1
      BY <3>1, CountedSetsFinite, FS_AddElement
    <3> QED BY <2>4, <3>1, <3>2 DEF Start, Counts, ThreadsAccounted
  <2>5. CASE Finish(w)
    <3>1. Live' = Live /\ Active' = Active
      BY <2>5 DEF Finish, Live, Active
    <3> QED BY <1>0, <2>5, <3>1 DEF Finish
  <2>6. CASE Leave(w)
    <3>1. Live' = Live /\ Active' = Active \ {w} /\ w \in Active
      BY <2>6 DEF Leave, Live, Active
    <3>2. Cardinality(Active') = Cardinality(Active) - 1
      BY <3>1, CountedSetsFinite, FS_RemoveElement
    <3> QED BY <2>6, <3>1, <3>2 DEF Leave, Counts, ThreadsAccounted
  <2>7. CASE Signal(w)
    <3>1. Still /\ UNCHANGED <<current_thread_nums, active_threads, stop>>
      BY <2>7 DEF Signal, AllWoken
    <3> QED BY <1>0, <1>s, <3>1
  <2> QED BY <1>3, <2>1, <2>2, <2>3, <2>4, <2>5, <2>6, <2>7 DEF WorkerThread
<1>4. CASE OwnerDecides
  <2>1. Still /\ UNCHANGED <<current_thread_nums, active_threads>> /\ (stop => stop')
    BY <1>4 DEF OwnerDecides, Pause, Resume, SwitchStatus, AllWoken, ShutDown, Stop_now,
       MarkStopped, Destroy, OwnerStep
  <2> QED BY <1>0, <1>s, <2>1
<1>5. CASE OwnerProceeds \/ ShutDownTimeout
  <2>1. Still /\ UNCHANGED <<current_thread_nums, active_threads>> /\ (stop => stop')
    BY <1>5 DEF OwnerProceeds, ShutDownTimeout, OwnerNotifiesAll, AllWoken, ShutDownWaits,
       ShutDownSleeps, ShutDownComplete, ShutDownTimesOut, MarkStopped, Join, OwnerStep
  <2> QED BY <1>0, <1>s, <2>1
<1>6. CASE SpuriousWakeup
  <2>1. Still /\ UNCHANGED <<current_thread_nums, active_threads, stop>>
    BY <1>6 DEF SpuriousWakeup, Step, OwnerStep
  <2> QED BY <1>0, <1>s, <2>1
<1> QED BY <1>1, <1>2, <1>3, <1>4, <1>5, <1>6 DEF Next

-----------------------------------------------------------------------------
(* What being stopped means.                                               *)

\* The two flags, the owner's place and the emptiness of the queue agree in
\* every state a step leads to.
LEMMA StopMarksInductive == Shape /\ StopMarks /\ [Next]_vars => StopMarks'
<1> SUFFICES ASSUME Shape, StopMarks, [Next]_vars PROVE StopMarks'
  OBVIOUS
<1> USE DEF Shape, StopMarks, OwnerPoint, ThreadStatus, status, tasks, threads
<1>1. CASE UNCHANGED vars
  BY <1>1 DEF vars, Live
<1>2. ASSUME NEW t \in Task, Enqueue(t) PROVE StopMarks'
  <2>1. CASE EnqueueRefused(t) \/ EnqueueWaits(t)
    BY <2>1 DEF EnqueueRefused, EnqueueWaits, Live
  <2>2. CASE EnqueuePushes(t)
    BY <2>2 DEF EnqueuePushes, Push
  <2>3. CASE EnqueueNotifies(t)
    BY <2>3 DEF EnqueueNotifies, NotifyGetTask, Live
  <2> QED BY <1>2, <2>1, <2>2, <2>3 DEF Enqueue
<1>3. ASSUME NEW w \in Worker, WorkerThread(w) \/ Timeout(w) PROVE StopMarks'
  <2>1. /\ UNCHANGED <<status, discarded>>
        /\ task_queue' \subseteq task_queue
        /\ owner' = owner \/ (owner = "sd_blocked" /\ owner' = "sd_lock")
    BY <1>3 DEF WorkerThread, FindNothing, Sleep, FindTask, StayOn, GoAround, Choose, Timeout, Step,
       IdleExit, StopExit, Exit, Take, Popped, Start, Finish, Leave, Signal
  <2>2. worker[w] # "off"
    BY <1>3 DEF WorkerThread, FindNothing, Sleep, FindTask, StayOn, GoAround, Choose, Timeout, Step,
       IdleExit, StopExit, Take, Start, Finish, Leave, Signal
  <2>3. owner \notin {"drained", "halted"}
    BY <2>2 DEF Live
  <2> QED BY <2>1, <2>3
<1>4. CASE OwnerDecides
  <2>1. CASE Pause \/ Resume
    BY <2>1 DEF Pause, Resume, SwitchStatus, Calls
  <2>2. CASE ShutDown \/ Stop_now \/ Destroy
    BY <2>2 DEF ShutDown, Stop_now, Destroy, MarkStopped, EmptyQueue, Calls, OwnerStep
  <2> QED BY <1>4, <2>1, <2>2 DEF OwnerDecides
<1>5. CASE OwnerProceeds \/ ShutDownTimeout
  BY <1>5 DEF OwnerProceeds, ShutDownTimeout, OwnerNotifiesAll, ShutDownWaits, Live,
     ShutDownSleeps, ShutDownComplete, ShutDownTimesOut, TasksComplete, MarkStopped, Join,
     OwnerStep
<1>6. CASE SpuriousWakeup
  BY <1>6 DEF SpuriousWakeup, Step, OwnerStep, Live
<1> QED BY <1>1, <1>2, <1>3, <1>4, <1>5, <1>6 DEF Next

-----------------------------------------------------------------------------
(* Where each accepted task is.                                            *)

\* The places a task can be in, and the tasks accepted, are a function of these.
LEMMA EachTaskKept ==
  EachTaskOnce /\ UNCHANGED <<task_queue, completed, discarded, hand, Accepted>>
  => EachTaskOnce'
BY DEF EachTaskOnce, Held

\* Every step that moves a task puts it where it was not, and takes it from
\* where it was.
LEMMA EachTaskInductive ==
  Shape /\ Hands /\ EachTaskOnce /\ [Next]_vars => EachTaskOnce'
<1> SUFFICES ASSUME Shape, Hands, EachTaskOnce, [Next]_vars PROVE EachTaskOnce'
  OBVIOUS
<1> USE DEF Shape, status, tasks, threads
<1>1. CASE UNCHANGED vars
  BY <1>1, EachTaskKept DEF vars, Accepted
<1>2. ASSUME NEW t \in Task, Enqueue(t) PROVE EachTaskOnce'
  <2>1. CASE EnqueueRefused(t) \/ EnqueueWaits(t)
    BY <2>1, EachTaskKept DEF EnqueueRefused, EnqueueWaits, InEnqueue, Accepted
  <2>2. CASE EnqueuePushes(t)
    <3>1. /\ task_queue' = task_queue \cup {t}
          /\ UNCHANGED <<completed, discarded, hand>>
          /\ Accepted' = Accepted \cup {t} /\ t \notin Accepted
      BY <2>2 DEF EnqueuePushes, Push, InEnqueue, Accepted
    <3> QED BY <3>1 DEF EachTaskOnce, Held
  <2>3. CASE EnqueueNotifies(t)
    BY <2>3, EachTaskKept DEF EnqueueNotifies, Accepted
  <2> QED BY <1>2, <2>1, <2>2, <2>3 DEF Enqueue
<1>3. ASSUME NEW w \in Worker, WorkerThread(w) \/ Timeout(w) PROVE EachTaskOnce'
  <2>1. CASE \/ FindNothing(w) \/ Sleep(w) \/ FindTask(w) \/ StayOn(w)
             \/ GoAround(w) \/ Choose(w) \/ Timeout(w)
    BY <2>1, EachTaskKept DEF FindNothing, Sleep, FindTask, StayOn, GoAround, Choose, Timeout,
       Step, Accepted
  <2>2. CASE IdleExit(w) \/ StopExit(w) \/ Start(w) \/ Leave(w) \/ Signal(w)
    BY <2>2, EachTaskKept DEF IdleExit, StopExit, Exit, Start, Leave, Signal, Accepted
  <2>3. CASE Take(w)
    <3>1. PICK t \in task_queue : /\ task_queue' = task_queue \ {t}
                                  /\ hand' = [hand EXCEPT ![w] = t]
      BY <2>3 DEF Take, Popped, MostUrgent
    <3>2. hand[w] = NoTask /\ t # NoTask
      BY <2>3, TaskAssumption DEF Take, Hands
    <3>3. Held' = Held \cup {t}
      BY <3>1, <3>2 DEF Held
    <3>4. UNCHANGED <<completed, discarded, Accepted>>
      BY <2>3 DEF Take, NotifyNotFull, Accepted
    <3>5. \A v \in Worker : hand[v] # t
      BY <3>2 DEF EachTaskOnce, Held
    <3>6. \A u, v \in Worker : hand'[u] = hand'[v] => u = v \/ hand'[u] = NoTask
      BY <3>1, <3>5 DEF EachTaskOnce
    <3> QED BY <3>1, <3>3, <3>4, <3>6 DEF EachTaskOnce
  <2>4. CASE Finish(w)
    <3>1. hand[w] \in Task /\ hand[w] \in Held
      BY <2>4, TaskAssumption DEF Finish, Hands, Held
    <3>2. Held' = Held \ {hand[w]}
      BY <2>4, <3>1, TaskAssumption DEF Finish, Held, EachTaskOnce
    <3>3. /\ UNCHANGED <<task_queue, discarded, Accepted>>
          /\ completed' = completed \cup {hand[w]}
      BY <2>4 DEF Finish, Accepted
    <3>4. \A u, v \in Worker : hand'[u] = hand'[v] => u = v \/ hand'[u] = NoTask
      BY <2>4 DEF Finish, EachTaskOnce
    <3> QED BY <3>1, <3>2, <3>3, <3>4 DEF EachTaskOnce
  <2> QED BY <1>3, <2>1, <2>2, <2>3, <2>4 DEF WorkerThread
<1>4. CASE OwnerDecides
  <2>1. CASE Pause \/ Resume \/ ShutDown \/ Destroy
    BY <2>1, EachTaskKept DEF Pause, Resume, SwitchStatus, ShutDown, Destroy, OwnerStep, Accepted
  <2>2. CASE Stop_now
    BY <2>2 DEF Stop_now, EmptyQueue, EachTaskOnce, Held, Accepted
  <2> QED BY <1>4, <2>1, <2>2 DEF OwnerDecides
<1>5. CASE OwnerProceeds \/ ShutDownTimeout
  BY <1>5, EachTaskKept DEF OwnerProceeds, ShutDownTimeout, OwnerNotifiesAll, ShutDownWaits,
     ShutDownSleeps, ShutDownComplete, ShutDownTimesOut, Join, OwnerStep, Accepted
<1>6. CASE SpuriousWakeup
  BY <1>6, EachTaskKept DEF SpuriousWakeup, Step, OwnerStep, Accepted
<1> QED BY <1>1, <1>2, <1>3, <1>4, <1>5, <1>6 DEF Next

-----------------------------------------------------------------------------
(* The bound of the queue.                                                 *)

\* The queue grows by one at most, and only when it has room.
LEMMA QueueInductive == Shape /\ QueueBounded /\ [Next]_vars => QueueBounded'
<1> SUFFICES ASSUME Shape, QueueBounded, [Next]_vars PROVE QueueBounded'
  OBVIOUS
<1>1. IsFiniteSet(task_queue) /\ Cardinality(task_queue) \in Nat
  BY TaskAssumption, FS_Subset, FS_CardinalityType DEF Shape
<1>2. ASSUME NEW t \in Task, EnqueuePushes(t) PROVE QueueBounded'
  <2>1. task_queue' = task_queue \cup {t} /\ HasRoom
    BY <1>2 DEF EnqueuePushes, Push
  <2>2. Cardinality(task_queue') <= Cardinality(task_queue) + 1
    BY <1>1, <2>1, FS_AddElement
  <2>3. Cardinality(task_queue') \in Nat
    BY <1>1, <2>1, FS_AddElement, FS_CardinalityType
  <2> QED BY <1>1, <2>1, <2>2, <2>3, ConfigAssumption DEF HasRoom, QueueBounded
<1>3. ASSUME task_queue' \subseteq task_queue PROVE QueueBounded'
  <2>1. /\ Cardinality(task_queue') <= Cardinality(task_queue)
        /\ Cardinality(task_queue') \in Nat
    BY <1>1, <1>3, FS_Subset, FS_CardinalityType
  <2> QED BY <1>1, <2>1, ConfigAssumption DEF QueueBounded
<1>4. (\E t \in Task : EnqueuePushes(t)) \/ task_queue' \subseteq task_queue
  <2> USE DEF status, tasks, threads
  <2>1. CASE UNCHANGED vars
    BY <2>1 DEF vars
  <2>2. ASSUME NEW t \in Task, Enqueue(t), ~EnqueuePushes(t)
        PROVE  task_queue' \subseteq task_queue
    BY <2>2 DEF Enqueue, EnqueueRefused, EnqueueWaits, EnqueueNotifies
  <2>3. ASSUME NEW w \in Worker, WorkerThread(w) \/ Timeout(w)
        PROVE  task_queue' \subseteq task_queue
    BY <2>3 DEF WorkerThread, FindNothing, Sleep, FindTask, StayOn, GoAround, Choose, Timeout, Step,
       IdleExit, StopExit, Exit, Take, Popped, Start, Finish, Leave, Signal
  <2>4. CASE OwnerDecides
    BY <2>4 DEF OwnerDecides, Pause, Resume, SwitchStatus, ShutDown, Stop_now, EmptyQueue,
       Destroy, OwnerStep
  <2>5. CASE OwnerProceeds \/ ShutDownTimeout \/ SpuriousWakeup
    BY <2>5 DEF OwnerProceeds, ShutDownTimeout, OwnerNotifiesAll, ShutDownWaits,
       ShutDownSleeps, ShutDownComplete, ShutDownTimesOut, Join, OwnerStep, SpuriousWakeup, Step
  <2> QED BY <2>1, <2>2, <2>3, <2>4, <2>5 DEF Next
<1> QED BY <1>2, <1>3, <1>4

-----------------------------------------------------------------------------
(* The theorems.                                                           *)

\* The constructor leaves the pool with core_threads workers and nothing queued.
LEMMA InitIInv == Init => IInv
<1> SUFFICES ASSUME Init PROVE IInv
  OBVIOUS
<1> USE DEF Init
<1>1. PICK started \in SUBSET Worker :
        /\ Cardinality(started) = CoreThreads
        /\ worker = [w \in Worker |-> IF w \in started THEN "lock" ELSE "off"]
  OBVIOUS
<1>2. Shape
  BY <1>1 DEF Shape, ThreadStatus, WorkerPoint, CallerPoint, OwnerPoint
<1>3. Hands
  BY <1>1 DEF Hands
<1>4. Counts
  <2>1. Live = started /\ Active = {}
    BY <1>1 DEF Live, Active
  <2> QED BY <1>1, <2>1, ConfigAssumption, FS_EmptySet DEF Counts, ThreadsAccounted
<1>5. StopMarks
  BY DEF StopMarks
<1>6. EachTaskOnce
  BY DEF EachTaskOnce, Accepted, Held
<1>7. QueueBounded
  BY ConfigAssumption, FS_EmptySet DEF QueueBounded
<1> QED BY <1>2, <1>3, <1>4, <1>5, <1>6, <1>7 DEF IInv

\* The invariant holds in every state the pool can reach.
THEOREM Invariance == Spec => []IInv
<1>1. IInv /\ [Next]_vars => IInv'
  BY ShapeInductive, HandsInductive, CountsInductive, StopMarksInductive,
     EachTaskInductive, QueueInductive DEF IInv
<1> QED BY InitIInv, <1>1, PTL DEF Spec

\* Every variable keeps to its type: the counters, which are unsigned in the
\* code, never go below zero, and no more threads are active than there are.
THEOREM TypeCorrect == Spec => []TypeOK
<1>1. IInv => TypeOK
  BY CountedSetsFinite DEF IInv, Shape, Counts, ThreadsAccounted, TypeOK
<1> QED BY Invariance, <1>1, PTL

\* The number the pool sizes itself by is the number of its threads, between
\* core_threads and max_threads until it is stopped.
THEOREM Accounting == Spec => []ThreadsAccounted
<1>1. IInv => ThreadsAccounted
  BY DEF IInv, Counts
<1> QED BY Invariance, <1>1, PTL

\* No accepted task is lost, and none is run twice.
THEOREM TasksConserved == Spec => []EachTaskOnce
<1>1. IInv => EachTaskOnce
  BY DEF IInv
<1> QED BY Invariance, <1>1, PTL

\* The queue never outgrows queue_size.
THEOREM QueueLimit == Spec => []QueueBounded
<1>1. IInv => QueueBounded
  BY DEF IInv
<1> QED BY Invariance, <1>1, PTL

\* Nothing is left running, queued or held when a stopping call has returned,
\* and a ShutDown that returns true has run every task the pool had accepted.
THEOREM CleanShutDown == Spec => []CleanStop
<1>1. IInv => QuietAfterStop
  <2> SUFFICES ASSUME IInv, owner \in {"drained", "halted"}
               PROVE  Live = {} /\ task_queue = {} /\ Held = {} /\ active_threads = 0
    BY DEF QuietAfterStop
  <2>1. Live = {} /\ task_queue = {}
    BY DEF IInv, StopMarks
  <2>2. Held = {}
    BY <2>1 DEF IInv, Hands, Live, Held
  <2>3. Active = {}
    BY <2>1 DEF Live, Active
  <2> QED BY <2>1, <2>2, <2>3, FS_EmptySet DEF IInv, Counts
<1>2. IInv => DrainedMeansDone
  <2> SUFFICES ASSUME IInv, owner = "drained"
               PROVE  Accepted = completed /\ discarded = {}
    BY DEF DrainedMeansDone
  <2>1. Live = {} /\ task_queue = {} /\ discarded = {}
    BY DEF IInv, StopMarks
  <2>2. Held = {}
    BY <2>1 DEF IInv, Hands, Live, Held
  <2> QED BY <2>1, <2>2 DEF IInv, EachTaskOnce
<1>3. IInv => CleanStop
  BY <1>1, <1>2 DEF CleanStop
<1> QED BY Invariance, <1>3, PTL

\* The threads the owner joins are all there will ever be.
THEOREM NoGrowth == Spec => NoGrowthAfterStop
<1>1. IInv /\ [Next]_vars => [stop => Live' \subseteq Live]_vars
  <2> SUFFICES ASSUME IInv, [Next]_vars, stop PROVE Live' \subseteq Live
    OBVIOUS
  <2> USE DEF IInv, Shape, status, tasks, threads
  <2>1. CASE UNCHANGED vars
    BY <2>1 DEF vars, Live
  <2>2. ASSUME NEW t \in Task, Enqueue(t) PROVE Live' \subseteq Live
    BY <2>2 DEF Enqueue, EnqueueRefused, EnqueueWaits, EnqueuePushes, EnqueueNotifies,
       NotifyGetTask, Live
  <2>3. ASSUME NEW w \in Worker, WorkerThread(w) \/ Timeout(w) PROVE Live' \subseteq Live
    BY <2>3 DEF WorkerThread, FindNothing, Sleep, FindTask, StayOn, GoAround, Choose, Timeout, Step,
       IdleExit, StopExit, Exit, Take, Start, Finish, Leave, Signal, AllWoken, Live
  <2>4. CASE OwnerDecides
    BY <2>4 DEF OwnerDecides, Pause, Resume, SwitchStatus, AllWoken, ShutDown, Stop_now,
       Destroy, OwnerStep, Live
  <2>5. CASE OwnerProceeds \/ ShutDownTimeout \/ SpuriousWakeup
    BY <2>5 DEF OwnerProceeds, ShutDownTimeout, OwnerNotifiesAll, AllWoken, ShutDownWaits,
       ShutDownSleeps, ShutDownComplete, ShutDownTimesOut, Join, OwnerStep, SpuriousWakeup,
       Step, Live
  <2> QED BY <2>1, <2>2, <2>3, <2>4, <2>5 DEF Next
<1> QED BY Invariance, <1>1, PTL DEF Spec, NoGrowthAfterStop

-----------------------------------------------------------------------------
(* Callers that wait for room.                                             *)

Woken == {t \in Task : caller[t] = "woken"}
Waiting == \E t \in Task : caller[t] = "blocked"

\* Whatever is a set of tasks can be counted.
LEMMA TasksCounted ==
  \A S \in SUBSET Task : IsFiniteSet(S) /\ Cardinality(S) \in Nat
BY TaskAssumption, FS_Subset, FS_CardinalityType

\* A caller that has not pushed its task has none in the queue.
LEMMA NotQueuedYet ==
  ASSUME Shape, EachTaskOnce, NEW t \in Task, caller[t] \in {"new", "woken"}
  PROVE  t \notin task_queue
BY DEF EachTaskOnce, Accepted

\* Every step that makes room for a caller that waits wakes one, and no step takes
\* more room than the woken caller that goes.
LEMMA StrandedInductive ==
  Shape /\ EachTaskOnce /\ Shape' /\ NoStrandedCaller /\ [Next]_vars => NoStrandedCaller'
<1> SUFFICES ASSUME Shape, EachTaskOnce, Shape', NoStrandedCaller, [Next]_vars,
                    ~stop', QueueSize > 0, Waiting'
             PROVE  QueueSize - Cardinality(task_queue') <= Cardinality(Woken')
  BY DEF NoStrandedCaller, Woken, Waiting
<1>0. /\ IsFiniteSet(task_queue) /\ Cardinality(task_queue) \in Nat
      /\ IsFiniteSet(task_queue') /\ Cardinality(task_queue') \in Nat
      /\ IsFiniteSet(Woken) /\ Cardinality(Woken) \in Nat
      /\ IsFiniteSet(Woken') /\ Cardinality(Woken') \in Nat
      /\ QueueSize \in Nat
  BY TasksCounted, ConfigAssumption DEF Shape, Woken
<1>1. ~stop /\ Waiting => QueueSize - Cardinality(task_queue) <= Cardinality(Woken)
  BY DEF NoStrandedCaller, Woken, Waiting
<1>2. ASSUME ~stop, Waiting, Woken' = Woken, task_queue' = task_queue
      PROVE  QueueSize - Cardinality(task_queue') <= Cardinality(Woken')
  BY <1>1, <1>2
<1> USE DEF Shape, CallerPoint, status, tasks, threads
<1>3. CASE UNCHANGED vars
  BY <1>2, <1>3 DEF vars, Waiting, Woken
<1>4. ASSUME NEW t \in Task, Enqueue(t)
      PROVE  QueueSize - Cardinality(task_queue') <= Cardinality(Woken')
  <2>1. CASE EnqueueRefused(t)
    BY <2>1 DEF EnqueueRefused
  <2>2. CASE EnqueueWaits(t)
    <3>1. ~HasRoom /\ task_queue' = task_queue
      BY <2>2 DEF EnqueueWaits
    <3> QED BY <1>0, <3>1 DEF HasRoom
  <2>3. CASE EnqueuePushes(t)
    <3>1. /\ caller[t] \in {"new", "woken"} /\ caller' = [caller EXCEPT ![t] = "notify"]
          /\ task_queue' = task_queue \cup {t} /\ stop' = stop
      BY <2>3 DEF EnqueuePushes, InEnqueue, Push
    <3>2. t \notin task_queue
      BY <3>1, NotQueuedYet
    <3>3. Cardinality(task_queue') = Cardinality(task_queue) + 1
      BY <1>0, <3>1, <3>2, FS_AddElement
    <3>4. Waiting
      BY <3>1 DEF Waiting
    <3>5. CASE caller[t] = "new"
      <4>1. Woken' = Woken
        BY <3>1, <3>5 DEF Woken
      <4> QED BY <1>0, <1>1, <3>1, <3>3, <3>4, <4>1
    <3>6. CASE caller[t] = "woken"
      <4>1. Woken' = Woken \ {t} /\ t \in Woken
        BY <3>1, <3>6 DEF Woken
      <4>2. Cardinality(Woken') = Cardinality(Woken) - 1
        BY <1>0, <4>1, FS_RemoveElement
      <4> QED BY <1>0, <1>1, <3>1, <3>3, <3>4, <4>2
    <3> QED BY <3>1, <3>5, <3>6
  <2>4. CASE EnqueueNotifies(t)
    BY <1>2, <2>4 DEF EnqueueNotifies, Waiting, Woken
  <2> QED BY <1>4, <2>1, <2>2, <2>3, <2>4 DEF Enqueue
<1>5. ASSUME NEW w \in Worker, WorkerThread(w) \/ Timeout(w)
      PROVE  QueueSize - Cardinality(task_queue') <= Cardinality(Woken')
  <2>1. CASE ~Take(w)
    <3>1. UNCHANGED <<stop, task_queue, caller>>
      BY <1>5, <2>1 DEF WorkerThread, FindNothing, Sleep, FindTask, StayOn, GoAround, Choose,
         Timeout, Step, IdleExit, StopExit, Exit, Start, Finish, Leave, Signal
    <3> QED BY <1>2, <3>1 DEF Waiting, Woken
  <2>2. CASE Take(w)
    <3>1. PICK t \in task_queue : task_queue' = task_queue \ {t}
      BY <2>2 DEF Take, Popped, MostUrgent
    <3>2. Cardinality(task_queue') = Cardinality(task_queue) - 1
      BY <1>0, <3>1, FS_RemoveElement
    <3>3. CASE ~RoomMade(task_queue')
      BY <1>0, <3>3 DEF RoomMade
    <3>4. CASE RoomMade(task_queue')
      <4>1. NotifyNotFull /\ stop' = stop
        BY <2>2, <3>4 DEF Take
      <4>2. PICK u \in Task : caller[u] = "blocked" /\ caller' = [caller EXCEPT ![u] = "woken"]
        BY <4>1 DEF NotifyNotFull, Waiting
      <4>3. Woken' = Woken \cup {u} /\ u \notin Woken /\ Waiting
        BY <4>2 DEF Woken, Waiting
      <4>4. Cardinality(Woken') = Cardinality(Woken) + 1
        BY <1>0, <4>3, FS_AddElement
      <4> QED BY <1>0, <1>1, <3>2, <4>1, <4>3, <4>4
    <3> QED BY <3>3, <3>4
  <2> QED BY <2>1, <2>2
<1>6. CASE OwnerDecides \/ OwnerProceeds \/ ShutDownTimeout
  <2>1. UNCHANGED <<stop, task_queue, caller>> \/ stop'
    BY <1>6 DEF OwnerDecides, Pause, Resume, SwitchStatus, ShutDown, Stop_now, Destroy,
       OwnerProceeds, ShutDownTimeout, OwnerNotifiesAll, ShutDownWaits, ShutDownSleeps,
       ShutDownComplete, ShutDownTimesOut, MarkStopped, Join, OwnerStep
  <2> QED BY <1>2, <2>1 DEF Waiting, Woken
<1>7. CASE SpuriousWakeup
  <2>1. CASE UNCHANGED caller
    BY <1>2, <1>7, <2>1 DEF SpuriousWakeup, Step, OwnerStep, Waiting, Woken
  <2>2. CASE ~UNCHANGED caller
    <3>1. PICK t \in Task : /\ caller[t] = "blocked" /\ caller' = [caller EXCEPT ![t] = "woken"]
                            /\ UNCHANGED <<stop, task_queue>>
      BY <1>7, <2>2 DEF SpuriousWakeup, Step, OwnerStep
    <3>2. Woken' = Woken \cup {t} /\ t \notin Woken /\ Waiting
      BY <3>1 DEF Woken, Waiting
    <3>3. Cardinality(Woken') = Cardinality(Woken) + 1
      BY <1>0, <3>2, FS_AddElement
    <3> QED BY <1>0, <1>1, <3>1, <3>2, <3>3
  <2> QED BY <2>1, <2>2
<1> QED BY <1>3, <1>4, <1>5, <1>6, <1>7 DEF Next

\* One notification per pop is enough, although callers that were not woken push
\* in before the ones that were: nobody sleeps while there is room to spare.
THEOREM NobodyStranded == Spec => []NoStrandedCaller
<1>1. Init => NoStrandedCaller
  BY DEF Init, NoStrandedCaller
<1>2. IInv /\ IInv' /\ NoStrandedCaller /\ [Next]_vars => NoStrandedCaller'
  BY StrandedInductive DEF IInv
<1> QED BY Invariance, <1>1, <1>2, PTL DEF Spec

-----------------------------------------------------------------------------
(* What Pause holds back.                                                  *)

\* Where a worker holds queue_mutex_ from one step to the next.
Holding == {"park", "check", "pick"}

\* queue_mutex_ has one holder at most.
OneHolder ==
  /\ \A v, w \in Worker : worker[v] \in Holding /\ worker[w] \in Holding => v = w
  /\ owner \in {"sd_park", "self_deadlock"} => \A w \in Worker : worker[w] \notin Holding

\* A step after which every holder was one before leaves one holder at most.
LEMMA HoldersKept ==
  ASSUME OneHolder,
         \A w \in Worker : worker'[w] \in Holding => worker[w] \in Holding,
         owner' \in {"sd_park", "self_deadlock"} => owner \in {"sd_park", "self_deadlock"}
  PROVE  OneHolder'
BY DEF OneHolder

\* A worker, or the owner, gets the mutex when nobody holds it, and gives it back
\* before it sleeps.
LEMMA OneHolderInductive == Shape /\ OneHolder /\ [Next]_vars => OneHolder'
<1> SUFFICES ASSUME Shape, OneHolder, [Next]_vars PROVE OneHolder'
  OBVIOUS
<1> USE DEF Shape, Holding, status, tasks, threads
<1>1. CASE UNCHANGED vars
  BY <1>1 DEF vars, OneHolder
<1>2. ASSUME NEW t \in Task, Enqueue(t) PROVE OneHolder'
  <2>1. /\ \A w \in Worker : worker'[w] \in Holding => worker[w] \in Holding
        /\ owner' = owner \/ owner' = "sd_lock"
    BY <1>2 DEF Enqueue, EnqueueRefused, EnqueueWaits, EnqueuePushes, EnqueueNotifies, Push,
       UpdateThreadNums, NotifyGetTask
  <2> QED BY <2>1, HoldersKept
<1>3. ASSUME NEW w \in Worker, WorkerThread(w) \/ Timeout(w) PROVE OneHolder'
  <2>1. CASE FindNothing(w) \/ FindTask(w) \/ StayOn(w)
    <3>1. /\ MutexFree /\ owner' = owner
          /\ \A v \in Worker : v # w => worker'[v] = worker[v]
      BY <2>1 DEF FindNothing, FindTask, StayOn, Step
    <3> QED BY <3>1 DEF MutexFree, OneHolder
  <2>2. CASE Sleep(w) \/ GoAround(w) \/ Choose(w) \/ Timeout(w)
    <3>1. /\ \A v \in Worker : worker'[v] \in Holding => worker[v] \in Holding
          /\ owner' = owner
      BY <2>2 DEF Sleep, GoAround, Choose, Timeout, Step
    <3> QED BY <3>1, HoldersKept
  <2>3. CASE IdleExit(w) \/ StopExit(w) \/ Take(w) \/ Start(w) \/ Finish(w) \/ Leave(w)
    <3>1. /\ \A v \in Worker : worker'[v] \in Holding => worker[v] \in Holding
          /\ owner' = owner
      BY <2>3 DEF IdleExit, StopExit, Exit, Take, Start, Finish, Leave
    <3> QED BY <3>1, HoldersKept
  <2>4. CASE Signal(w)
    <3>1. /\ \A v \in Worker : worker'[v] \in Holding => worker[v] \in Holding
          /\ owner' = owner \/ owner' = "sd_lock"
      BY <2>4 DEF Signal, AllWoken
    <3> QED BY <3>1, HoldersKept
  <2> QED BY <1>3, <2>1, <2>2, <2>3, <2>4 DEF WorkerThread
<1>4. CASE OwnerDecides
  <2>1. /\ \A w \in Worker : worker'[w] \in Holding => worker[w] \in Holding
        /\ owner' \notin {"sd_park", "self_deadlock"}
    BY <1>4 DEF OwnerDecides, Pause, Resume, SwitchStatus, Calls, AllWoken, ShutDown, Stop_now,
       Destroy, OwnerStep
  <2> QED BY <2>1, HoldersKept
<1>5. CASE OwnerProceeds \/ ShutDownTimeout
  <2>1. CASE ShutDownWaits \/ ShutDownTimesOut
    BY <2>1 DEF ShutDownWaits, ShutDownTimesOut, OwnerStep, MutexFree, OneHolder
  <2>2. CASE ~ShutDownWaits /\ ~ShutDownTimesOut
    <3>1. /\ \A w \in Worker : worker'[w] \in Holding => worker[w] \in Holding
          /\ owner' \notin {"sd_park", "self_deadlock"}
      BY <1>5, <2>2 DEF OwnerProceeds, ShutDownTimeout, OwnerNotifiesAll, AllWoken,
         ShutDownSleeps, ShutDownComplete, Join, OwnerStep
    <3> QED BY <3>1, HoldersKept
  <2> QED BY <2>1, <2>2
<1>6. CASE SpuriousWakeup
  <2>1. /\ \A w \in Worker : worker'[w] \in Holding => worker[w] \in Holding
        /\ owner' = owner \/ owner' = "sd_lock"
    BY <1>6 DEF SpuriousWakeup, Step, OwnerStep
  <2> QED BY <2>1, HoldersKept
<1> QED BY <1>1, <1>2, <1>3, <1>4, <1>5, <1>6 DEF Next

\* queue_mutex_ is never held twice.
THEOREM MutexHeldOnce == Spec => []OneHolder
<1>1. Init => OneHolder
  BY DEF Init, OneHolder, Holding
<1>2. IInv /\ OneHolder /\ [Next]_vars => OneHolder'
  BY OneHolderInductive DEF IInv
<1> QED BY Invariance, <1>1, <1>2, PTL DEF Spec

\* Pause comes into force but for one task: the one whose taker had looked before
\* it, and there is one such worker at most, since it holds the mutex.
THEOREM PauseKeeps == Spec => PauseHolds
<1> DEFINE Grows == task_queue \subseteq task_queue' /\ Picking' \subseteq Picking
           LastOne == /\ \E t \in task_queue : task_queue' = task_queue \ {t}
                      /\ Picking # {} /\ Picking' = {}
<1>1. IInv /\ OneHolder /\ [Next]_vars
      => [state = "KPuase" /\ state' = "KPuase" => Grows \/ LastOne]_vars
  <2> SUFFICES ASSUME IInv, OneHolder, [Next]_vars, state = "KPuase", state' = "KPuase"
               PROVE  Grows \/ LastOne
    OBVIOUS
  <2> USE DEF IInv, Shape, status, tasks, threads
  <2>1. CASE UNCHANGED vars
    BY <2>1 DEF vars, Picking
  <2>2. ASSUME NEW t \in Task, Enqueue(t) PROVE Grows
    BY <2>2 DEF Enqueue, EnqueueRefused, EnqueueWaits, EnqueuePushes, EnqueueNotifies, Push,
       UpdateThreadNums, NotifyGetTask, Picking
  <2>3. ASSUME NEW w \in Worker, WorkerThread(w) \/ Timeout(w) PROVE Grows \/ LastOne
    <3>1. CASE Take(w)
      <4>1. \E t \in task_queue : task_queue' = task_queue \ {t}
        BY <3>1 DEF Take, Popped, MostUrgent
      <4>2. worker[w] = "pick" /\ worker' = [worker EXCEPT ![w] = "popped"]
        BY <3>1 DEF Take
      <4>3. Picking = {w}
        BY <4>2 DEF Picking, OneHolder, Holding
      <4>4. Picking' = {}
        BY <4>2, <4>3 DEF Picking
      <4> QED BY <4>1, <4>3, <4>4
    <3>2. CASE ~Take(w)
      <4>1. task_queue' = task_queue
        BY <2>3, <3>2 DEF WorkerThread, FindNothing, Sleep, FindTask, StayOn, GoAround, Choose,
           Timeout, Step, IdleExit, StopExit, Exit, Start, Finish, Leave, Signal
      <4>2. \A v \in Worker : worker'[v] = "pick" => worker[v] = "pick"
        BY <2>3, <3>2 DEF WorkerThread, FindNothing, Sleep, FindTask, StayOn, GoAround, Choose,
           Timeout, Step, IdleExit, StopExit, Exit, Start, Finish, Leave, Signal, AllWoken
      <4> QED BY <4>1, <4>2 DEF Picking
    <3> QED BY <3>1, <3>2
  <2>4. CASE OwnerDecides \/ OwnerProceeds \/ ShutDownTimeout \/ SpuriousWakeup
    <3>1. task_queue' = task_queue
      BY <2>4 DEF OwnerDecides, Pause, Resume, SwitchStatus, ShutDown, Stop_now, Destroy,
         OwnerProceeds, ShutDownTimeout, OwnerNotifiesAll, ShutDownWaits, ShutDownSleeps,
         ShutDownComplete, ShutDownTimesOut, MarkStopped, Join, OwnerStep, SpuriousWakeup, Step
    <3>2. \A v \in Worker : worker'[v] = "pick" => worker[v] = "pick"
      BY <2>4 DEF OwnerDecides, Pause, Resume, SwitchStatus, ShutDown, Stop_now, Destroy, AllWoken,
         OwnerProceeds, ShutDownTimeout, OwnerNotifiesAll, ShutDownWaits, ShutDownSleeps,
         ShutDownComplete, ShutDownTimesOut, MarkStopped, Join, OwnerStep, SpuriousWakeup, Step
    <3> QED BY <3>1, <3>2 DEF Picking
  <2> QED BY <2>1, <2>2, <2>3, <2>4 DEF Next
<1> QED BY <1>1, Invariance, MutexHeldOnce, PTL DEF Spec, PauseHolds

-----------------------------------------------------------------------------
(* ThreadPool implements TaskPool: every step of the pool is, seen through *)
(* Stage and PoolStage, a step of TaskPool or no step at all.              *)

\* What has become of each task, and the calls that were turned away.
Stages == [t \in Task |-> Stage(t)]
Refused == {t \in Task : caller[t] = "refused"}

\* The stage of a task depends on these and nothing else.
LEMMA StagesKept ==
  UNCHANGED <<task_queue, completed, discarded, hand, Refused>> => UNCHANGED Stages
BY DEF Stages, Stage, Held, Refused

LEMMA PoolStageKept == UNCHANGED <<stop, owner>> => UNCHANGED PoolStage
BY DEF PoolStage

\* A task whose call has not been decided is new, and the other way round the
\* four places a task can be in are told apart.
LEMMA StageOf ==
  ASSUME IInv, NEW t \in Task
  PROVE  /\ caller[t] \in {"new", "woken", "blocked"} => Stages[t] = "new"
         /\ t \in task_queue => Stages[t] = "queued"
         /\ t \in Held => Stages[t] = "taken"
         /\ Stages[t] = "queued" => t \in task_queue
         /\ Stages[t] = "taken" => t \in Held
BY DEF IInv, EachTaskOnce, Accepted, Stages, Stage

\* A step that changes the stage of one task only.
LEMMA StagesMoved ==
  ASSUME NEW t \in Task, NEW s,
         \A u \in Task : Stage(u)' = IF u = t THEN s ELSE Stage(u)
  PROVE  Stages' = [Stages EXCEPT ![t] = s]
BY DEF Stages

\* The calls of Enqueue accept or refuse.
LEMMA EnqueueRefines ==
  ASSUME IInv, NEW t \in Task, Enqueue(t)
  PROVE  Abstract!Next \/ UNCHANGED <<Stages, PoolStage>>
<1> USE DEF status, tasks, threads
<1>1. CASE EnqueueRefused(t)
  <2>1. /\ InEnqueue(t) /\ stop /\ UNCHANGED <<stop, owner>>
        /\ UNCHANGED <<task_queue, completed, discarded, hand>>
        /\ caller' = [caller EXCEPT ![t] = "refused"]
    BY <1>1 DEF EnqueueRefused
  <2>2. Stages[t] = "new"
    BY <2>1, StageOf DEF InEnqueue
  <2>3. Stages' = [Stages EXCEPT ![t] = "refused"]
    <3>1. Held' = Held /\ t \notin completed \cup discarded \cup Held \cup task_queue
      BY <2>1 DEF InEnqueue, IInv, EachTaskOnce, Accepted, Held
    <3>2. \A u \in Task : Stage(u)' = IF u = t THEN "refused" ELSE Stage(u)
      BY <2>1, <3>1 DEF Stage, IInv, Shape
    <3> QED BY <3>2, StagesMoved
  <2>4. PoolStage # "open" /\ PoolStage' = PoolStage
    BY <2>1 DEF PoolStage
  <2> QED BY <2>2, <2>3, <2>4 DEF Abstract!Next, Abstract!Refuse, Abstract!Move, Stages
<1>2. CASE EnqueuePushes(t)
  <2>1. /\ InEnqueue(t) /\ ~stop /\ UNCHANGED <<stop, owner>>
        /\ task_queue' = task_queue \cup {t}
        /\ UNCHANGED <<completed, discarded, hand>>
        /\ caller' = [caller EXCEPT ![t] = "notify"]
    BY <1>2 DEF EnqueuePushes, Push
  <2>2. Stages[t] = "new"
    BY <2>1, StageOf DEF InEnqueue
  <2>3. t \notin completed /\ t \notin discarded /\ t \notin Held
    BY <2>1 DEF InEnqueue, IInv, EachTaskOnce, Accepted
  <2>4. Stages' = [Stages EXCEPT ![t] = "queued"]
    <3>1. Held' = Held
      BY <2>1 DEF Held
    <3>2. \A u \in Task : Stage(u)' = IF u = t THEN "queued" ELSE Stage(u)
      BY <2>1, <2>3, <3>1 DEF Stage, IInv, Shape
    <3> QED BY <3>2, StagesMoved
  <2>5. PoolStage = "open" /\ PoolStage' = PoolStage
    BY <2>1 DEF PoolStage
  <2> QED BY <2>2, <2>4, <2>5 DEF Abstract!Next, Abstract!Accept, Abstract!Move, Stages
<1>3. CASE EnqueueWaits(t)
  BY <1>3, StagesKept, PoolStageKept DEF EnqueueWaits, InEnqueue, Refused, IInv, Shape
<1>4. CASE EnqueueNotifies(t)
  <2>1. UNCHANGED Stages
    BY <1>4, StagesKept DEF EnqueueNotifies, Refused, IInv, Shape
  <2>2. UNCHANGED PoolStage
    BY <1>4 DEF EnqueueNotifies, NotifyGetTask, PoolStage
  <2> QED BY <2>1, <2>2
<1> QED BY <1>1, <1>2, <1>3, <1>4 DEF Enqueue

\* The workers take and finish; what else they do is not seen.
LEMMA WorkerRefines ==
  ASSUME IInv, NEW w \in Worker, WorkerThread(w) \/ Timeout(w)
  PROVE  Abstract!Next \/ UNCHANGED <<Stages, PoolStage>>
<1> USE DEF status, tasks, threads
<1>1. CASE Take(w)
  <2>1. PICK t \in task_queue : /\ task_queue' = task_queue \ {t}
                                /\ hand' = [hand EXCEPT ![w] = t]
    BY <1>1 DEF Take, Popped, MostUrgent
  <2>2. t \in Task /\ hand[w] = NoTask /\ t # NoTask
    BY <1>1, TaskAssumption DEF Take, IInv, Shape, Hands
  <2>3. Held' = Held \cup {t}
    BY <2>1, <2>2 DEF Held, IInv, Shape
  <2>4. UNCHANGED <<completed, discarded, Refused, stop, owner>>
    BY <1>1 DEF Take, NotifyNotFull, Refused, IInv, Shape
  <2>5. Stages[t] = "queued"
    BY <2>1, <2>2, StageOf
  <2>6. t \notin completed /\ t \notin discarded /\ caller[t] # "refused"
    BY <2>1 DEF IInv, EachTaskOnce, Accepted
  <2>7. Stages' = [Stages EXCEPT ![t] = "taken"]
    <3>1. \A u \in Task : caller'[u] = "refused" <=> caller[u] = "refused"
      BY <2>4 DEF Refused
    <3>2. \A u \in Task : Stage(u)' = IF u = t THEN "taken" ELSE Stage(u)
      BY <2>1, <2>3, <2>4, <2>6, <3>1 DEF Stage
    <3> QED BY <2>2, <3>2, StagesMoved
  <2>8. PoolStage = "open" /\ PoolStage' = PoolStage
    BY <2>1, <2>4 DEF PoolStage, IInv, StopMarks
  <2> QED BY <2>2, <2>5, <2>7, <2>8 DEF Abstract!Next, Abstract!Take, Abstract!Move, Stages
<1>2. CASE Finish(w)
  <2>0. PICK t \in Task : t = hand[w]
    BY <1>2 DEF Finish, IInv, Shape, Hands
  <2>1. t \in Held
    BY <2>0, TaskAssumption DEF Held
  <2>2. Held' = Held \ {t}
    BY <1>2, <2>0, TaskAssumption DEF Finish, Held, IInv, Shape, EachTaskOnce
  <2>3. /\ completed' = completed \cup {t}
        /\ UNCHANGED <<task_queue, discarded, caller, stop, owner>>
    BY <1>2, <2>0 DEF Finish
  <2>4. /\ Stages[t] = "taken"
        /\ t \notin task_queue /\ t \notin discarded /\ caller[t] # "refused"
    BY <2>1, StageOf DEF IInv, EachTaskOnce, Accepted
  <2>5. Stages' = [Stages EXCEPT ![t] = "done"]
    <3>1. \A u \in Task : Stage(u)' = IF u = t THEN "done" ELSE Stage(u)
      BY <2>2, <2>3, <2>4 DEF Stage
    <3> QED BY <3>1, StagesMoved
  <2>6. PoolStage # "joined" /\ PoolStage' = PoolStage
    BY <1>2, <2>3 DEF Finish, PoolStage, IInv, StopMarks, Live
  <2> QED BY <2>1, <2>4, <2>5, <2>6 DEF Abstract!Next, Abstract!Finish, Abstract!Move, Stages
<1>3. CASE ~Take(w) /\ ~Finish(w)
  <2>1. UNCHANGED Stages
    BY <1>3, StagesKept, SMTT(60) DEF WorkerThread, FindNothing, Sleep, FindTask, StayOn,
       GoAround, Choose, Timeout, Step, IdleExit, StopExit, Exit, Start, Leave, Signal, Refused
  <2>2. stop' = stop /\ (owner' = owner \/ (owner = "sd_blocked" /\ owner' = "sd_lock"))
    BY <1>3 DEF WorkerThread, FindNothing, Sleep, FindTask, StayOn, GoAround, Choose, Timeout, Step,
       IdleExit, StopExit, Exit, Start, Leave, Signal
  <2> QED BY <2>1, <2>2 DEF PoolStage
<1> QED BY <1>1, <1>2, <1>3

\* The owner closes and joins; pausing, resuming and waiting are not seen.
LEMMA OwnerRefines ==
  ASSUME IInv, OwnerDecides \/ OwnerProceeds \/ ShutDownTimeout
  PROVE  Abstract!Next \/ UNCHANGED <<Stages, PoolStage>>
<1> USE DEF status, tasks, threads
<1>1. CASE Stop_now
  <2>1. /\ ~stop /\ stop' /\ owner' = "sn_wake"
        /\ task_queue' = {} /\ discarded' = discarded \cup task_queue
        /\ UNCHANGED <<completed, hand, caller>>
    BY <1>1 DEF Stop_now, Calls, MarkStopped, EmptyQueue, IInv, StopMarks
  <2>2. PoolStage = "open" /\ PoolStage' = "closed"
    BY <2>1 DEF PoolStage
  <2>3. Stages' = [t \in Task |-> IF Stages[t] = "queued" THEN "discarded" ELSE Stages[t]]
    <3> SUFFICES ASSUME NEW t \in Task
                 PROVE  Stage(t)' = IF Stage(t) = "queued" THEN "discarded" ELSE Stage(t)
      BY DEF Stages
    <3> QED BY <2>1 DEF Stage, Held, IInv, EachTaskOnce
  <2> QED BY <2>2, <2>3 DEF Abstract!Next, Abstract!CloseDiscarding, Stages
<1>2. CASE ShutDownComplete
  <2>1. /\ ~stop /\ stop' /\ owner' = "sd_wake" /\ task_queue = {}
        /\ UNCHANGED <<task_queue, completed, discarded, hand, caller>>
    BY <1>2 DEF ShutDownComplete, TasksComplete, MarkStopped, IInv, StopMarks
  <2>2. UNCHANGED Stages
    BY <2>1, StagesKept DEF Refused
  <2>3. \A t \in Task : Stages[t] # "queued"
    BY <2>1, StageOf
  <2>4. PoolStage = "open" /\ PoolStage' = "closed"
    BY <2>1 DEF PoolStage
  <2> QED BY <2>2, <2>3, <2>4 DEF Abstract!Next, Abstract!CloseDrained, Stages
<1>3. CASE Join("sd_join", "drained") \/ Join("sn_join", "halted")
  <2>1. /\ stop /\ stop' = stop /\ Live = {}
        /\ owner \in {"sd_join", "sn_join"} /\ owner' \in {"drained", "halted"}
        /\ UNCHANGED <<task_queue, completed, discarded, hand, caller>>
    BY <1>3 DEF Join, OwnerStep, IInv, StopMarks
  <2>2. UNCHANGED Stages
    BY <2>1, StagesKept DEF Refused
  <2>3. Held = {}
    BY <2>1 DEF IInv, Hands, Live, Held
  <2>4. \A t \in Task : Stages[t] # "taken"
    BY <2>3, StageOf
  <2>5. PoolStage = "closed" /\ PoolStage' = "joined"
    BY <2>1 DEF PoolStage
  <2> QED BY <2>2, <2>4, <2>5 DEF Abstract!Next, Abstract!Join, Stages
<1>4. CASE /\ ~Stop_now /\ ~ShutDownComplete
           /\ ~Join("sd_join", "drained") /\ ~Join("sn_join", "halted")
  <2>1. UNCHANGED Stages
    BY <1>4, StagesKept DEF OwnerDecides, Pause, Resume, SwitchStatus, ShutDown, Destroy,
       OwnerProceeds, ShutDownTimeout, OwnerNotifiesAll, ShutDownWaits, ShutDownSleeps,
       ShutDownTimesOut, OwnerStep, Refused
  <2>2. /\ stop' = stop
        /\ owner' = owner \/ {owner, owner'} \cap {"drained", "halted"} = {}
    BY <1>4 DEF OwnerDecides, Pause, Resume, SwitchStatus, ShutDown, Destroy, Calls,
       OwnerProceeds, ShutDownTimeout, OwnerNotifiesAll, ShutDownWaits, ShutDownSleeps,
       ShutDownTimesOut, OwnerStep
  <2> QED BY <2>1, <2>2 DEF PoolStage
<1> QED BY <1>1, <1>2, <1>3, <1>4

\* The pool does what TaskPool promises, and nothing else that can be seen.
THEOREM Refinement == Spec => ImplementsTaskPool
<1>1. Init => Abstract!Init
  BY DEF Init, Abstract!Init, Stage, Held, PoolStage
<1>2. IInv /\ [Next]_vars => [Abstract!Next]_<<Stages, PoolStage>>
  <2> SUFFICES ASSUME IInv, [Next]_vars
               PROVE  Abstract!Next \/ UNCHANGED <<Stages, PoolStage>>
    OBVIOUS
  <2> USE DEF status, tasks, threads
  <2>1. CASE UNCHANGED vars
    BY <2>1, StagesKept, PoolStageKept DEF vars, Refused
  <2>2. CASE \E t \in Task : Enqueue(t)
    BY <2>2, EnqueueRefines
  <2>3. CASE \E w \in Worker : WorkerThread(w) \/ Timeout(w)
    BY <2>3, WorkerRefines
  <2>4. CASE OwnerDecides \/ OwnerProceeds \/ ShutDownTimeout
    BY <2>4, OwnerRefines
  <2>5. CASE SpuriousWakeup
    <3>1. UNCHANGED Stages
      BY <2>5, StagesKept DEF SpuriousWakeup, Step, OwnerStep, Refused, IInv, Shape
    <3>2. UNCHANGED PoolStage
      BY <2>5 DEF SpuriousWakeup, Step, OwnerStep, PoolStage
    <3> QED BY <3>1, <3>2
  <2> QED BY <2>1, <2>2, <2>3, <2>4, <2>5 DEF Next
<1>3. IInv /\ [Next]_vars => [Abstract!Next]_(Abstract!vars)
  BY <1>2 DEF Abstract!vars, Stages
<1> QED BY <1>1, <1>3, Invariance, PTL DEF Spec, ImplementsTaskPool, Abstract!Spec

=============================================================================
