----------------------------- MODULE ThreadPool -----------------------------
(***************************************************************************)
(* meeting_ctrl::ThreadPool (include/thread_pool.h and thread_pool.cpp).   *)
(*                                                                         *)
(* Three kinds of thread share the pool: its workers (WorkerThread), the   *)
(* callers of Enqueue, one per task, and the owner, the thread that pauses *)
(* it, resumes it, shuts it down, stops it or destroys it.  A step is what *)
(* a thread does between two points where another thread can interfere:    *)
(* everything done under queue_mutex_ is one step, unless state_ (which    *)
(* Pause, Resume and ShutDown write without the lock) is read in it several *)
(* times, or read before what depends on it is done; and so is every       *)
(* access to an atomic outside the lock.                                   *)
(*                                                                         *)
(* A thread waiting on a condition variable is at "blocked".  It leaves    *)
(* when it is notified, when its timeout expires, or spuriously, and then  *)
(* has to get the mutex again before it evaluates its predicate.           *)
(*                                                                         *)
(* A definition named X_Y, Y being what goes wrong, is X with a plausible  *)
(* mistake in it.  It is no part of the specification: some property fails *)
(* when it replaces X, which is how the properties are tested.             *)
(***************************************************************************)
EXTENDS Integers, FiniteSets

CONSTANTS
  Worker,        \* slots for std::thread objects; a slot is used again once its thread has returned
  Task,          \* the calls of Enqueue, and the task each submits
  Priority,      \* the TaskPriority of each task, as the enum counts: 0 is kHIGH
  CoreThreads,   \* thread_config_.core_threads
  MaxThreads,    \* thread_config_.max_threads
  QueueSize,     \* thread_config_.queue_size, 0 for no limit
  OwnerCalls,    \* the member functions the owner uses
  NoTask         \* the empty TaskWrapper

ASSUME WorkerAssumption == IsFiniteSet(Worker) /\ Cardinality(Worker) >= MaxThreads
ASSUME TaskAssumption == IsFiniteSet(Task) /\ Priority \in [Task -> 0..2] /\ NoTask \notin Task
ASSUME ConfigAssumption ==
  /\ CoreThreads \in Nat /\ MaxThreads \in Nat /\ QueueSize \in Nat
  /\ CoreThreads <= MaxThreads
ASSUME OwnerAssumption ==
  OwnerCalls \subseteq {"Pause", "Resume", "ShutDown", "Stop_now", "Destroy"}

VARIABLES
  state,                \* state_
  stop,                 \* stop_
  task_queue,           \* task_queue
  completed,            \* the tasks whose body has run (their number is completed_tasks_)
  discarded,            \* the tasks Stop_now threw away
  worker,               \* where each worker is
  hand,                 \* the TaskWrapper each worker holds
  current_thread_nums,  \* current_thread_nums
  active_threads,       \* active_threads_
  caller,               \* where each call of Enqueue is
  owner                 \* where the owner is

status == <<state, stop>>
tasks == <<task_queue, completed, discarded>>
threads == <<worker, hand, current_thread_nums, active_threads>>
vars == <<status, tasks, threads, caller, owner>>

-----------------------------------------------------------------------------
ThreadStatus == {"kRunning", "KPuase", "kShuttingDown", "kStopped"}

\* off: no thread.  lock: about to lock and evaluate the predicate.  park: it
\* was false, mutex still held.  late: timed out, about to lock.  check: the
\* wait is over, mutex held.  pick: not paused when it looked, mutex still held.
\* popped: a task in hand, not yet counted.  running, ran: counted in
\* active_threads_.  signal: counted out again.
WorkerPoint == {"off", "lock", "park", "blocked", "late", "check", "pick",
                "popped", "running", "ran", "signal"}

CallerPoint == {"new", "blocked", "woken", "notify", "accepted", "refused"}

OwnerPoint == {"idle", "sd_notify", "sd_lock", "sd_park", "sd_blocked", "sd_late",
               "self_deadlock", "sd_wake", "sd_join", "drained",
               "sn_wake", "sn_join", "halted", "terminated"}

Live == {w \in Worker : worker[w] # "off"}

\* Nobody holds queue_mutex_ from one step to the next.
MutexFree ==
  /\ \A w \in Worker : worker[w] \notin {"park", "check", "pick"}
  /\ owner \notin {"sd_park", "self_deadlock"}

\* The queue is a heap ordered by operator<, which does not keep the order of
\* arrival: top() is any task of the most urgent priority present.
MostUrgent == {t \in task_queue : \A u \in task_queue : Priority[t] <= Priority[u]}

-----------------------------------------------------------------------------
(* Condition variables.  A notified thread goes back for the mutex.        *)

\* get_task_condition.notify_all(): the workers at w that wait are woken.
AllWoken(w) == [v \in Worker |-> IF w[v] = "blocked" THEN "lock" ELSE w[v]]

NotifyGetTask_Dropped == UNCHANGED <<worker, owner>>

\* get_task_condition.notify_one(): a worker, or the owner waiting in
\* ShutDown on the same variable, or nobody when nobody waits.
NotifyGetTask ==
  \/ /\ \E w \in Worker : /\ worker[w] = "blocked"
                          /\ worker' = [worker EXCEPT ![w] = "lock"]
     /\ UNCHANGED owner
  \/ owner = "sd_blocked" /\ owner' = "sd_lock" /\ UNCHANGED worker
  \/ /\ owner # "sd_blocked"
     /\ \A w \in Worker : worker[w] # "blocked"
     /\ UNCHANGED <<worker, owner>>

\* not_full_condition.notify_one()
NotifyNotFull ==
  \/ \E t \in Task : /\ caller[t] = "blocked"
                     /\ caller' = [caller EXCEPT ![t] = "woken"]
  \/ (\A t \in Task : caller[t] # "blocked") /\ UNCHANGED caller

-----------------------------------------------------------------------------
\* The constructor starts core_threads workers.
Init ==
  /\ state = "kRunning" /\ stop = FALSE
  /\ task_queue = {} /\ completed = {} /\ discarded = {}
  /\ \E started \in SUBSET Worker :
       /\ Cardinality(started) = CoreThreads
       /\ worker = [w \in Worker |-> IF w \in started THEN "lock" ELSE "off"]
  /\ hand = [w \in Worker |-> NoTask]
  /\ current_thread_nums = CoreThreads /\ active_threads = 0
  /\ caller = [t \in Task |-> "new"]
  /\ owner = "idle"

-----------------------------------------------------------------------------
(* Enqueue.                                                                *)

UpdateThreadNums_Uncounted ==
  /\ \E w \in Worker : worker[w] = "off" /\ worker' = [worker EXCEPT ![w] = "lock"]
  /\ UNCHANGED current_thread_nums

\* A new thread; when std::thread cannot be created the counter is put back.
UpdateThreadNums ==
  \/ /\ \E w \in Worker : worker[w] = "off" /\ worker' = [worker EXCEPT ![w] = "lock"]
     /\ current_thread_nums' = current_thread_nums + 1
  \/ UNCHANGED <<worker, current_thread_nums>>

HasRoom == QueueSize = 0 \/ Cardinality(task_queue) < QueueSize

\* The call has the mutex: it has just got it, or wait() has handed it back.
InEnqueue(t) == caller[t] \in {"new", "woken"} /\ MutexFree

\* The task goes into the queue, and a thread is added when more than
\* core_threads tasks are queued.
Push(t) ==
  /\ task_queue' = task_queue \cup {t}
  /\ caller' = [caller EXCEPT ![t] = "notify"]
  /\ IF Cardinality(task_queue') > CoreThreads /\ current_thread_nums < MaxThreads
     THEN UpdateThreadNums
     ELSE UNCHANGED <<worker, current_thread_nums>>
  /\ UNCHANGED <<status, completed, discarded, hand, active_threads, owner>>

EnqueueRefused(t) ==
  /\ InEnqueue(t) /\ stop
  /\ caller' = [caller EXCEPT ![t] = "refused"]
  /\ UNCHANGED <<status, tasks, threads, owner>>

EnqueueWaits(t) ==
  /\ InEnqueue(t) /\ ~stop /\ ~HasRoom
  /\ caller' = [caller EXCEPT ![t] = "blocked"]
  /\ UNCHANGED <<status, tasks, threads, owner>>

EnqueuePushes_AfterStop(t) == InEnqueue(t) /\ HasRoom /\ Push(t)

EnqueuePushes_Unchecked(t) ==
  InEnqueue(t) /\ ~stop /\ (HasRoom \/ caller[t] = "woken") /\ Push(t)

EnqueuePushes(t) == InEnqueue(t) /\ ~stop /\ HasRoom /\ Push(t)

\* notify_one() after the lock is released; the caller then has its future.
EnqueueNotifies(t) ==
  /\ caller[t] = "notify" /\ caller' = [caller EXCEPT ![t] = "accepted"]
  /\ NotifyGetTask
  /\ UNCHANGED <<status, tasks, hand, current_thread_nums, active_threads>>

Enqueue(t) ==
  EnqueueRefused(t) \/ EnqueueWaits(t) \/ EnqueuePushes(t) \/ EnqueueNotifies(t)

-----------------------------------------------------------------------------
(* WorkerThread.                                                           *)

HasTask ==
  stop \/ (task_queue # {} /\ state \in {"kRunning", "kShuttingDown"})

\* Worker w moves on and touches nothing else.
Step(w, from, to) ==
  /\ worker[w] = from /\ worker' = [worker EXCEPT ![w] = to]
  /\ UNCHANGED <<status, tasks, hand, current_thread_nums, active_threads, caller, owner>>

\* The thread returns.
Exit(w) ==
  /\ worker' = [worker EXCEPT ![w] = "off"]
  /\ current_thread_nums' = current_thread_nums - 1
  /\ UNCHANGED <<status, tasks, hand, active_threads, caller, owner>>

\* wait_for: the predicate is false, and only then does the thread go to sleep
\* and let go of the mutex.  A notification in between finds nobody.
FindNothing(w) == MutexFree /\ ~HasTask /\ Step(w, "lock", "park")
Sleep(w) == Step(w, "park", "blocked")

FindTask(w) ==
  MutexFree /\ HasTask /\ \E from \in {"lock", "late"} : Step(w, from, "check")

Surplus_OneMore == current_thread_nums >= CoreThreads
Surplus_AboveMax == current_thread_nums > MaxThreads
Surplus == current_thread_nums > CoreThreads

\* keep_alive_time is over and the predicate still false: a surplus worker
\* leaves, another one goes on.  (The time since last_active_time, which was
\* set before the wait began, is then over as well.)
IdleExit(w) == worker[w] = "late" /\ MutexFree /\ ~HasTask /\ Surplus /\ Exit(w)
StayOn(w) == MutexFree /\ ~HasTask /\ ~Surplus /\ Step(w, "late", "check")

MustExit == (stop \/ state = "kStopped") /\ task_queue = {}

StopExit(w) == worker[w] = "check" /\ MustExit /\ Exit(w)

\* Paused since the predicate was read, or nothing there: around again.
GoAround(w) ==
  ~MustExit /\ (state = "KPuase" \/ task_queue = {}) /\ Step(w, "check", "lock")

Choose_WhilePaused(w) == ~MustExit /\ task_queue # {} /\ Step(w, "check", "pick")

\* Not paused, and something there.  Pause takes no lock: it may come between
\* this look and the pop.
Choose(w) ==
  ~MustExit /\ state # "KPuase" /\ task_queue # {} /\ Step(w, "check", "pick")

Popped_OnlyTop(t) == task_queue
Popped(t) == task_queue \ {t}

RoomMade_Late(q) == QueueSize > 0 /\ Cardinality(q) + 1 < QueueSize
RoomMade(q) == QueueSize > 0 /\ Cardinality(q) < QueueSize

\* top() and pop(), whatever the state is by now, and a caller that waits for
\* room is told.
Take(w) ==
  /\ worker[w] = "pick"
  /\ \E t \in MostUrgent : task_queue' = Popped(t) /\ hand' = [hand EXCEPT ![w] = t]
  /\ worker' = [worker EXCEPT ![w] = "popped"]
  /\ IF RoomMade(task_queue') THEN NotifyNotFull ELSE UNCHANGED caller
  /\ UNCHANGED <<status, completed, discarded, current_thread_nums, active_threads, owner>>

\* active_threads_++, without the lock
Start(w) ==
  /\ worker[w] = "popped" /\ worker' = [worker EXCEPT ![w] = "running"]
  /\ active_threads' = active_threads + 1
  /\ UNCHANGED <<status, tasks, hand, current_thread_nums, caller, owner>>

\* The task has run.  It is a packaged_task, which keeps what the body throws
\* for the future: run() never throws and fail_tasks_ stays 0.
Finish(w) ==
  /\ worker[w] = "running" /\ worker' = [worker EXCEPT ![w] = "ran"]
  /\ completed' = completed \cup {hand[w]}
  /\ hand' = [hand EXCEPT ![w] = NoTask]
  /\ UNCHANGED <<status, task_queue, discarded, current_thread_nums, active_threads,
                 caller, owner>>

Leave(w) ==
  /\ worker[w] = "ran" /\ worker' = [worker EXCEPT ![w] = "signal"]
  /\ active_threads' = active_threads - 1
  /\ UNCHANGED <<status, tasks, hand, current_thread_nums, caller, owner>>

\* The last one out wakes the owner, and everybody else, when it finds the
\* queue empty; it looks without the lock.
Signal(w) ==
  LET moved == [worker EXCEPT ![w] = "lock"] IN
  /\ worker[w] = "signal"
  /\ IF state = "kShuttingDown" /\ active_threads = 0 /\ task_queue = {}
     THEN /\ worker' = AllWoken(moved)
          /\ owner' = IF owner = "sd_blocked" THEN "sd_lock" ELSE owner
     ELSE worker' = moved /\ UNCHANGED owner
  /\ UNCHANGED <<status, tasks, hand, current_thread_nums, active_threads, caller>>

WorkerThread(w) ==
  \/ FindNothing(w) \/ Sleep(w) \/ FindTask(w) \/ IdleExit(w) \/ StayOn(w)
  \/ StopExit(w) \/ GoAround(w) \/ Choose(w) \/ Take(w)
  \/ Start(w) \/ Finish(w) \/ Leave(w) \/ Signal(w)

Timeout_Never(w) == worker[w] = "blocked" /\ FALSE

\* keep_alive_time is over for a waiting worker
Timeout(w) == Step(w, "blocked", "late")

-----------------------------------------------------------------------------
(* The owner: Pause, Resume, ShutDown, Stop_now and the destructor.  Calls *)
(* that change nothing are not steps: ShutDown of a paused pool returns    *)
(* false, and every call on a stopped pool finds nobody to wake or join.   *)

Calls(op) == owner = "idle" /\ op \in OwnerCalls

\* The owner moves on and touches nothing else.
OwnerStep(from, to) ==
  owner = from /\ owner' = to /\ UNCHANGED <<status, tasks, threads, caller>>

\* Pause and Resume exchange the status when it is the expected one; they wake
\* the workers when it is not.
SwitchStatus(op, from, to) ==
  /\ Calls(op)
  /\ IF state = from
     THEN state' = to /\ UNCHANGED worker
     ELSE worker' = AllWoken(worker) /\ UNCHANGED state
  /\ UNCHANGED <<stop, tasks, hand, current_thread_nums, active_threads, caller, owner>>

Pause == SwitchStatus("Pause", "kRunning", "KPuase")
Resume == SwitchStatus("Resume", "KPuase", "kRunning")

OwnerNotifiesAll_Dropped(from, to) == OwnerStep(from, to)

\* notify_all() by the owner
OwnerNotifiesAll(from, to) ==
  /\ owner = from /\ owner' = to
  /\ worker' = AllWoken(worker)
  /\ UNCHANGED <<status, tasks, hand, current_thread_nums, active_threads, caller>>

Join_Detached(from, to) == OwnerStep(from, to)

\* join() returns when every thread has.
Join(from, to) == Live = {} /\ OwnerStep(from, to)

ShutDown ==
  /\ Calls("ShutDown") /\ state = "kRunning"
  /\ state' = "kShuttingDown" /\ owner' = "sd_notify"
  /\ UNCHANGED <<stop, tasks, threads, caller>>

TasksComplete == task_queue = {} /\ active_threads = 0

\* The predicate is false: to sleep, on the variable the workers use.
ShutDownWaits == MutexFree /\ ~TasksComplete /\ OwnerStep("sd_lock", "sd_park")
ShutDownSleeps == OwnerStep("sd_park", "sd_blocked")

MarkStopped == state' = "kStopped" /\ stop' = TRUE

ShutDownComplete ==
  /\ owner \in {"sd_lock", "sd_late"} /\ MutexFree /\ TasksComplete
  /\ MarkStopped /\ owner' = "sd_wake"
  /\ UNCHANGED <<tasks, threads, caller>>

\* keep_alive_time is over and the tasks are not complete: Stop_now is called
\* with queue_mutex_ held, and locks it again.
ShutDownTimesOut ==
  MutexFree /\ ~TasksComplete /\ OwnerStep("sd_late", "self_deadlock")

EmptyQueue_Forgotten == UNCHANGED <<task_queue, discarded>>
EmptyQueue == task_queue' = {} /\ discarded' = discarded \cup task_queue

Stop_now ==
  /\ Calls("Stop_now") /\ MutexFree
  /\ MarkStopped /\ EmptyQueue /\ owner' = "sn_wake"
  /\ UNCHANGED <<completed, threads, caller>>

\* The destructor of a paused pool: its ShutDown does nothing, and the thread
\* objects are destroyed without a join.  (Of a running pool it is ShutDown.)
Destroy ==
  /\ Calls("Destroy") /\ state = "KPuase" /\ CoreThreads > 0
  /\ OwnerStep("idle", "terminated")

OwnerDecides == Pause \/ Resume \/ ShutDown \/ Stop_now \/ Destroy

\* What the owner does inside a call, up to its return.
OwnerProceeds ==
  \/ OwnerNotifiesAll("sd_notify", "sd_lock")
  \/ ShutDownWaits \/ ShutDownSleeps \/ ShutDownComplete \/ ShutDownTimesOut
  \/ OwnerNotifiesAll("sd_wake", "sd_join") \/ Join("sd_join", "drained")
  \/ OwnerNotifiesAll("sn_wake", "sn_join") \/ Join("sn_join", "halted")

ShutDownTimeout == OwnerStep("sd_blocked", "sd_late")

-----------------------------------------------------------------------------
\* A wait may return without a notification and before its timeout.
SpuriousWakeup ==
  \/ \E w \in Worker : Step(w, "blocked", "lock")
  \/ OwnerStep("sd_blocked", "sd_lock")
  \/ \E t \in Task :
       /\ caller[t] = "blocked" /\ caller' = [caller EXCEPT ![t] = "woken"]
       /\ UNCHANGED <<status, tasks, threads, owner>>

\* Nothing runs any more once the process has been terminated.
Next ==
  /\ owner # "terminated"
  /\ \/ \E t \in Task : Enqueue(t)
     \/ \E w \in Worker : WorkerThread(w) \/ Timeout(w)
     \/ OwnerDecides \/ OwnerProceeds \/ ShutDownTimeout
     \/ SpuriousWakeup

Spec == Init /\ [][Next]_vars

(* Fairness.  Every thread keeps running, every lock is granted in the end *)
(* (strong fairness: the mutex is taken and released for ever by others),  *)
(* tasks return, and a call of Enqueue, once it is made, goes on.  When to *)
(* call is up to the callers and the owner.                                *)
Fairness ==
  /\ \A w \in Worker : SF_vars(WorkerThread(w))
  /\ \A t \in Task : SF_vars(caller[t] # "new" /\ Enqueue(t))
  /\ SF_vars(OwnerProceeds)

\* A wait with a timeout ends.  (Strong fairness: the deadline is fixed when
\* wait_for is called, and a thread that is woken early waits for the same one.)
Timeouts == SF_vars(ShutDownTimeout) /\ \A w \in Worker : SF_vars(Timeout(w))

\* FairSpec for what may take a timeout, PromptSpec for what must not need one.
FairSpec == Spec /\ Fairness /\ Timeouts
PromptSpec == Spec /\ Fairness

-----------------------------------------------------------------------------
(* Properties.                                                             *)

TypeOK ==
  /\ state \in ThreadStatus
  /\ stop \in BOOLEAN
  /\ task_queue \subseteq Task /\ completed \subseteq Task /\ discarded \subseteq Task
  /\ current_thread_nums \in Nat
  /\ active_threads \in 0..Cardinality(Worker)
  /\ worker \in [Worker -> WorkerPoint]
  /\ hand \in [Worker -> Task \cup {NoTask}]
  /\ caller \in [Task -> CallerPoint]
  /\ owner \in OwnerPoint

\* The tasks some worker has taken and not run to the end.
Held == {hand[w] : w \in Worker} \ {NoTask}

\* The tasks whose Enqueue has returned, or is about to return, a valid future.
Accepted == {t \in Task : caller[t] \in {"notify", "accepted"}}

\* current_thread_nums, which Enqueue and the idle exit decide by, is the
\* number of threads there are; it stays within max_threads, and workers that
\* time out at the same moment do not take the pool below core_threads.
ThreadsAccounted ==
  /\ current_thread_nums = Cardinality(Live)
  /\ current_thread_nums <= MaxThreads
  /\ stop \/ current_thread_nums >= CoreThreads

\* An accepted task is always in exactly one place: in the queue, in the hands
\* of one worker, completed, or thrown away by Stop_now.  So no task is lost
\* between the pop and the start, and none runs twice.
EachTaskOnce ==
  /\ Accepted = task_queue \cup Held \cup completed \cup discarded
  /\ task_queue \cap Held = {} /\ completed \cap (task_queue \cup Held) = {}
  /\ discarded \cap (task_queue \cup Held \cup completed) = {}
  /\ \A v, w \in Worker : hand[v] = hand[w] => v = w \/ hand[v] = NoTask

\* Callers woken together, and newcomers between them, never fill the queue
\* beyond queue_size.
QueueBounded == QueueSize > 0 => Cardinality(task_queue) <= QueueSize

\* When ShutDown returns true every accepted task has been run, the ones
\* included that a worker had popped, and not yet counted in active_threads_,
\* when ShutDown looked, and the ones accepted while it waited.
DrainedMeansDone == owner = "drained" => Accepted = completed /\ discarded = {}

\* Once ShutDown or Stop_now has returned true there is no thread left, nothing
\* queued or held, and nothing counted as active.
QuietAfterStop ==
  owner \in {"drained", "halted"} =>
    Live = {} /\ task_queue = {} /\ Held = {} /\ active_threads = 0

\* A stop leaves nothing behind, whichever call it was.
CleanStop == DrainedMeansDone /\ QuietAfterStop

\* The vector of threads does not grow while the owner goes through it and
\* joins: from the moment stop_ is set no call of Enqueue starts a worker, the
\* calls included that were waiting for room.
NoGrowthAfterStop == [][stop => Live' \subseteq Live]_vars

\* The workers that have found the pool not paused and not popped yet.
Picking == {w \in Worker : worker[w] = "pick"}

\* While the pool stays paused at most one task leaves the queue, however many
\* workers had been woken for one before: that of the worker that had looked at
\* state_ before Pause and still holds the mutex.  No worker comes to where it is.
PauseHolds ==
  [][state = "KPuase" /\ state' = "KPuase" =>
       \/ task_queue \subseteq task_queue' /\ Picking' \subseteq Picking
       \/ /\ \E t \in task_queue : task_queue' = task_queue \ {t}
          /\ Picking # {} /\ Picking' = {}]_vars

\* While the pool is not stopped, a caller that waits although the queue has
\* room means that for every free place a woken caller is on its way.
NoStrandedCaller ==
  ~stop /\ QueueSize > 0 /\ (\E t \in Task : caller[t] = "blocked")
  => QueueSize - Cardinality(task_queue) <= Cardinality({t \in Task : caller[t] = "woken"})

\* A pool that is left running runs every task submitted to it, without any
\* timeout having to expire.  (NoStrandedCaller is for the callers that wait.)
EveryTaskServed ==
  [](state = "kRunning") => \A t \in Task : caller[t] # "new" ~> t \in completed

\* A pool that is paused and resumed, and in the end stays resumed, still runs
\* every task, although Resume wakes nobody: the workers' timeouts see to it.
ServedAfterResume ==
  Timeouts /\ <>[](state = "kRunning") =>
    \A t \in Task : caller[t] # "new" ~> t \in completed

\* Once the load is over, and nobody pauses and resumes the pool for ever, the
\* threads beyond core_threads go away, given the timeouts; in a paused pool
\* they go away too, the queued tasks notwithstanding.
SurplusRetires ==
  Timeouts /\ (<>[](state = "kRunning") \/ <>[](state = "KPuase")) =>
    <>[](current_thread_nums <= CoreThreads)

\* Stop_now returns without any timeout: every worker hears of it.  ShutDown
\* ends one way or the other: it returns true, or its timeout expires and it
\* locks itself out.
OwnerReturns ==
  /\ owner = "sn_wake" ~> owner = "halted"
  /\ Timeouts => (owner = "sd_notify" ~> owner \in {"drained", "self_deadlock"})

\* ShutDown comes back to its caller.
ShutDownReturns == owner = "sd_notify" ~> owner = "drained"

-----------------------------------------------------------------------------
(* The pool implements TaskPool.                                           *)

Stage(t) ==
  CASE t \in completed -> "done"
    [] t \in discarded -> "discarded"
    [] t \in Held -> "taken"
    [] t \in task_queue -> "queued"
    [] caller[t] = "refused" -> "refused"
    [] OTHER -> "new"

PoolStage ==
  IF ~stop THEN "open" ELSE IF owner \in {"drained", "halted"} THEN "joined" ELSE "closed"

Abstract == INSTANCE TaskPool WITH
  task <- [t \in Task |-> Stage(t)],
  pool <- PoolStage

\* Every behaviour of the pool is one of TaskPool.
ImplementsTaskPool == Abstract!Spec

=============================================================================
