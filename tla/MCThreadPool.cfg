\* Safety under every call of the owner: bounded queue, up to two surplus threads.
SPECIFICATION Spec
CONSTANTS
  w1 = w1
  w2 = w2
  w3 = w3
  t1 = t1
  t2 = t2
  t3 = t3
  NoTask = NoTask
  Worker <- ThreeWorkers
  Task <- ThreeTasks
  Priority <- AllPriorities
  CoreThreads = 1
  MaxThreads = 3
  QueueSize = 2
  OwnerCalls <- AllCalls
SYMMETRY WorkerSymmetry
INVARIANTS TypeOK ThreadsAccounted EachTaskOnce QueueBounded CleanStop NoStrandedCaller
PROPERTIES NoGrowthAfterStop PauseHolds ImplementsTaskPool
\* The pool may stop for good: drained, halted, or its owner stuck or terminated.
CHECK_DEADLOCK FALSE
