\* ShutDown whose timeout expires while a task is still running.
SPECIFICATION FairSpec
CONSTANTS
  w1 = w1
  w2 = w2
  w3 = w3
  t1 = t1
  t2 = t2
  t3 = t3
  NoTask = NoTask
  Worker <- TwoWorkers
  Task <- TwoTasks
  Priority <- OnePriority
  CoreThreads = 1
  MaxThreads = 2
  QueueSize = 1
  OwnerCalls <- OnlyShutDown
PROPERTY ShutDownReturns
\* The pool may stop for good: drained, halted, or its owner stuck or terminated.
CHECK_DEADLOCK FALSE
