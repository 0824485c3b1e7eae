\* Pause, Resume, ShutDown and Stop_now at any moment, and tasks enough to start a
\* surplus thread.  The timeouts are no part of the specification: the properties
\* that need them say so.
SPECIFICATION PromptSpec
CONSTANTS
  w1 = w1
  w2 = w2
  w3 = w3
  t1 = t1
  t2 = t2
  t3 = t3
  NoTask = NoTask
  Worker <- TwoWorkers
  Task <- TwoTasks
  Priority <- OnePriority
  CoreThreads = 1
  MaxThreads = 2
  QueueSize = 2
  OwnerCalls <- MostCalls
PROPERTIES EveryTaskServed ServedAfterResume SurplusRetires OwnerReturns
\* The pool may stop for good: drained, halted, or its owner stuck or terminated.
CHECK_DEADLOCK FALSE
