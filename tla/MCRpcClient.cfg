\* A program that connects up to three times, to one server and the next, and
\* calls up to three times.
SPECIFICATION FairSpec
CONSTANTS
  MaxCalls = 3
  MaxConnects = 3
  RetryTimes = 2
  Padded <- FirstPadded
  Network <- AnyNetwork
  Workload <- Workloads
  Listed <- ThreeListed
  Dead <- LastDead
  load_balance = "rance"
  ClientHash = 0
INVARIANTS TypeOK SocketsAccounted SilentOnlyWhenRefused
PROPERTIES AnswerOfThisConnection CallsReturn
\* The program may have made all its calls, or have crashed.
CHECK_DEADLOCK FALSE
