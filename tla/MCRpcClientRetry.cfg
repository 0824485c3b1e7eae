\* Retries that all fail, with a load balance the client does not know.
SPECIFICATION FairSpec
CONSTANTS
  MaxCalls = 3
  MaxConnects = 3
  RetryTimes = 2
  Padded <- FirstPadded
  Network <- AnyNetwork
  Workload <- Workloads
  Listed <- ThreeListed
  Dead <- LastDead
  load_balance = "weighted"
  ClientHash = 0
INVARIANT ConnectedHasConnection
\* The program may have made all its calls, or have crashed.
CHECK_DEADLOCK FALSE
