\* Two servers, the first with two nodes, that start, crash and start again, and a
\* client that asks at any moment; the connections to ZooKeeper fail once.
SPECIFICATION Spec
CONSTANTS
  s1 = s1
  s2 = s2
  c1 = c1
  a1 = a1
  a2 = a2
  a3 = a3
  Server <- TwoServers
  Client <- OneClient
  Address <- Addresses
  NodesOf <- TwoOfFirst
  kMaxRetryTimes = 1
  MaxOpened <- Opened
  MaxLosses = 1
INVARIANTS TypeOK OneSession ServingListed NothingLeftBehind
PROPERTIES OnlyWhatWasListed NoFalseFailure
\* The servers may all be down for good, with no start left.
CHECK_DEADLOCK FALSE
