\* Every step of main may fail, and two signals may come at any moment.
SPECIFICATION Spec
CONSTANTS
  World <- AnyWorld
  MaxSignals = 2
INVARIANTS TypeOK ListedServes GoneMeansUnlisted
PROPERTY StopEnds
\* The process ends.
CHECK_DEADLOCK FALSE
