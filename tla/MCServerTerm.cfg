\* One signal, no faults and no clients.
SPECIFICATION Spec
CONSTANTS
  World <- QuietWorld
  MaxSignals = 1
PROPERTY TermExitsCleanly
\* The process ends.
CHECK_DEADLOCK FALSE
