\* Clients that pipeline, split, do not read or leave.
SPECIFICATION Spec
CONSTANTS
  c1 = c1
  c2 = c2
  c3 = c3
  f1 = f1
  f2 = f2
  r1 = r1
  r2 = r2
  r3 = r3
  NoConn = NoConn
  NoFd = NoFd
  NoRequest = NoRequest
  Listen = Listen
  Conn <- TwoConns
  Fd <- TwoFds
  Request <- ThreeRequests
  Sender <- TwoOfFirst
  Padded <- FirstPadded
  World <- Traffic
SYMMETRY FdSymmetry
INVARIANTS TypeOK NoEventLost AnswersRight
PROPERTIES DelBeforeClose
\* The process may end, and the loop may have nothing left to do.
CHECK_DEADLOCK FALSE
