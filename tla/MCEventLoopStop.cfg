\* A server stopped by either signal, with clients that reset and a pool shut down meanwhile.
SPECIFICATION Spec
CONSTANTS
  c1 = c1
  c2 = c2
  c3 = c3
  f1 = f1
  f2 = f2
  r1 = r1
  r2 = r2
  r3 = r3
  NoConn = NoConn
  NoFd = NoFd
  NoRequest = NoRequest
  Listen = Listen
  Conn <- TwoConns
  Fd <- TwoFds
  Request <- TwoRequests
  Sender <- OneEach
  Padded <- FirstPadded
  World <- Stopping
SYMMETRY FdSymmetry
INVARIANTS EntriesOpen ReleasedAtEnd
\* The process may end, and the loop may have nothing left to do.
CHECK_DEADLOCK FALSE
