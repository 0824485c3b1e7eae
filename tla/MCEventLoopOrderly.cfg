\* Clients that call, one call after the other, and leave, some before the answer.
SPECIFICATION FairSpec
CONSTANTS
  c1 = c1
  c2 = c2
  c3 = c3
  f1 = f1
  f2 = f2
  r1 = r1
  r2 = r2
  r3 = r3
  NoConn = NoConn
  NoFd = NoFd
  NoRequest = NoRequest
  Listen = Listen
  Conn <- TwoConns
  Fd <- TwoFds
  Request <- TwoRequests
  Sender <- BothFirst
  Padded <- FirstPadded
  World <- Orderly
PROPERTIES AnsweredOrClosed PeerGoneReleased
\* The process may end, and the loop may have nothing left to do.
CHECK_DEADLOCK FALSE
