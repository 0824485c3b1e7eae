---------------------------- MODULE MCEventLoop ----------------------------
(* Values for the constants of EventLoop.                                  *)
EXTENDS EventLoop, TLC

CONSTANTS c1, c2, c3, f1, f2, r1, r2, r3

TwoConns == {c1, c2}
TwoFds == {f1, f2}

\* A request of each client, and two of the first
OneEach == [r \in {r1, r2} |-> IF r = r1 THEN c1 ELSE c2]
BothFirst == [r \in {r1, r2} |-> c1]
TwoOfFirst == [r \in {r1, r2, r3} |-> IF r = r2 THEN c2 ELSE c1]

TwoRequests == {r1, r2}
ThreeRequests == {r1, r2, r3}
FirstPadded == {r1}

Traffic == {"pipeline", "split", "stall", "close"}
Stopping == {"close", "reset", "SIGINT", "SIGTERM", "shutdown"}
Orderly == {"split", "close"}

\* Free descriptors are interchangeable.
FdSymmetry == Permutations(Fd)
=============================================================================
