----------------------------- MODULE MCRegistry -----------------------------
(* Values for the constants of Registry.                                   *)
EXTENDS Registry

CONSTANTS s1, s2, c1, a1, a2, a3

TwoServers == {s1, s2}
OneClient == {c1}
Addresses == {a1, a2, a3}
TwoOfFirst == [s \in Server |-> IF s = s1 THEN <<a1, a2>> ELSE <<a3>>]
\* The first server starts twice; a client never opens a third handle.
Opened == [p \in Process |-> IF p = s2 THEN 1 ELSE 2]
=============================================================================
