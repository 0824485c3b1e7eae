------------------------- MODULE MCServerLifecycle -------------------------
(* Values for the constants of ServerLifecycle.                            *)
EXTENDS ServerLifecycle

AnyWorld == {"faults", "clients", "stuck"}
QuietWorld == {}
=============================================================================
