--------------------------- MODULE SendCommandsMC ---------------------------
(* Small instances of SendCommands for TLC. *)
EXTENDS SendCommands, TLC

CONSTANTS i1, i2, m, n

\* A command of Claude's, and one of any kind.
KindsHere == (i1 :> {"claude"}) @@ (i2 :> {"claude", "pi", "request", "status"})
=============================================================================
