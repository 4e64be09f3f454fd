----------------------------- MODULE ListenerMC -----------------------------
(* Small instances of Listener for TLC. *)
EXTENDS Listener, TLC

CONSTANTS h1, h2, x, y

CallersHere == {h1, h2, Replay}
=============================================================================
