--------------------------- MODULE MCCommandPool ---------------------------
(* CommandPool for TLC: one worker, the controller and one more goroutine   *)
(* that applies, over a first pool and the one Reconnect makes of it.       *)
EXTENDS CommandPool
=============================================================================
