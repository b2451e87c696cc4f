-------------------------- MODULE MCCommandArbiter --------------------------
(***************************************************************************)
(* Small instance of CommandArbiter for TLC.  One clock unit is 50 ms: the *)
(* lease of 0.25 s is five units and the 10 Hz watchdog two.               *)
(***************************************************************************)
EXTENDS CommandArbiter
=============================================================================
