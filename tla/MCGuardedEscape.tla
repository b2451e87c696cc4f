--------------------------- MODULE MCGuardedEscape ---------------------------
(* GuardedEscape for TLC; the constants are in the MCEscape*.cfg files. *)
EXTENDS GuardedEscape
=============================================================================
