--------------------------- MODULE MCAgentSession ---------------------------
(***************************************************************************)
(* A small instance of AgentSession for TLC: two maps on the disk, a third *)
(* one that may be saved.                                                  *)
(***************************************************************************)
EXTENDS AgentSession

CONSTANTS m1, m2, m3
=============================================================================
