--------------------------- MODULE MCNavLifecycle ---------------------------
(* NavLifecycle for TLC; the constants are in MCNavLifecycle.cfg. *)
EXTENDS NavLifecycle
=============================================================================
