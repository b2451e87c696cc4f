---------------------------- MODULE MCNavCommand ----------------------------
(***************************************************************************)
(* Small instances of NavCommand for TLC: two stages of one task, or of    *)
(* two tasks, with and without stops, operations and drive stalls.         *)
(***************************************************************************)
EXTENDS NavCommand, TLC

CONSTANTS c1, c2, t1, t2

OneTask == (c1 :> t1) @@ (c2 :> t1)
OneCommand == (c1 :> t1)
TwoTasks == (c1 :> t1) @@ (c2 :> t2)
=============================================================================
