---------------------------- MODULE MCDrivePath -----------------------------
(***************************************************************************)
(* Small instances of DrivePath for TLC.  One tick is 100 ms.              *)
(***************************************************************************)
EXTENDS DrivePath

Forward == [w \in Wheels |-> 2]
Ahead == {Zero, Forward}
AheadOrBack == {Zero, Forward, [w \in Wheels |-> -2]}

\* Both wheels seen turning; or, for the stall guard, both or neither.
Rolling == {[w \in Wheels |-> TRUE]}
RollingOrStuck == {[w \in Wheels |-> b] : b \in BOOLEAN}
=============================================================================
