---------------------------- MODULE WheelTargets ----------------------------
(***************************************************************************)
(* What the host asks of the two wheels, and the lines of the UART         *)
(* protocol that carry it (serial_bridge.py writes them, handleLine of the *)
(* firmware reads them).                                                   *)
(*                                                                         *)
(* A wheel target is signed and has three magnitudes, the ones the code    *)
(* tells apart: 0 below 0.5 rpm (stopped), 1 below 20 rpm (too slow for    *)
(* the stall guard), 2 from 20 rpm on.                                     *)
(***************************************************************************)
EXTENDS Integers

Wheels == {"left", "right"}
Level == -2..2
Targets == [Wheels -> Level]

Zero == [w \in Wheels |-> 0]
Moving(t) == \E w \in Wheels : t[w] # 0
Fast(t, w) == t[w] \in {-2, 2}

\* Some wheel is asked to turn the other way.
Reverses(old, new) == \E w \in Wheels : old[w] * new[w] < 0

\* STOP, CLEAR, CMD with its two targets; BAD is a line the firmware refuses
\* to parse.
LineKind == {"STOP", "CLEAR", "CMD", "BAD"}
Line == [kind : LineKind, targets : Targets]
Plain(k) == [kind |-> k, targets |-> Zero]
Cmd(t) == [kind |-> "CMD", targets |-> t]
=============================================================================
