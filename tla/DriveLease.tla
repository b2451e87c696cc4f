----------------------------- MODULE DriveLease -----------------------------
(***************************************************************************)
(* What the drive path promises to whoever commands the base, in one page: *)
(* the base only ever moves on loan.                                       *)
(*                                                                         *)
(*   - A command moves the base for at most Lease ticks after it was heard.*)
(*   - A command that is withdrawn (the motors are locked or armed anew, a *)
(*     fault is cleared, the bridge restarts) moves it for at most Recall  *)
(*     ticks more, whatever is lost on the way.                            *)
(*   - A base in motion only ever turns to a more recent command.          *)
(***************************************************************************)
EXTENDS Integers

CONSTANTS
  Lease,   \* in ticks
  Recall   \* in ticks

VARIABLES
  moving,  \* the motors are driven
  age,     \* since the command that drives them was heard
  void     \* since it was withdrawn; Valid while it is not

Valid == -1
Voids == {Valid} \cup 0..Recall

lease == <<moving, age, void>>

LeaseInit == moving = FALSE /\ age = 0 /\ void = Valid

Obey ==
  /\ moving' = TRUE
  /\ age' \in 0..Lease
  /\ void' \in Voids
  /\ moving => age' <= age

Halt == moving' = FALSE /\ age' = 0 /\ void' = Valid

Withdraw ==
  /\ moving /\ void = Valid
  /\ void' = 0
  /\ UNCHANGED <<moving, age>>

Wait ==
  /\ moving
  /\ age < Lease /\ age' = age + 1
  /\ void < Recall
  /\ void' = IF void = Valid THEN Valid ELSE void + 1
  /\ moving' = moving

LeaseNext == Obey \/ Halt \/ Withdraw \/ Wait

LeaseSpec == LeaseInit /\ [][LeaseNext]_lease
=============================================================================
