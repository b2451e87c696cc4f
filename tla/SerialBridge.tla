---------------------------- MODULE SerialBridge ----------------------------
(***************************************************************************)
(* The serial bridge node (amr_base_driver/serial_bridge.py): it turns the *)
(* last /cmd_vel_safe message into UART lines for the ESP32, guarded by    *)
(* the arming switch, the freshness of the command, the health of the      *)
(* telemetry and the stall guard.                                          *)
(*                                                                         *)
(* Two threads.  The ROS executor runs one callback at a time; a callback  *)
(* that writes to the UART is split where the reader thread can get in: it *)
(* computes its lines (pending), writes them one by one, and, for arming,  *)
(* checks the telemetry only after the STOP is out.  The reader thread     *)
(* opens the port, receives frames and closes the port on an error.        *)
(*                                                                         *)
(* Time passes in ticks of the command timer; an age is the time since a   *)
(* time.monotonic() stamp, capped where no comparison tells more apart.    *)
(*                                                                         *)
(* A definition D_Fault is D with a seeded fault: the properties are shown *)
(* to tell it from D.                                                      *)
(***************************************************************************)
EXTENDS WheelTargets, Sequences

CONSTANTS
  Twists,           \* the wheel targets a /cmd_vel_safe message asks for
  CommandTimeout,   \* cmd_vel_timeout: a command is fresh up to this age
  TelemetryTimeout, \* 0.3 s: telemetry is stale from this age on
  CommandPeriod,    \* period of the command_tick timer
  ReopenDelay,      \* 2 s between two attempts to open the port
  StallGuard,       \* stall_guard_enabled
  StallTimeout,     \* stall_guard_timeout_seconds
  EnableMotors      \* enable_motors

ASSUME BridgeAssumption ==
  /\ Twists \subseteq Targets
  /\ Zero \in Twists
  /\ CommandTimeout \in Nat
  /\ TelemetryTimeout \in Nat \ {0}
  /\ CommandPeriod \in Nat \ {0}
  /\ ReopenDelay \in Nat
  /\ StallGuard \in BOOLEAN
  /\ StallTimeout \in Nat \ {0}
  /\ EnableMotors \in BOOLEAN

NoStall == -1          \* stall_candidate_started is None
Frame == [fault : {"NONE", "IMU"}, turning : [Wheels -> BOOLEAN]]

VARIABLES
  armed,          \* motors_enabled
  requested,      \* requested_linear and requested_angular, as wheel targets
  commandStamp,   \* age of last_cmd_monotonic
  telemetryStamp, \* age of last_telemetry_monotonic
  mcuFault,       \* mcu_fault
  turning,        \* measured_left/right_rpm: which wheels turn
  port,           \* serial_port: "open" or "closed"
  openStamp,      \* age of last_open_attempt
  readerAlive,    \* the reader thread has not died of an exception
  blocked,        \* drive_blocked
  blockedTargets, \* blocked_target_rpm
  stallStamp,     \* age of stall_candidate_started, per wheel
  tickStamp,      \* time since command_tick last ran
  pending,        \* lines the running callback has yet to write
  arming          \* set_motors_enabled(true) has yet to check the telemetry

stall == <<blocked, blockedTargets, stallStamp>>
telemetry == <<telemetryStamp, mcuFault, turning>>
reader == <<port, openStamp, readerAlive>>
bridge == <<armed, requested, commandStamp, telemetry, reader, stall,
            tickStamp, pending, arming>>

CommandNever == CommandTimeout + 1
TelemetryNever == TelemetryTimeout + 1

BridgeInit ==
  /\ armed = EnableMotors
  /\ requested = Zero
  /\ commandStamp = CommandNever
  /\ telemetryStamp = TelemetryNever
  /\ mcuFault = "NONE"
  /\ turning = [w \in Wheels |-> FALSE]
  /\ port = "closed"
  /\ openStamp = ReopenDelay
  /\ readerAlive = TRUE
  /\ blocked = FALSE
  /\ blockedTargets = Zero
  /\ stallStamp = [w \in Wheels |-> NoStall]
  /\ tickStamp = 0
  /\ pending = <<>>
  /\ arming = FALSE

Idle == pending = <<>> /\ ~arming

-----------------------------------------------------------------------------
(* Callbacks of the ROS executor.                                          *)

\* cmd_callback.
CmdCallback(t) ==
  /\ Idle
  /\ requested' = t
  /\ commandStamp' = 0
  /\ UNCHANGED <<armed, telemetry, reader, stall, tickStamp, pending, arming>>

\* The first lines of set_motors_enabled and clear_motor_fault: nothing that
\* was asked for before moves the base any more.
ForgetCommand_Keeps == UNCHANGED <<requested, commandStamp>>

ForgetCommand ==
  /\ requested' = Zero
  /\ commandStamp' = CommandNever

\* clear_drive_blocked.
ClearDriveBlocked ==
  /\ blocked' = FALSE
  /\ blockedTargets' = Zero
  /\ stallStamp' = [w \in Wheels |-> NoStall]

\* set_motors_enabled(false).
Lock ==
  /\ Idle
  /\ ForgetCommand
  /\ ClearDriveBlocked
  /\ armed' = FALSE
  /\ pending' = <<Plain("STOP")>>
  /\ UNCHANGED <<telemetry, reader, tickStamp, arming>>

\* set_motors_enabled(true), up to its STOP ...
Arm ==
  /\ Idle
  /\ ForgetCommand
  /\ ClearDriveBlocked
  /\ pending' = <<Plain("STOP")>>
  /\ arming' = TRUE
  /\ UNCHANGED <<armed, telemetry, reader, tickStamp>>

\* ... and the blockers it looks at afterwards.
FinishArm ==
  /\ arming
  /\ pending = <<>>
  /\ armed' = (/\ port = "open"
               /\ telemetryStamp <= TelemetryTimeout
               /\ mcuFault = "NONE")
  /\ arming' = FALSE
  /\ UNCHANGED <<requested, commandStamp, telemetry, reader, stall, tickStamp,
                 pending>>

\* clear_motor_fault.
ClearMotorFault ==
  /\ Idle
  /\ ForgetCommand
  /\ ClearDriveBlocked
  /\ pending' = <<Plain("STOP"), Plain("CLEAR")>>
  /\ UNCHANGED <<armed, telemetry, reader, tickStamp, arming>>

\* command_tick: fresh and healthy are read here, the line is written later.
Fresh == commandStamp <= CommandTimeout
Healthy == telemetryStamp < TelemetryTimeout /\ mcuFault = "NONE"

\* What the base may do now, the blocked direction aside.
WheelTarget_Stale == IF armed THEN requested ELSE Zero
WheelTarget == IF armed /\ Fresh THEN requested ELSE Zero

\* A wheel that does not turn under a fast target starts its stall clock and
\* keeps it; any other wheel resets it (update_stall_guard, first part).
StallClock(t, clock) ==
  [w \in Wheels |-> IF Fast(t, w) /\ ~turning[w]
                    THEN IF clock[w] = NoStall THEN 0 ELSE clock[w]
                    ELSE NoStall]

Stalled(t, clock) ==
  \E w \in Wheels : Fast(t, w) /\ ~turning[w] /\ clock[w] >= StallTimeout

\* update_stall_guard: what it leaves behind and the line that follows.
UpdateStallGuard(t, clock) ==
  IF StallGuard
  THEN /\ stallStamp' = StallClock(t, clock)
       /\ IF Stalled(t, clock)
          THEN /\ blocked' = TRUE
               /\ blockedTargets' = t
               /\ pending' = <<Plain("STOP")>>
          ELSE /\ blocked' = FALSE
               /\ blockedTargets' = IF blocked THEN Zero ELSE blockedTargets
               /\ pending' = <<Cmd(t)>>
  ELSE /\ stallStamp' = [w \in Wheels |-> NoStall]
       /\ pending' = <<Cmd(t)>>
       /\ UNCHANGED <<blocked, blockedTargets>>

StopTick_Commands == pending' = <<Cmd(WheelTarget)>> /\ UNCHANGED stall
StopTick == pending' = <<Plain("STOP")>> /\ UNCHANGED stall

HoldTick == blocked /\ Moving(WheelTarget)
                    /\ ~Reverses(blockedTargets, WheelTarget)

CommandTick_Unhealthy ==
  /\ Idle
  /\ tickStamp >= CommandPeriod
  /\ tickStamp' = 0
  /\ IF mcuFault # "NONE" \/ HoldTick
     THEN StopTick
     ELSE UpdateStallGuard(WheelTarget,
            IF blocked THEN [w \in Wheels |-> NoStall] ELSE stallStamp)
  /\ UNCHANGED <<armed, requested, commandStamp, telemetry, reader, arming>>

CommandTick ==
  /\ Idle
  /\ tickStamp >= CommandPeriod
  /\ tickStamp' = 0
  /\ IF ~Healthy \/ HoldTick
     THEN StopTick
     ELSE UpdateStallGuard(WheelTarget,
            IF blocked THEN [w \in Wheels |-> NoStall] ELSE stallStamp)
  /\ UNCHANGED <<armed, requested, commandStamp, telemetry, reader, arming>>

\* write_line: a line that the port takes, or one that it does not: an error
\* closes the port, and without a port the line is dropped without a word.
WriteLine ==
  /\ pending # <<>>
  /\ port = "open"
  /\ pending' = Tail(pending)
  /\ UNCHANGED <<armed, requested, commandStamp, telemetry, reader, stall,
                 tickStamp, arming>>

WriteFails ==
  /\ pending # <<>>
  /\ port' = "closed"
  /\ pending' = Tail(pending)
  /\ UNCHANGED <<armed, requested, commandStamp, telemetry, openStamp,
                 readerAlive, stall, tickStamp, arming>>

\* The process dies, whatever it was doing, and systemd starts it anew.
BridgeRestart ==
  /\ armed' = EnableMotors
  /\ requested' = Zero
  /\ commandStamp' = CommandNever
  /\ telemetryStamp' = TelemetryNever
  /\ mcuFault' = "NONE"
  /\ turning' = [w \in Wheels |-> FALSE]
  /\ port' = "closed"
  /\ openStamp' = ReopenDelay
  /\ readerAlive' = TRUE
  /\ ClearDriveBlocked
  /\ tickStamp' = 0
  /\ pending' = <<>>
  /\ arming' = FALSE

-----------------------------------------------------------------------------
(* The reader thread.                                                      *)

ReaderMayOpen == readerAlive /\ port = "closed" /\ openStamp >= ReopenDelay

\* open_serial: it succeeds, or fails with an OSError and waits.
OpenSerial(opened) ==
  /\ ReaderMayOpen
  /\ openStamp' = 0
  /\ port' = IF opened THEN "open" ELSE "closed"
  /\ UNCHANGED <<armed, requested, commandStamp, telemetry, readerAlive,
                 stall, tickStamp, pending, arming>>

\* open_serial when tcgetattr or tcsetattr fails: termios.error is not an
\* OSError, no handler catches it, and the thread ends.
ReaderDies ==
  /\ ReaderMayOpen
  /\ openStamp' = 0
  /\ readerAlive' = FALSE
  /\ UNCHANGED <<armed, requested, commandStamp, telemetry, port, stall,
                 tickStamp, pending, arming>>

\* close_serial by the reader: a read error, or end of file.
ReadFails ==
  /\ readerAlive
  /\ port = "open"
  /\ port' = "closed"
  /\ UNCHANGED <<armed, requested, commandStamp, telemetry, openStamp,
                 readerAlive, stall, tickStamp, pending, arming>>

\* handle_telemetry_frame: the stamp is the time of the reception.
HandleTelemetryFrame(frame) ==
  /\ readerAlive
  /\ port = "open"
  /\ telemetryStamp' = 0
  /\ mcuFault' = frame.fault
  /\ turning' = frame.turning
  /\ UNCHANGED <<armed, requested, commandStamp, reader, stall, tickStamp,
                 pending, arming>>

-----------------------------------------------------------------------------
Older(age, cap) == IF age < cap THEN age + 1 ELSE age

BridgeTick ==
  /\ commandStamp' = Older(commandStamp, CommandNever)
  /\ telemetryStamp' = Older(telemetryStamp, TelemetryNever)
  /\ openStamp' = Older(openStamp, ReopenDelay)
  /\ tickStamp' = Older(tickStamp, CommandPeriod)
  /\ stallStamp' = [w \in Wheels |->
                      IF stallStamp[w] = NoStall THEN NoStall
                      ELSE Older(stallStamp[w], StallTimeout)]
  /\ UNCHANGED <<armed, requested, mcuFault, turning, port, readerAlive,
                 blocked, blockedTargets, pending, arming>>

BridgeTypeOK ==
  /\ armed \in BOOLEAN
  /\ requested \in Twists
  /\ commandStamp \in 0..CommandNever
  /\ telemetryStamp \in 0..TelemetryNever
  /\ mcuFault \in {"NONE", "IMU"}
  /\ turning \in [Wheels -> BOOLEAN]
  /\ port \in {"open", "closed"}
  /\ openStamp \in 0..ReopenDelay
  /\ readerAlive \in BOOLEAN
  /\ blocked \in BOOLEAN
  /\ blockedTargets \in Twists
  /\ stallStamp \in [Wheels -> {NoStall} \cup 0..StallTimeout]
  /\ tickStamp \in 0..CommandPeriod
  /\ pending \in Seq(Line)
  /\ arming \in BOOLEAN
=============================================================================
