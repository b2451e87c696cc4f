---------------------------- MODULE BaseFirmware ----------------------------
(***************************************************************************)
(* The ESP32 firmware of the base (robot_base_tb6612_mapping_v3_floor_     *)
(* start.ino): what decides whether the motors are driven.  Its loop() is  *)
(* one thread; each function that loop() calls is one action.  Time passes *)
(* between iterations, in ticks of CONTROL_MS: a control step is due       *)
(* Control ticks after the last one and runs at most Latency ticks late (a *)
(* slow I2C transfer delays the whole loop).                               *)
(*                                                                         *)
(* drive is what the motor drivers are regulated to: Zero when stopMotors  *)
(* has put the TB6612 in standby.  The wheel controller (PI, start boost,  *)
(* re-kick) only shapes the PWM of a wheel that is driven; it is left out. *)
(*                                                                         *)
(* A definition D_Fault is D with a seeded fault: the properties are shown *)
(* to tell it from D.                                                      *)
(***************************************************************************)
EXTENDS WheelTargets

CONSTANTS
  Requests,   \* the wheel targets a CMD line may carry
  Watchdog,   \* COMMAND_WATCHDOG_MS
  Control,    \* CONTROL_MS
  Latency,    \* how late the loop may run a control step that is due
  ImuLimit    \* IMU_FAILURE_LIMIT

ASSUME FirmwareAssumption ==
  /\ Requests \subseteq Targets
  /\ Zero \in Requests
  /\ Watchdog \in Nat \ {0}
  /\ Control \in Nat \ {0}
  /\ Latency \in Nat
  /\ ImuLimit \in Nat \ {0}

VARIABLES
  request,      \* requestedLeftRpm, requestedRightRpm
  drive,        \* what the motor drivers do: Zero is STBY low
  fault,        \* faultCode
  imuReady,     \* imuReady
  imuFailures,  \* consecutiveImuFailures
  commandSeen,  \* commandSeen
  commandAge,   \* now - lastCommandMs, capped at CommandCap
  controlAge    \* now - lastControlMs

firmware == <<request, drive, fault, imuReady, imuFailures, commandSeen,
              commandAge, controlAge>>

\* The longest a target stays driven after the last CMD line.
DriveBound == Watchdog + Control + Latency
CommandCap == DriveBound + 1

-----------------------------------------------------------------------------
\* stopMotors and the two requests set to zero.
StopDrive == request' = Zero /\ drive' = Zero

\* setup: after power-on, a brownout or a reset.  setupImu fails when the
\* sensor does not answer or moves during calibration; the fault it latches
\* stays until the next reset.
Setup(calibrated) ==
  /\ StopDrive
  /\ imuReady' = calibrated
  /\ fault' = IF calibrated THEN "NONE" ELSE "IMU"
  /\ imuFailures' = 0
  /\ commandSeen' = FALSE
  /\ commandAge' = 0
  /\ controlAge' = 0

\* handleLine of STOP: at once, without waiting for the next control step.
HandleStop ==
  /\ StopDrive
  /\ UNCHANGED <<fault, imuReady, imuFailures, commandSeen, commandAge,
                 controlAge>>

\* handleLine of CLEAR: only with both requests below 0.5 rpm and an IMU.
HandleClear ==
  /\ fault' = IF ~Moving(request) /\ imuReady THEN "NONE" ELSE fault
  /\ UNCHANGED <<request, drive, imuReady, imuFailures, commandSeen,
                 commandAge, controlAge>>

\* handleLine of CMD: NACK while a fault is latched.
HandleCmd_Faulted(t) ==
  /\ request' = t
  /\ commandAge' = 0
  /\ commandSeen' = TRUE
  /\ UNCHANGED <<drive, fault, imuReady, imuFailures, controlAge>>

HandleCmd(t) ==
  IF fault # "NONE"
  THEN UNCHANGED firmware
  ELSE /\ request' = t
       /\ commandAge' = 0
       /\ commandSeen' = TRUE
       /\ UNCHANGED <<drive, fault, imuReady, imuFailures, controlAge>>

\* handleLine of what it cannot parse, and readSerial of a line that is too
\* long: NACK, nothing else.
HandleBad == UNCHANGED firmware

HandleLine(line) ==
  \/ line.kind = "STOP" /\ HandleStop
  \/ line.kind = "CLEAR" /\ HandleClear
  \/ line.kind = "CMD" /\ HandleCmd(line.targets)
  \/ line.kind = "BAD" /\ HandleBad

\* updateImu: a successful sample resets the count, ImuLimit failures in a
\* row latch the fault (latchFault ignores a second one).
UpdateImu_Uncapped(sampled) ==
  /\ imuReady
  /\ imuFailures' = IF sampled THEN 0 ELSE imuFailures + 1
  /\ IF imuFailures' >= ImuLimit /\ fault = "NONE"
     THEN fault' = "IMU" /\ StopDrive
     ELSE UNCHANGED <<fault, request, drive>>
  /\ UNCHANGED <<imuReady, commandSeen, commandAge, controlAge>>

UpdateImu(sampled) ==
  /\ imuReady
  /\ imuFailures' = IF sampled THEN 0
                    ELSE IF imuFailures < ImuLimit THEN imuFailures + 1
                    ELSE imuFailures
  /\ IF imuFailures' >= ImuLimit /\ fault = "NONE"
     THEN fault' = "IMU" /\ StopDrive
     ELSE UNCHANGED <<fault, request, drive>>
  /\ UNCHANGED <<imuReady, commandSeen, commandAge, controlAge>>

\* updateControl: the watchdog first, then the fault, then the request.
UpdateControl_Unwatched ==
  /\ controlAge >= Control
  /\ controlAge' = 0
  /\ drive' = IF fault # "NONE" \/ ~imuReady \/ ~Moving(request)
              THEN Zero ELSE request
  /\ UNCHANGED <<request, fault, imuReady, imuFailures, commandSeen,
                 commandAge>>

\* The watchdog after the control of the wheels.
UpdateControl_WatchedLate ==
  LET expired == commandSeen /\ commandAge > Watchdog
  IN  /\ controlAge >= Control
      /\ controlAge' = 0
      /\ request' = IF expired THEN Zero ELSE request
      /\ drive' = IF fault # "NONE" \/ ~imuReady \/ ~Moving(request)
                  THEN Zero ELSE request
      /\ UNCHANGED <<fault, imuReady, imuFailures, commandSeen, commandAge>>

UpdateControl ==
  LET expired == commandSeen /\ commandAge > Watchdog
      asked == IF expired THEN Zero ELSE request
  IN  /\ controlAge >= Control
      /\ controlAge' = 0
      /\ request' = asked
      /\ drive' = IF fault # "NONE" \/ ~imuReady \/ ~Moving(asked)
                  THEN Zero ELSE asked
      /\ UNCHANGED <<fault, imuReady, imuFailures, commandSeen, commandAge>>

\* A tick passes; the loop does not let a control step wait any longer.
FirmwareTick ==
  /\ controlAge < Control + Latency
  /\ controlAge' = controlAge + 1
  /\ commandAge' = IF commandAge < CommandCap THEN commandAge + 1
                   ELSE commandAge
  /\ UNCHANGED <<request, drive, fault, imuReady, imuFailures, commandSeen>>

-----------------------------------------------------------------------------
(* The firmware alone, under a host that writes anything at any time.      *)

FirmwareInit ==
  /\ request = Zero
  /\ drive = Zero
  /\ imuReady \in BOOLEAN
  /\ fault = IF imuReady THEN "NONE" ELSE "IMU"
  /\ imuFailures = 0
  /\ commandSeen = FALSE
  /\ commandAge = 0
  /\ controlAge = 0

AnyLine ==
  {Plain("STOP"), Plain("CLEAR"), Plain("BAD")} \cup {Cmd(t) : t \in Requests}

FirmwareNext ==
  \/ \E line \in AnyLine : HandleLine(line)
  \/ \E sampled \in BOOLEAN : UpdateImu(sampled)
  \/ UpdateControl
  \/ \E calibrated \in BOOLEAN : Setup(calibrated)
  \/ FirmwareTick

FirmwareSpec == FirmwareInit /\ [][FirmwareNext]_firmware

-----------------------------------------------------------------------------
FirmwareTypeOK ==
  /\ request \in Requests
  /\ drive \in Requests
  /\ fault \in {"NONE", "IMU"}
  /\ imuReady \in BOOLEAN
  /\ imuFailures \in 0..ImuLimit
  /\ commandSeen \in BOOLEAN
  /\ commandAge \in 0..CommandCap
  /\ controlAge \in 0..(Control + Latency)

\* A latched fault holds the motors, and no request survives it that a later
\* CLEAR would set in motion again (latchFault, handleLine, updateControl).
FaultHoldsDrive ==
  fault # "NONE" => drive = Zero /\ request = Zero

\* The dead man of the firmware: whatever the host does, crashes and lost
\* lines included, a wheel target is driven at most DriveBound ticks after
\* the last CMD line that was accepted.
WatchdogBound ==
  Moving(drive) => commandSeen /\ commandAge <= DriveBound
=============================================================================
