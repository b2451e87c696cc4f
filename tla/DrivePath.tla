----------------------------- MODULE DrivePath ------------------------------
(***************************************************************************)
(* The whole way from a /cmd_vel_safe message to the motors: SerialBridge  *)
(* and BaseFirmware, joined by the UART.  Lines arrive in order or not at  *)
(* all, at most Transit ticks after they were written; frames wait in the  *)
(* receive buffer of the host until the reader thread comes round.         *)
(*                                                                         *)
(* The two processors share nothing but the two queues.  What ties them is *)
(* time, one tick being 100 ms (the command timer and the control step):   *)
(* the firmware loop is punctual up to Latency, the bridge owes no         *)
(* punctuality at all except that a line it has decided on is written at   *)
(* most Preempt ticks later.                                               *)
(*                                                                         *)
(* Every line, the request and the drive carry the history of the command  *)
(* that caused them: a cause.                                              *)
(***************************************************************************)
EXTENDS SerialBridge, BaseFirmware

CONSTANTS
  Transit,     \* longest time on the wire, in ticks
  Preempt,     \* longest time between deciding on a line and writing it
  LineDepth,   \* bound: lines in flight
  FrameDepth,  \* frames the receive path holds; one more is dropped
  Turnings,    \* what the encoders may show: which wheels turn
  Faults       \* what may go wrong in a run

ASSUME PathAssumption ==
  /\ Requests = Twists
  /\ Transit \in Nat /\ Preempt \in Nat
  /\ LineDepth \in Nat \ {0} /\ FrameDepth \in Nat \ {0}
  /\ Turnings \subseteq [Wheels -> BOOLEAN] /\ Turnings # {}
  /\ Faults \subseteq {"line", "port", "reader", "imu", "reset", "restart"}

VARIABLES
  toMcu,         \* lines on their way: [line, cause, wire]
  toHost,        \* frames on their way
  pendingAge,    \* since the running callback decided on its lines
  decidedAge,    \* history: age of the command it decided on
  heardVoid,     \* history: since requested was withdrawn, if it still moves
  requestCause,  \* history: the cause of request
  driveCause,    \* history: the cause of drive
  heldAge        \* history: how long the bridge has forbidden motion

wires == <<toMcu, toHost>>
causes == <<decidedAge, heardVoid, requestCause, driveCause>>
vars == <<bridge, firmware, wires, pendingAge, causes, heldAge>>

Valid == -1

\* A command cannot move the base for longer than this ...
Lease == CommandTimeout + Preempt + Transit + DriveBound
\* ... nor longer than this once it is withdrawn ...
Recall == Transit + DriveBound
\* ... nor longer than this once the bridge forbids motion.
HoldBound == Preempt + Transit + DriveBound

\* The cause of whatever does not move the base.
NoCause == [age |-> 0, void |-> Valid]
Cause == [age : 0..(Lease + 1), void : {Valid} \cup 0..(Recall + 1)]

OlderVoid(void) == IF void = Valid THEN Valid ELSE Older(void, Recall + 1)
CauseFor(t, c) == IF Moving(t) THEN c ELSE NoCause
Withdrawn(t, c) == IF Moving(t) /\ c.void = Valid THEN [c EXCEPT !.void = 0]
                   ELSE c
Aged(t, c) ==
  CauseFor(t, [age |-> Older(c.age, Lease + 1), void |-> OlderVoid(c.void)])

\* The bridge as it stands lets no wheel turn.
Forbids == ~armed \/ ~Fresh \/ ~Healthy \/ blocked

\* No motion is under way anywhere between the bridge and the motors.
Still ==
  /\ ~Moving(drive) /\ ~Moving(request)
  /\ \A i \in DOMAIN pending : ~Moving(pending[i].targets)
  /\ \A i \in DOMAIN toMcu : ~Moving(toMcu[i].line.targets)

\* From here on nothing may move until the bridge permits it again; a base
\* that is still already is as good as held for long.
HeldSince(age) == heldAge' = IF ~Forbids' THEN 0
                             ELSE IF Still' THEN HoldBound + 1 ELSE age
Held == HeldSince(heldAge)

PathInit ==
  /\ BridgeInit
  /\ FirmwareInit /\ (imuReady \/ "imu" \in Faults)
  /\ toMcu = <<>> /\ toHost = <<>>
  /\ pendingAge = 0 /\ decidedAge = 0 /\ heardVoid = Valid
  /\ requestCause = NoCause /\ driveCause = NoCause
  /\ heldAge = HoldBound + 1

-----------------------------------------------------------------------------
(* The bridge.                                                             *)

Hear ==
  /\ \E t \in Twists : CmdCallback(t)
  /\ heardVoid' = Valid
  /\ UNCHANGED <<firmware, wires, pendingAge, decidedAge, requestCause,
                 driveCause>>
  /\ Held

Decide ==
  /\ CommandTick
  /\ pendingAge' = 0
  /\ decidedAge' = IF \E i \in DOMAIN pending' : Moving(pending'[i].targets)
                   THEN commandStamp ELSE 0
  /\ UNCHANGED <<firmware, wires, heardVoid, requestCause, driveCause>>
  /\ HeldSince(heldAge)

\* Lock, Arm, ClearMotorFault and a restart withdraw every command heard
\* before.
LinesWithdrawn ==
  [i \in DOMAIN toMcu |->
     [toMcu[i] EXCEPT !.cause = Withdrawn(toMcu[i].line.targets, @)]]

WithdrawCommands(lines) ==
  /\ toMcu' = lines
  /\ heardVoid' = IF Moving(requested') THEN 0 ELSE Valid
  /\ requestCause' = Withdrawn(request, requestCause)
  /\ driveCause' = Withdrawn(drive, driveCause)
  /\ pendingAge' = 0 /\ decidedAge' = 0

Serve ==
  /\ Lock \/ Arm \/ ClearMotorFault
  /\ WithdrawCommands(LinesWithdrawn)
  /\ UNCHANGED <<firmware, toHost>>
  /\ HeldSince(heldAge)

EndArm ==
  /\ FinishArm
  /\ UNCHANGED <<firmware, wires, pendingAge, causes>>
  /\ Held

OnWire(line) ==
  [line |-> line, wire |-> 0,
   cause |-> CauseFor(line.targets, [age |-> decidedAge, void |-> heardVoid])]

Written ==
  /\ pendingAge' = IF pending' = <<>> THEN 0 ELSE pendingAge
  /\ decidedAge' = IF pending' = <<>> THEN 0 ELSE decidedAge

Write ==
  /\ WriteLine
  /\ Len(toMcu) < LineDepth
  /\ toMcu' = Append(toMcu, OnWire(Head(pending)))
  /\ Written
  /\ UNCHANGED <<firmware, toHost, heardVoid, requestCause, driveCause>>
  /\ Held

\* Without a port write_line drops the line; with one, an error closes it.
Drop ==
  /\ WriteFails
  /\ port = "open" => "port" \in Faults
  /\ Written
  /\ UNCHANGED <<firmware, wires, heardVoid, requestCause, driveCause>>
  /\ Held

\* A crash, or a shutdown whose destroy_node still sends a STOP.
Restart ==
  /\ "restart" \in Faults
  /\ BridgeRestart
  /\ \/ WithdrawCommands(LinesWithdrawn)
     \/ /\ port = "open" /\ Len(toMcu) < LineDepth
        /\ WithdrawCommands(Append(LinesWithdrawn, OnWire(Plain("STOP"))))
  /\ UNCHANGED <<firmware, toHost>>
  /\ HeldSince(heldAge)

\* open_serial flushes what was received before.
Open ==
  /\ \/ OpenSerial(TRUE)
     \/ "port" \in Faults /\ OpenSerial(FALSE)
     \/ "reader" \in Faults /\ ReaderDies
  /\ toHost' = IF port' = "open" THEN <<>> ELSE toHost
  /\ UNCHANGED <<firmware, toMcu, pendingAge, causes>>
  /\ Held

Receive ==
  /\ toHost # <<>>
  /\ HandleTelemetryFrame(Head(toHost))
  /\ toHost' = Tail(toHost)
  /\ UNCHANGED <<firmware, toMcu, pendingAge, causes>>
  /\ Held

Disconnect ==
  /\ "port" \in Faults
  /\ ReadFails
  /\ UNCHANGED <<firmware, wires, pendingAge, causes>>
  /\ Held

-----------------------------------------------------------------------------
(* The firmware.                                                           *)

\* readSerial takes the next line.
ReadSerial ==
  /\ toMcu # <<>>
  /\ HandleLine(Head(toMcu).line)
  /\ toMcu' = Tail(toMcu)
  /\ requestCause' = IF request' = Head(toMcu).line.targets
                        /\ Head(toMcu).line.kind = "CMD" /\ fault = "NONE"
                     THEN Head(toMcu).cause
                     ELSE CauseFor(request', requestCause)
  /\ driveCause' = CauseFor(drive', driveCause)
  /\ UNCHANGED <<bridge, toHost, pendingAge, decidedAge, heardVoid>>
  /\ Held

SampleImu ==
  /\ \E sampled \in BOOLEAN : /\ sampled \/ "imu" \in Faults
                              /\ UpdateImu(sampled)
  /\ requestCause' = CauseFor(request', requestCause)
  /\ driveCause' = CauseFor(drive', driveCause)
  /\ UNCHANGED <<bridge, wires, pendingAge, decidedAge, heardVoid>>
  /\ Held

ControlStep ==
  /\ UpdateControl
  /\ requestCause' = CauseFor(request', requestCause)
  /\ driveCause' = CauseFor(drive', requestCause)
  /\ UNCHANGED <<bridge, wires, pendingAge, decidedAge, heardVoid>>
  /\ Held

\* publishTelemetry, into what room there is.
PublishTelemetry ==
  /\ Len(toHost) < FrameDepth
  /\ \E t \in Turnings : toHost' = Append(toHost, [fault |-> fault,
                                                   turning |-> t])
  /\ UNCHANGED <<bridge, firmware, toMcu, pendingAge, causes>>
  /\ Held

\* A reset of the MCU; what was on the wire goes unread.
Reset ==
  /\ "reset" \in Faults
  /\ \E calibrated \in BOOLEAN : /\ calibrated \/ "imu" \in Faults
                                 /\ Setup(calibrated)
  /\ toMcu' = <<>>
  /\ requestCause' = NoCause /\ driveCause' = NoCause
  /\ UNCHANGED <<bridge, toHost, pendingAge, decidedAge, heardVoid>>
  /\ Held

-----------------------------------------------------------------------------
(* The wire, and time.                                                     *)

\* Noise: the next line is lost, or arrives as something unreadable.
Noise ==
  /\ "line" \in Faults
  /\ toMcu # <<>>
  /\ \/ toMcu' = Tail(toMcu)
     \/ toMcu' = [toMcu EXCEPT ![1].line = Plain("BAD"), ![1].cause = NoCause]
  /\ UNCHANGED <<bridge, firmware, toHost, pendingAge, causes>>
  /\ Held

Tick ==
  /\ pending # <<>> => pendingAge < Preempt
  /\ \A i \in DOMAIN toMcu : toMcu[i].wire < Transit
  /\ BridgeTick
  /\ FirmwareTick
  /\ toMcu' = [i \in DOMAIN toMcu |->
                 [toMcu[i] EXCEPT !.wire = @ + 1,
                                  !.cause = Aged(toMcu[i].line.targets, @)]]
  /\ pendingAge' = IF pending = <<>> THEN 0 ELSE pendingAge + 1
  /\ decidedAge' = IF pending = <<>> THEN 0 ELSE decidedAge + 1
  /\ heardVoid' = OlderVoid(heardVoid)
  /\ requestCause' = Aged(request, requestCause)
  /\ driveCause' = Aged(drive, driveCause)
  /\ UNCHANGED toHost
  /\ HeldSince(Older(heldAge, HoldBound + 1))

PathNext ==
  \/ Hear \/ Decide \/ Serve \/ EndArm \/ Write \/ Drop \/ Restart
  \/ Open \/ Receive \/ Disconnect
  \/ ReadSerial \/ SampleImu \/ ControlStep \/ PublishTelemetry \/ Reset
  \/ Noise \/ Tick

PathSpec == PathInit /\ [][PathNext]_vars

-----------------------------------------------------------------------------
TypeOK ==
  /\ BridgeTypeOK
  /\ FirmwareTypeOK
  /\ toMcu \in Seq([line : Line, cause : Cause, wire : 0..Transit])
  /\ toHost \in Seq(Frame)
  /\ pendingAge \in 0..Preempt
  /\ decidedAge \in 0..(CommandTimeout + Preempt)
  /\ heardVoid \in {Valid} \cup 0..(Recall + 1)
  /\ requestCause \in Cause /\ driveCause \in Cause
  /\ heldAge \in 0..(HoldBound + 1)

\* Whatever forbids motion at the bridge (locked motors, an old command,
\* stale telemetry, a reported fault, a blocked wheel) stops the motors within
\* HoldBound, even if every line written since is lost and the executor hangs
\* (command_tick, write_line, updateControl).
HeldBaseStops == heldAge > HoldBound => ~Moving(drive)

\* The drive path keeps the promise of DriveLease.
DriveLeased ==
  INSTANCE DriveLease WITH moving <- Moving(drive),
                           age <- driveCause.age, void <- driveCause.void
LeaseKept == DriveLeased!LeaseSpec
=============================================================================
