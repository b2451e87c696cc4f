-------------------------- MODULE DrivePathProofs ---------------------------
(***************************************************************************)
(* Proofs about the drive path, for every value of its constants: what the *)
(* firmware guarantees alone, under a host that writes anything at any     *)
(* time, and that it is never used otherwise in the whole path.            *)
(***************************************************************************)
EXTENDS DrivePath, TLAPS

-----------------------------------------------------------------------------
(* The firmware alone.                                                     *)

\* What makes WatchdogBound inductive: the last control step saw a command
\* no older than Watchdog, and there is no request without a command.
DriveIsRecent ==
  /\ Moving(request) => commandSeen
  /\ Moving(drive) => commandSeen /\ commandAge <= Watchdog + controlAge

\* The inductive invariant of the firmware.
FirmwareInv == FirmwareTypeOK /\ FaultHoldsDrive /\ DriveIsRecent

\* Zero asks no wheel to turn.
LEMMA ZeroIsStill == ~Moving(Zero)
  BY DEF Moving, Zero

\* setup, and the initial state, which is that of setup.
LEMMA FirmwareStarts == FirmwareInit => FirmwareInv
  <1> SUFFICES ASSUME FirmwareInit PROVE FirmwareInv
      OBVIOUS
  <1> USE DEF FirmwareInit
  <1>1. FirmwareTypeOK
    <2>1. fault \in {"NONE", "IMU"}
        OBVIOUS
    <2>2. imuFailures \in 0..ImuLimit /\ commandAge \in 0..CommandCap
          /\ controlAge \in 0..(Control + Latency)
        BY FirmwareAssumption DEF CommandCap, DriveBound
    <2> QED
        BY <2>1, <2>2, FirmwareAssumption DEF FirmwareTypeOK
  <1>2. FaultHoldsDrive
      BY DEF FaultHoldsDrive
  <1>3. DriveIsRecent
      BY ZeroIsStill DEF DriveIsRecent
  <1> QED
      BY <1>1, <1>2, <1>3 DEF FirmwareInv

\* A line of the host, whatever it is.
LEMMA LineKeepsFirmware ==
  ASSUME FirmwareInv, NEW line \in AnyLine, HandleLine(line)
  PROVE  FirmwareInv'
  <1> USE DEF FirmwareInv
  <1>1. CASE line.kind = "STOP" /\ HandleStop
    <2>1. FirmwareTypeOK'
        BY <1>1, FirmwareAssumption
        DEF HandleStop, StopDrive, FirmwareTypeOK, CommandCap, DriveBound
    <2>2. FaultHoldsDrive' /\ DriveIsRecent'
        BY <1>1, ZeroIsStill
        DEF HandleStop, StopDrive, FaultHoldsDrive, DriveIsRecent
    <2> QED
        BY <2>1, <2>2
  <1>2. CASE line.kind = "CLEAR" /\ HandleClear
    <2>1. FirmwareTypeOK'
        BY <1>2 DEF HandleClear, FirmwareTypeOK, CommandCap, DriveBound
    <2>2. FaultHoldsDrive' /\ DriveIsRecent'
        BY <1>2 DEF HandleClear, FaultHoldsDrive, DriveIsRecent
    <2> QED
        BY <2>1, <2>2
  <1>3. CASE line.kind = "CMD" /\ HandleCmd(line.targets)
    <2>1. line.targets \in Requests
        BY <1>3 DEF AnyLine, Plain, Cmd
    <2>2. CASE fault # "NONE"
        BY <1>3, <2>2
        DEF HandleCmd, firmware, FirmwareTypeOK, FaultHoldsDrive,
            DriveIsRecent, CommandCap, DriveBound
    <2>3. CASE fault = "NONE"
      <3>1. FirmwareTypeOK'
          BY <1>3, <2>1, <2>3, FirmwareAssumption
          DEF HandleCmd, FirmwareTypeOK, CommandCap, DriveBound
      <3>2. FaultHoldsDrive'
          BY <1>3, <2>3 DEF HandleCmd, FaultHoldsDrive
      <3>3. DriveIsRecent'
          BY <1>3, <2>3, FirmwareAssumption
          DEF HandleCmd, DriveIsRecent, FirmwareTypeOK
      <3> QED
          BY <3>1, <3>2, <3>3
    <2> QED
        BY <2>2, <2>3
  <1>4. CASE line.kind = "BAD" /\ HandleBad
      BY <1>4
      DEF HandleBad, firmware, FirmwareTypeOK, FaultHoldsDrive, DriveIsRecent,
          CommandCap, DriveBound
  <1> QED
      BY <1>1, <1>2, <1>3, <1>4 DEF HandleLine

\* An IMU sample, good or bad.
LEMMA SampleKeepsFirmware ==
  ASSUME FirmwareInv, NEW sampled \in BOOLEAN, UpdateImu(sampled)
  PROVE  FirmwareInv'
  <1> USE DEF FirmwareInv, UpdateImu
  <1>1. imuFailures' \in 0..ImuLimit
      BY FirmwareAssumption DEF FirmwareTypeOK
  <1>2. CASE imuFailures' >= ImuLimit /\ fault = "NONE"
    <2>1. fault' = "IMU" /\ request' = Zero /\ drive' = Zero
        BY <1>2 DEF StopDrive
    <2>2. FirmwareTypeOK'
        BY <1>1, <2>1, FirmwareAssumption
        DEF FirmwareTypeOK, CommandCap, DriveBound
    <2>3. FaultHoldsDrive' /\ DriveIsRecent'
        BY <2>1, ZeroIsStill DEF FaultHoldsDrive, DriveIsRecent
    <2> QED
        BY <2>2, <2>3
  <1>3. CASE ~(imuFailures' >= ImuLimit /\ fault = "NONE")
    <2>1. UNCHANGED <<fault, request, drive>>
        BY <1>3
    <2>2. FirmwareTypeOK'
        BY <1>1, <2>1 DEF FirmwareTypeOK, CommandCap, DriveBound
    <2>3. FaultHoldsDrive' /\ DriveIsRecent'
        BY <2>1 DEF FaultHoldsDrive, DriveIsRecent
    <2> QED
        BY <2>2, <2>3
  <1> QED
      BY <1>2, <1>3

\* The control step: the only one that starts the motors, and only on a
\* command that the watchdog has found fresh.
LEMMA ControlKeepsFirmware ==
  ASSUME FirmwareInv, UpdateControl
  PROVE  FirmwareInv'
  <1> USE DEF FirmwareInv
  <1> DEFINE expired == commandSeen /\ commandAge > Watchdog
  <1> DEFINE asked == IF expired THEN Zero ELSE request
  <1>1. /\ controlAge' = 0
        /\ request' = asked
        /\ drive' = IF fault # "NONE" \/ ~imuReady \/ ~Moving(asked)
                    THEN Zero ELSE asked
        /\ UNCHANGED <<fault, imuReady, imuFailures, commandSeen, commandAge>>
      BY DEF UpdateControl
  <1>2. asked \in Requests
      BY FirmwareAssumption DEF FirmwareTypeOK
  <1>3. FirmwareTypeOK'
    <2> HIDE DEF asked
    <2> QED
      BY <1>1, <1>2, FirmwareAssumption
      DEF FirmwareTypeOK, CommandCap, DriveBound
  <1>4. FaultHoldsDrive'
      BY <1>1 DEF FaultHoldsDrive
  <1>5. DriveIsRecent'
    <2>1. Moving(asked) => Moving(request) /\ ~expired
        BY ZeroIsStill
    <2>2. Moving(drive') => Moving(asked)
        BY <1>1, ZeroIsStill
    <2>3. Moving(asked) => commandSeen /\ commandAge <= Watchdog
        BY <2>1, FirmwareAssumption DEF FirmwareTypeOK, DriveIsRecent,
           CommandCap, DriveBound
    <2>4. Watchdog + controlAge' = Watchdog
        BY <1>1, FirmwareAssumption
    <2> HIDE DEF asked, expired
    <2> QED
        BY <1>1, <2>1, <2>2, <2>3, <2>4 DEF DriveIsRecent
  <1> QED
      BY <1>3, <1>4, <1>5

\* A tick: the command and the last control step grow older together.
LEMMA TickKeepsFirmware ==
  ASSUME FirmwareInv, FirmwareTick
  PROVE  FirmwareInv'
  <1> USE DEF FirmwareInv, FirmwareTick
  <1>1. FirmwareTypeOK'
      BY FirmwareAssumption DEF FirmwareTypeOK, CommandCap, DriveBound
  <1>2. FaultHoldsDrive'
      BY DEF FaultHoldsDrive
  <1>3. DriveIsRecent'
      BY FirmwareAssumption
      DEF FirmwareTypeOK, DriveIsRecent, CommandCap, DriveBound
  <1> QED
      BY <1>1, <1>2, <1>3

\* A reset.
LEMMA SetupKeepsFirmware ==
  ASSUME FirmwareInv, NEW calibrated \in BOOLEAN, Setup(calibrated)
  PROVE  FirmwareInv'
  <1> USE DEF Setup, StopDrive
  <1>1. FirmwareTypeOK'
    <2>1. fault' \in {"NONE", "IMU"}
        OBVIOUS
    <2>2. imuFailures' \in 0..ImuLimit /\ commandAge' \in 0..CommandCap
          /\ controlAge' \in 0..(Control + Latency)
        BY FirmwareAssumption DEF CommandCap, DriveBound
    <2> QED
        BY <2>1, <2>2, FirmwareAssumption DEF FirmwareTypeOK
  <1>2. FaultHoldsDrive'
      BY DEF FaultHoldsDrive
  <1>3. DriveIsRecent'
      BY ZeroIsStill DEF DriveIsRecent
  <1> QED
      BY <1>1, <1>2, <1>3 DEF FirmwareInv

\* Every step of the firmware keeps FirmwareInv, and so does a step that
\* leaves it alone.
LEMMA FirmwareStep ==
  ASSUME FirmwareInv, [FirmwareNext]_firmware
  PROVE  FirmwareInv'
  <1>1. CASE UNCHANGED firmware
      BY <1>1
      DEF firmware, FirmwareInv, FirmwareTypeOK, FaultHoldsDrive,
          DriveIsRecent, CommandCap, DriveBound
  <1>2. CASE \E line \in AnyLine : HandleLine(line)
      BY <1>2, LineKeepsFirmware
  <1>3. CASE \E sampled \in BOOLEAN : UpdateImu(sampled)
      BY <1>3, SampleKeepsFirmware
  <1>4. CASE UpdateControl
      BY <1>4, ControlKeepsFirmware
  <1>5. CASE \E calibrated \in BOOLEAN : Setup(calibrated)
      BY <1>5, SetupKeepsFirmware
  <1>6. CASE FirmwareTick
      BY <1>6, TickKeepsFirmware
  <1> QED
      BY <1>1, <1>2, <1>3, <1>4, <1>5, <1>6 DEF FirmwareNext

\* The drive bound follows: a control step is never later than Latency.
LEMMA FirmwareInvBounds == FirmwareInv => WatchdogBound
  BY FirmwareAssumption
  DEF FirmwareInv, FirmwareTypeOK, DriveIsRecent, WatchdogBound, DriveBound,
      CommandCap

\* FirmwareInv is an invariant of the firmware alone.
THEOREM FirmwareCorrect ==
  FirmwareSpec => []FirmwareInv
  <1> QED
      BY FirmwareStarts, FirmwareStep, PTL DEF FirmwareSpec

-----------------------------------------------------------------------------
(* The firmware in the drive path.                                         *)

WireLine == [line : AnyLine, cause : [age : Nat, void : Int], wire : Nat]

\* What reaches handleLine is a line of AnyLine: the bridge sends no other.
Requested == requested \in Requests /\ commandStamp \in Nat
Deciding ==
  pending \in Seq(AnyLine) /\ decidedAge \in Nat /\ heardVoid \in Int
Travelling == toMcu \in Seq(WireLine)
HostLines == Requested /\ Deciding /\ Travelling

LEMMA LinesOfTheHost ==
  /\ Plain("STOP") \in AnyLine /\ Plain("CLEAR") \in AnyLine
  /\ Plain("BAD") \in AnyLine
  /\ \A t \in Requests : Cmd(t) \in AnyLine
  BY DEF AnyLine

LEMMA TailsOfLines ==
  ASSUME NEW S, NEW q \in Seq(S), q # <<>>
  PROVE  Head(q) \in S /\ Tail(q) \in Seq(S)
  OBVIOUS

LEMMA ShortSequences ==
  ASSUME NEW S, NEW a \in S, NEW b \in S
  PROVE  <<>> \in Seq(S) /\ <<a>> \in Seq(S) /\ <<a, b>> \in Seq(S)
  OBVIOUS

\* A sequence changed element by element.
LEMMA LinesOneByOne ==
  ASSUME NEW S, NEW q \in Seq(S), NEW r,
         r = [i \in DOMAIN q |-> r[i]], \A i \in DOMAIN q : r[i] \in S
  PROVE  r \in Seq(S)
  <1>1. DOMAIN q = 1..Len(q) /\ Len(q) \in Nat
      OBVIOUS
  <1>2. r \in [1..Len(q) -> S]
      BY <1>1
  <1> QED
      BY <1>1, <1>2

LEMMA CausesOfLines ==
  ASSUME NEW t, NEW c \in [age : Nat, void : Int]
  PROVE  /\ CauseFor(t, c) \in [age : Nat, void : Int]
         /\ Withdrawn(t, c) \in [age : Nat, void : Int]
         /\ Aged(t, c) \in [age : Nat, void : Int]
  <1>1. NoCause \in [age : Nat, void : Int]
      BY DEF NoCause, Valid
  <1>2. CauseFor(t, c) \in [age : Nat, void : Int]
      BY <1>1 DEF CauseFor
  <1>3. Withdrawn(t, c) \in [age : Nat, void : Int]
      BY DEF Withdrawn
  <1>4. [age |-> Older(c.age, Lease + 1), void |-> OlderVoid(c.void)]
          \in [age : Nat, void : Int]
      BY DEF Older, OlderVoid, Valid
  <1>5. Aged(t, c) \in [age : Nat, void : Int]
      BY <1>1, <1>4 DEF Aged, CauseFor
  <1> QED
      BY <1>2, <1>3, <1>5

\* Commands withdrawn on the wire, and time passing there.
LEMMA WithdrawnLines ==
  ASSUME Travelling
  PROVE  LinesWithdrawn \in Seq(WireLine)
  <1> DEFINE r == LinesWithdrawn
  <1>1. r = [i \in DOMAIN toMcu |-> r[i]]
      BY DEF LinesWithdrawn
  <1>2. ASSUME NEW i \in DOMAIN toMcu PROVE r[i] \in WireLine
    <2>1. toMcu[i] \in WireLine
        BY DEF Travelling
    <2>2. Withdrawn(toMcu[i].line.targets, toMcu[i].cause)
            \in [age : Nat, void : Int]
        BY <2>1, CausesOfLines DEF WireLine
    <2>3. r[i] = [toMcu[i] EXCEPT !.cause =
                    Withdrawn(toMcu[i].line.targets, toMcu[i].cause)]
        BY DEF LinesWithdrawn
    <2> QED
        BY <2>1, <2>2, <2>3 DEF WireLine
  <1> QED
    <2> HIDE DEF r
    <2>1. r \in Seq(WireLine)
        BY <1>1, <1>2, LinesOneByOne DEF Travelling
    <2> QED
        BY <2>1 DEF r

LEMMA OlderLines ==
  ASSUME Travelling, Tick
  PROVE  Travelling'
  <1>1. toMcu' = [i \in DOMAIN toMcu |-> toMcu'[i]]
      BY DEF Tick
  <1>2. ASSUME NEW i \in DOMAIN toMcu PROVE toMcu'[i] \in WireLine
    <2>1. toMcu[i] \in WireLine
        BY DEF Travelling
    <2>2. Aged(toMcu[i].line.targets, toMcu[i].cause) \in [age : Nat, void : Int]
        BY <2>1, CausesOfLines DEF WireLine
    <2>3. toMcu[i].wire + 1 \in Nat
        BY <2>1 DEF WireLine
    <2> DEFINE c == Aged(toMcu[i].line.targets, toMcu[i].cause)
               n == toMcu[i].wire + 1
    <2>4. toMcu'[i] = [toMcu[i] EXCEPT !.wire = n, !.cause = c]
        BY DEF Tick
    <2> HIDE DEF c, n
    <2>5. c \in [age : Nat, void : Int] /\ n \in Nat
        BY <2>2, <2>3 DEF c, n
    <2> QED
        BY <2>1, <2>4, <2>5 DEF WireLine
  <1> QED
      BY <1>1, <1>2, LinesOneByOne DEF Travelling

\* Every step of the drive path keeps HostLines.
LEMMA HostLinesStep ==
  ASSUME HostLines, PathNext
  PROVE  HostLines'
  <1>1. CASE Hear
    <2>1. Requested'
        BY <1>1, PathAssumption DEF Hear, CmdCallback, Requested
    <2>2. Deciding' /\ Travelling'
        BY <1>1
        DEF Hear, CmdCallback, HostLines, Deciding, Travelling, wires, Valid
    <2> QED
        BY <2>1, <2>2 DEF HostLines
  <1>2. CASE Decide
    <2>1. Requested' /\ Travelling'
        BY <1>2 DEF Decide, CommandTick, HostLines, Requested, Travelling, wires
    <2>2. decidedAge' \in Nat /\ heardVoid' \in Int
        BY <1>2 DEF Decide, HostLines, Requested, Deciding
    <2>3. Cmd(WheelTarget) \in AnyLine
        BY LinesOfTheHost, FirmwareAssumption
        DEF WheelTarget, HostLines, Requested
    <2>4. pending' = <<Plain("STOP")>> \/ pending' = <<Cmd(WheelTarget)>>
        BY <1>2 DEF Decide, CommandTick, StopTick, UpdateStallGuard
    <2>5. pending' \in Seq(AnyLine)
        BY <2>3, <2>4, LinesOfTheHost, ShortSequences
    <2> QED
        BY <2>1, <2>2, <2>5 DEF HostLines, Deciding
  <1>3. CASE Serve
    <2>1. Requested'
        BY <1>3, FirmwareAssumption, BridgeAssumption
        DEF Serve, Lock, Arm, ClearMotorFault, ForgetCommand, CommandNever,
            Requested
    <2>2. pending' \in Seq(AnyLine)
        BY <1>3, LinesOfTheHost, ShortSequences DEF Serve, Lock, Arm, ClearMotorFault
    <2>3. Deciding'
        BY <1>3, <2>2 DEF Serve, WithdrawCommands, Deciding, Valid
    <2>4. Travelling'
        BY <1>3, WithdrawnLines
        DEF Serve, WithdrawCommands, HostLines, Travelling
    <2> QED
        BY <2>1, <2>3, <2>4 DEF HostLines
  <1>4. CASE EndArm
      BY <1>4
      DEF EndArm, FinishArm, HostLines, Requested, Deciding, Travelling, wires,
          causes
  <1>5. CASE Write
    <2> USE DEF HostLines
    <2>1. Requested'
        BY <1>5 DEF Write, WriteLine, Requested
    <2>2. Head(pending) \in AnyLine /\ Tail(pending) \in Seq(AnyLine)
        BY <1>5, TailsOfLines DEF Write, WriteLine, Deciding
    <2>3. Deciding'
        BY <1>5, <2>2 DEF Write, WriteLine, Written, Deciding
    <2>4. OnWire(Head(pending)) \in WireLine
      <3>1. CauseFor(Head(pending).targets, [age |-> decidedAge, void |-> heardVoid])
              \in [age : Nat, void : Int]
          BY CausesOfLines DEF Deciding
      <3> QED
          BY <2>2, <3>1 DEF OnWire, WireLine
    <2>5. Travelling'
        BY <1>5, <2>4 DEF Write, Travelling
    <2> QED
        BY <2>1, <2>3, <2>5
  <1>6. CASE Drop
    <2> USE DEF HostLines
    <2>1. Tail(pending) \in Seq(AnyLine)
        BY <1>6, TailsOfLines DEF Drop, WriteFails, Deciding
    <2>2. Deciding'
        BY <1>6, <2>1 DEF Drop, WriteFails, Written, Deciding
    <2>3. Requested' /\ Travelling'
        BY <1>6 DEF Drop, WriteFails, Requested, Travelling, wires
    <2> QED
        BY <2>2, <2>3
  <1>7. CASE Restart
    <2>1. Requested'
        BY <1>7, FirmwareAssumption, BridgeAssumption
        DEF Restart, BridgeRestart, CommandNever, Requested
    <2>2. Deciding'
        BY <1>7 DEF Restart, BridgeRestart, WithdrawCommands, Deciding, Valid
    <2>3. LinesWithdrawn \in Seq(WireLine)
        BY WithdrawnLines DEF HostLines
    <2>4. OnWire(Plain("STOP")) \in WireLine
      <3>1. CauseFor(Plain("STOP").targets, [age |-> decidedAge, void |-> heardVoid])
              \in [age : Nat, void : Int]
          BY CausesOfLines DEF HostLines, Deciding
      <3> QED
          BY <3>1, LinesOfTheHost DEF OnWire, WireLine
    <2>5. toMcu' = LinesWithdrawn
          \/ toMcu' = Append(LinesWithdrawn, OnWire(Plain("STOP")))
        BY <1>7 DEF Restart, WithdrawCommands
    <2>6. Travelling'
        BY <2>3, <2>4, <2>5 DEF Travelling
    <2> QED
        BY <2>1, <2>2, <2>6 DEF HostLines
  <1>8. CASE Open
      BY <1>8
      DEF Open, OpenSerial, ReaderDies, HostLines, Requested, Deciding,
          Travelling, causes
  <1>9. CASE Receive
      BY <1>9
      DEF Receive, HandleTelemetryFrame, HostLines, Requested, Deciding,
          Travelling, causes
  <1>10. CASE Disconnect
      BY <1>10
      DEF Disconnect, ReadFails, HostLines, Requested, Deciding, Travelling,
          wires, causes
  <1>11. CASE ReadSerial
    <2>1. Requested' /\ Deciding'
        BY <1>11 DEF ReadSerial, bridge, HostLines, Requested, Deciding
    <2>2. Travelling'
        BY <1>11, TailsOfLines DEF ReadSerial, HostLines, Travelling
    <2> QED
        BY <2>1, <2>2 DEF HostLines
  <1>12. CASE SampleImu \/ ControlStep
      BY <1>12
      DEF SampleImu, ControlStep, bridge, wires, HostLines, Requested, Deciding,
          Travelling
  <1>13. CASE PublishTelemetry
      BY <1>13
      DEF PublishTelemetry, bridge, causes, HostLines, Requested, Deciding,
          Travelling
  <1>14. CASE Reset
    <2>1. Travelling'
        BY <1>14 DEF Reset, Travelling
    <2> QED
        BY <1>14, <2>1
        DEF Reset, bridge, HostLines, Requested, Deciding
  <1>15. CASE Noise
    <2> DEFINE r == [toMcu EXCEPT ![1].line = Plain("BAD"),
                                  ![1].cause = NoCause]
    <2>1. Requested' /\ Deciding'
        BY <1>15 DEF Noise, bridge, causes, HostLines, Requested, Deciding
    <2>2. toMcu # <<>> /\ (toMcu' = Tail(toMcu) \/ toMcu' = r)
        BY <1>15 DEF Noise
    <2>3. r = [i \in DOMAIN toMcu |-> r[i]] /\ DOMAIN r = DOMAIN toMcu
        OBVIOUS
    <2>4. ASSUME NEW i \in DOMAIN toMcu PROVE r[i] \in WireLine
      <3>1. NoCause \in [age : Nat, void : Int]
          BY DEF NoCause, Valid
      <3>2. toMcu[i] \in WireLine
          BY DEF HostLines, Travelling
      <3>3. r[i] = IF i = 1
                   THEN [toMcu[1] EXCEPT !.line = Plain("BAD"),
                                         !.cause = NoCause]
                   ELSE toMcu[i]
          OBVIOUS
      <3> QED
          BY <3>1, <3>2, <3>3, LinesOfTheHost DEF WireLine
    <2> HIDE DEF r
    <2>5. r \in Seq(WireLine)
        BY <2>3, <2>4, LinesOneByOne DEF HostLines, Travelling
    <2>6. Tail(toMcu) \in Seq(WireLine)
        BY <2>2, TailsOfLines DEF HostLines, Travelling
    <2>7. Travelling'
        BY <2>2, <2>5, <2>6 DEF Travelling
    <2> QED
        BY <2>1, <2>7 DEF HostLines
  <1>16. CASE Tick
    <2>1. /\ commandStamp' = Older(commandStamp, CommandNever)
          /\ requested' = requested /\ pending' = pending
          /\ decidedAge' = IF pending = <<>> THEN 0 ELSE decidedAge + 1
          /\ heardVoid' = OlderVoid(heardVoid)
        BY <1>16 DEF Tick, BridgeTick
    <2>2. Requested'
        BY <2>1 DEF Older, HostLines, Requested
    <2>3. Deciding'
        BY <2>1 DEF OlderVoid, Older, Valid, HostLines, Deciding
    <2> QED
        BY <1>16, <2>2, <2>3, OlderLines DEF HostLines
  <1> QED
      BY <1>1, <1>2, <1>3, <1>4, <1>5, <1>6, <1>7, <1>8, <1>9, <1>10, <1>11,
         <1>12, <1>13, <1>14, <1>15, <1>16 DEF PathNext

\* Every step of the drive path is a step of the firmware, or leaves it alone.
LEMMA PathStepIsFirmwareStep ==
  ASSUME HostLines, PathNext
  PROVE  [FirmwareNext]_firmware
  <1>1. CASE Hear \/ Decide \/ Serve \/ EndArm \/ Write \/ Drop \/ Restart
             \/ Open \/ Receive \/ Disconnect \/ PublishTelemetry \/ Noise
      BY <1>1
      DEF Hear, Decide, Serve, EndArm, Write, Drop, Restart, Open, Receive,
          Disconnect, PublishTelemetry, Noise
  <1>2. CASE ReadSerial
    <2>1. Head(toMcu) \in WireLine
        BY <1>2, TailsOfLines DEF ReadSerial, HostLines, Travelling
    <2> QED
        BY <1>2, <2>1 DEF ReadSerial, WireLine, FirmwareNext
  <1>3. CASE SampleImu
      BY <1>3 DEF SampleImu, FirmwareNext
  <1>4. CASE ControlStep
      BY <1>4 DEF ControlStep, FirmwareNext
  <1>5. CASE Reset
      BY <1>5 DEF Reset, FirmwareNext
  <1>6. CASE Tick
      BY <1>6 DEF Tick, FirmwareNext
  <1> QED
      BY <1>1, <1>2, <1>3, <1>4, <1>5, <1>6 DEF PathNext

LEMMA HostLinesStart == PathInit => HostLines
  <1> SUFFICES ASSUME PathInit PROVE HostLines
      OBVIOUS
  <1> USE DEF PathInit
  <1>1. Requested
      BY FirmwareAssumption, BridgeAssumption
      DEF BridgeInit, CommandNever, Requested
  <1>2. Deciding /\ Travelling
      BY DEF BridgeInit, Deciding, Travelling, Valid
  <1> QED
      BY <1>1, <1>2 DEF HostLines

LEMMA HostLinesKept ==
  ASSUME HostLines, [PathNext]_vars
  PROVE  HostLines' /\ [FirmwareNext]_firmware
  <1>1. CASE PathNext
      BY <1>1, HostLinesStep, PathStepIsFirmwareStep
  <1>2. CASE UNCHANGED vars
      BY <1>2
      DEF vars, bridge, wires, causes, HostLines, Requested, Deciding,
          Travelling
  <1> QED
      BY <1>1, <1>2

\* The drive path uses the firmware as FirmwareSpec describes it: the host
\* never sends it anything that handleLine was not made for.
THEOREM PathUsesFirmware ==
  PathSpec => FirmwareSpec
  <1>1. PathInit => FirmwareInit
      BY DEF PathInit
  <1> QED
      BY <1>1, HostLinesStart, HostLinesKept, PTL DEF PathSpec, FirmwareSpec

\* In the drive path, whatever is lost and whoever restarts, a latched fault
\* holds the motors (latchFault, handleLine, updateControl).
THEOREM FaultHolds ==
  PathSpec => []FaultHoldsDrive
  <1>1. FirmwareInv => FaultHoldsDrive
      BY DEF FirmwareInv
  <1> QED
      BY <1>1, PathUsesFirmware, FirmwareCorrect, PTL

\* ... and the firmware watchdog bounds how long a wheel target is driven
\* after the last CMD line: by DriveBound.
THEOREM WatchdogHolds ==
  PathSpec => []WatchdogBound
  <1> QED
      BY FirmwareInvBounds, PathUsesFirmware, FirmwareCorrect, PTL
=============================================================================
