--------------------------- MODULE DriveTimesProofs --------------------------
(***************************************************************************)
(* How long a command may move the base: the drive path implements         *)
(* DriveLease, and a base the bridge holds stops within HoldBound, for     *)
(* every value of the constants.                                           *)
(*   Shaped    the types                                                   *)
(*   Aging     how old the cause of a line, the request and the drive may  *)
(*             be, by where it is: decided, on the wire, asked, driven     *)
(*   Ordering  nothing overtakes: what is further on is no more recent     *)
(*   Holding   what still moves was decided on before the bridge forbade it*)
(***************************************************************************)
EXTENDS DrivePathProofs

BridgeShaped ==
  /\ armed \in BOOLEAN /\ requested \in Twists /\ commandStamp \in 0..CommandNever
  /\ telemetryStamp \in 0..TelemetryNever /\ mcuFault \in {"NONE", "IMU"}
  /\ turning \in [Wheels -> BOOLEAN]
  /\ port \in {"open", "closed"} /\ openStamp \in 0..ReopenDelay /\ readerAlive \in BOOLEAN
  /\ blocked \in BOOLEAN /\ blockedTargets \in Twists
  /\ stallStamp \in [Wheels -> {NoStall} \cup 0..StallTimeout]
  /\ tickStamp \in 0..CommandPeriod /\ arming \in BOOLEAN
Parcel == [line : AnyLine, cause : Cause, wire : 0..Transit]
Times ==
  /\ pendingAge \in 0..Preempt /\ decidedAge \in 0..(CommandTimeout + pendingAge)
  /\ heardVoid = Valid
  /\ requestCause \in Cause /\ driveCause \in Cause
Shaped ==
  /\ BridgeShaped /\ Times
  /\ toMcu \in Seq(Parcel) /\ toHost \in Seq(Frame)
  /\ heldAge \in 0..(HoldBound + 1)

\* The cause c of what is asked of the wheels, t, d ticks after it was written:
\* no older than the bridge allows, and withdrawn, if at all, since then.
Fits(t, c, d) ==
  IF Moving(t) THEN c.age <= CommandTimeout + Preempt + d /\ c.void <= d
  ELSE c = NoCause
Aging ==
  /\ \A i \in DOMAIN toMcu : Fits(toMcu[i].line.targets, toMcu[i].cause, toMcu[i].wire)
  /\ Fits(request, requestCause, Transit + commandAge)
  /\ Fits(drive, driveCause, Transit + Watchdog + controlAge)
  /\ Moving(request) => commandSeen /\ commandAge <= Watchdog + controlAge

\* Whatever moves while the bridge forbids it was decided on before.
Holding ==
  /\ \A i \in DOMAIN pending : Moving(pending[i].targets) => heldAge <= pendingAge
  /\ \A i \in DOMAIN toMcu : Moving(toMcu[i].line.targets) => heldAge <= Preempt + toMcu[i].wire
  /\ Moving(request) => heldAge <= Preempt + Transit + commandAge
  /\ Moving(drive) => heldAge <= Preempt + Transit + Watchdog + controlAge
  /\ ~StallGuard => ~blocked

\* A command of age a is more recent than those the firmware has taken, and
\* than those on the wire as well.
After(a) ==
  /\ Moving(request) => a <= requestCause.age
  /\ Moving(drive) => a <= driveCause.age
Newest(a) ==
  /\ After(a)
  /\ \A i \in DOMAIN toMcu : Moving(toMcu[i].line.targets) => a <= toMcu[i].cause.age
Decided == \E i \in DOMAIN pending : Moving(pending[i].targets)
Ordering ==
  /\ Moving(request) /\ Moving(drive) => requestCause.age <= driveCause.age
  /\ \A i \in DOMAIN toMcu :
       Moving(toMcu[i].line.targets) =>
         /\ After(toMcu[i].cause.age)
         /\ \A j \in DOMAIN toMcu :
              i < j /\ Moving(toMcu[j].line.targets) => toMcu[j].cause.age <= toMcu[i].cause.age
  /\ Decided => Newest(decidedAge)
  /\ Fresh => Newest(commandStamp) /\ (Decided => commandStamp <= decidedAge)

-----------------------------------------------------------------------------
(* Types. *)

LEMMA Spans ==
  /\ CommandTimeout \in Nat /\ Preempt \in Nat /\ Transit \in Nat
  /\ Watchdog \in Nat /\ Control \in Nat /\ Latency \in Nat
  /\ TelemetryTimeout \in Nat /\ ReopenDelay \in Nat /\ StallTimeout \in Nat /\ CommandPeriod \in Nat
  /\ Lease = CommandTimeout + Preempt + Transit + Watchdog + Control + Latency
  /\ Recall = Transit + Watchdog + Control + Latency
  /\ HoldBound = Preempt + Transit + Watchdog + Control + Latency
  /\ CommandCap = Watchdog + Control + Latency + 1
  /\ Lease \in Nat /\ Recall \in Nat /\ HoldBound \in Nat
  BY BridgeAssumption, FirmwareAssumption, PathAssumption
  DEF Lease, Recall, HoldBound, CommandCap, DriveBound

\* What a restart, a timeout and a switch leave behind.
LEMMA StartValues ==
  /\ Zero \in Twists
  /\ 0 \in 0..CommandNever /\ CommandNever \in 0..CommandNever
  /\ 0 \in 0..TelemetryNever /\ TelemetryNever \in 0..TelemetryNever
  /\ 0 \in 0..ReopenDelay /\ ReopenDelay \in 0..ReopenDelay /\ 0 \in 0..CommandPeriod
  /\ [w \in Wheels |-> NoStall] \in [Wheels -> {NoStall} \cup 0..StallTimeout]
  /\ [w \in Wheels |-> FALSE] \in [Wheels -> BOOLEAN]
  /\ EnableMotors \in BOOLEAN
  BY Spans, BridgeAssumption DEF CommandNever, TelemetryNever

LEMMA GrowsOlder ==
  ASSUME NEW cap \in Nat, NEW age \in 0..cap
  PROVE  Older(age, cap) \in 0..cap
  BY DEF Older

\* Who moves what.
LEMMA FlagSteps ==
  ASSUME PathNext
  PROVE  \/ Hear \/ Decide \/ Serve \/ EndArm \/ Restart \/ Open \/ Receive \/ Tick
         \/ port' \in {port, "closed"}
            /\ UNCHANGED <<armed, requested, commandStamp, telemetry, openStamp, readerAlive,
                           stall, tickStamp, arming>>
  <1>1. CASE Write
      BY <1>1 DEF Write, WriteLine, reader
  <1>2. CASE Drop
      BY <1>2 DEF Drop, WriteFails
  <1>3. CASE Disconnect
      BY <1>3 DEF Disconnect, ReadFails
  <1>4. CASE ReadSerial \/ SampleImu \/ ControlStep \/ PublishTelemetry \/ Reset \/ Noise
      BY <1>4 DEF ReadSerial, SampleImu, ControlStep, PublishTelemetry, Reset, Noise, bridge, reader
  <1> QED
      BY <1>1, <1>2, <1>3, <1>4 DEF PathNext

LEMMA Forgotten ==
  ASSUME BridgeShaped, ForgetCommand, ClearDriveBlocked
  PROVE  /\ requested' \in Twists /\ commandStamp' \in 0..CommandNever
         /\ blocked' \in BOOLEAN /\ blockedTargets' \in Twists
         /\ stallStamp' \in [Wheels -> {NoStall} \cup 0..StallTimeout]
  BY StartValues DEF ForgetCommand, ClearDriveBlocked

LEMMA FlagsStep ==
  ASSUME BridgeShaped, toHost \in Seq(Frame), PathNext
  PROVE  BridgeShaped'
  <1> USE DEF BridgeShaped
  <1>1. CASE Hear
      BY <1>1, Spans DEF Hear, CmdCallback, telemetry, reader, stall, CommandNever
  <1>2. CASE Decide
    <2>1. UNCHANGED <<armed, requested, commandStamp, telemetry, reader, arming>> /\ tickStamp' = 0
        BY <1>2 DEF Decide, CommandTick
    <2>2. WheelTarget \in Twists
        BY BridgeAssumption DEF WheelTarget
    <2>3. \A clock \in [Wheels -> {NoStall} \cup 0..StallTimeout] :
            StallClock(WheelTarget, clock) \in [Wheels -> {NoStall} \cup 0..StallTimeout]
        BY Spans DEF StallClock
    <2>4. [w \in Wheels |-> NoStall] \in [Wheels -> {NoStall} \cup 0..StallTimeout]
        OBVIOUS
    <2>5. ASSUME NEW clock \in [Wheels -> {NoStall} \cup 0..StallTimeout],
                 UpdateStallGuard(WheelTarget, clock)
          PROVE  /\ blocked' \in BOOLEAN /\ blockedTargets' \in Twists
                 /\ stallStamp' \in [Wheels -> {NoStall} \cup 0..StallTimeout]
        BY <2>2, <2>3, <2>4, <2>5, BridgeAssumption DEF UpdateStallGuard
    <2>6. /\ blocked' \in BOOLEAN /\ blockedTargets' \in Twists
          /\ stallStamp' \in [Wheels -> {NoStall} \cup 0..StallTimeout]
        BY <1>2, <2>4, <2>5 DEF Decide, CommandTick, StopTick, stall
    <2> QED
        BY <2>1, <2>6, Spans DEF telemetry, reader
  <1>3. CASE Serve
    <2>1. ForgetCommand /\ ClearDriveBlocked
        BY <1>3 DEF Serve, Lock, Arm, ClearMotorFault
    <2>2. armed' \in BOOLEAN /\ arming' \in BOOLEAN /\ UNCHANGED <<telemetry, reader, tickStamp>>
        BY <1>3 DEF Serve, Lock, Arm, ClearMotorFault
    <2> QED
        BY <2>1, <2>2, Forgotten DEF telemetry, reader
  <1>4. CASE EndArm
      BY <1>4 DEF EndArm, FinishArm, telemetry, reader, stall
  <1>5. CASE Restart
    <2>1. ClearDriveBlocked /\ ForgetCommand
        BY <1>5 DEF Restart, BridgeRestart, ForgetCommand
    <2> QED
        BY <1>5, <2>1, Forgotten, StartValues DEF Restart, BridgeRestart
  <1>6. CASE Open
    <2>1. /\ openStamp' = 0 /\ port' \in {"open", "closed"} /\ readerAlive' \in BOOLEAN
          /\ UNCHANGED <<armed, requested, commandStamp, telemetry, stall, tickStamp, arming>>
        BY <1>6 DEF Open, OpenSerial, ReaderDies, ReaderMayOpen
    <2> QED
        BY <2>1, StartValues DEF telemetry, stall
  <1>7. CASE Receive
    <2>1. Head(toHost) \in Frame
        BY <1>7, TailsOfLines DEF Receive
    <2> QED
        BY <1>7, <2>1, StartValues DEF Receive, HandleTelemetryFrame, Frame, reader, stall
  <1>8. CASE Tick
    <2>1. BridgeTick
        BY <1>8 DEF Tick
    <2>2. commandStamp' \in 0..CommandNever /\ telemetryStamp' \in 0..TelemetryNever
        BY <2>1, GrowsOlder, Spans DEF BridgeTick, CommandNever, TelemetryNever
    <2>3. openStamp' \in 0..ReopenDelay /\ tickStamp' \in 0..CommandPeriod
        BY <2>1, GrowsOlder, Spans DEF BridgeTick
    <2>4. stallStamp' \in [Wheels -> {NoStall} \cup 0..StallTimeout]
      <3>1. ASSUME NEW w \in Wheels
            PROVE  (IF stallStamp[w] = NoStall THEN NoStall ELSE Older(stallStamp[w], StallTimeout))
                     \in {NoStall} \cup 0..StallTimeout
          BY GrowsOlder, Spans
      <3> QED
          BY <2>1, <3>1 DEF BridgeTick
    <2>5. UNCHANGED <<armed, requested, mcuFault, turning, port, readerAlive, blocked, blockedTargets, arming>>
        BY <2>1 DEF BridgeTick
    <2> QED
        BY <2>2, <2>3, <2>4, <2>5
  <1>9. CASE port' \in {port, "closed"}
            /\ UNCHANGED <<armed, requested, commandStamp, telemetry, openStamp, readerAlive,
                           stall, tickStamp, arming>>
      BY <1>9 DEF telemetry, stall
  <1> QED
      BY <1>1, <1>2, <1>3, <1>4, <1>5, <1>6, <1>7, <1>8, <1>9, FlagSteps

\* The causes that a step may give to a line, the request or the drive.
LEMMA CausesTyped ==
  ASSUME NEW t, NEW c \in Cause
  PROVE  /\ CauseFor(t, c) \in Cause /\ Withdrawn(t, c) \in Cause /\ Aged(t, c) \in Cause
         /\ NoCause \in Cause
  <1>1. NoCause \in Cause
      BY Spans DEF NoCause, Cause
  <1>2. CauseFor(t, c) \in Cause
      BY <1>1 DEF CauseFor
  <1>3. 0 \in {Valid} \cup 0..(Recall + 1)
      BY Spans
  <1>4. Withdrawn(t, c) \in Cause
      BY <1>3 DEF Withdrawn, Cause
  <1>5. Older(c.age, Lease + 1) \in 0..(Lease + 1)
      BY Spans, GrowsOlder DEF Cause
  <1>6. OlderVoid(c.void) \in {Valid} \cup 0..(Recall + 1)
      BY Spans, GrowsOlder DEF OlderVoid, Cause
  <1>7. [age |-> Older(c.age, Lease + 1), void |-> OlderVoid(c.void)] \in Cause
      BY <1>5, <1>6 DEF Cause
  <1>8. Aged(t, c) \in Cause
      BY <1>1, <1>7 DEF Aged, CauseFor
  <1> QED
      BY <1>1, <1>2, <1>4, <1>8

LEMMA WrittenLine ==
  ASSUME Times, NEW line \in AnyLine
  PROVE  /\ OnWire(line) \in Parcel /\ OnWire(line).line = line /\ OnWire(line).wire = 0
         /\ OnWire(line).cause = IF Moving(line.targets) THEN [age |-> decidedAge, void |-> Valid]
                                 ELSE NoCause
  <1>1. decidedAge \in 0..(Lease + 1)
      BY Spans DEF Times
  <1>2. [age |-> decidedAge, void |-> heardVoid] \in Cause
      BY <1>1 DEF Times, Cause
  <1>3. 0 \in 0..Transit
      BY Spans
  <1> QED
      BY <1>2, <1>3, CausesTyped DEF OnWire, Parcel, CauseFor, Times

\* What becomes of the lines in flight in a step, but for the passing of time:
\* a line stays as it is or is withdrawn, at its place or one further on; one
\* that asks no wheel to turn comes instead or in addition; or one is written.
Stays(i, j) ==
  /\ toMcu'[i].line = toMcu[j].line /\ toMcu'[i].wire = toMcu[j].wire
  /\ toMcu'[i].cause = Withdrawn(toMcu[j].line.targets, toMcu[j].cause)
       \/ toMcu'[i].cause = toMcu[j].cause
MovesNothing(i) ==
  ~Moving(toMcu'[i].line.targets) /\ toMcu'[i].cause = NoCause
Advances(s) ==
  \A i \in DOMAIN toMcu' :
    \/ i + s \in DOMAIN toMcu /\ Stays(i, i + s)
    \/ MovesNothing(i)
    \/ Write /\ s = 0 /\ i = Len(toMcu) + 1 /\ toMcu'[i] = OnWire(Head(pending))

LEMMA SequenceFacts ==
  ASSUME NEW S, NEW q \in Seq(S)
  PROVE  /\ Len(q) \in Nat /\ DOMAIN q = 1..Len(q) /\ \A i \in DOMAIN q : q[i] \in S
         /\ \A x : Append(q, x) \in Seq(S \cup {x}) /\ DOMAIN Append(q, x) = 1..(Len(q) + 1)
                   /\ \A i \in 1..(Len(q) + 1) : Append(q, x)[i] = IF i = Len(q) + 1 THEN x ELSE q[i]
         /\ q # <<>> =>
              /\ Tail(q) \in Seq(S) /\ DOMAIN Tail(q) = 1..(Len(q) - 1)
              /\ \A i \in 1..(Len(q) - 1) : Tail(q)[i] = q[i + 1]
              /\ 1 \in DOMAIN q /\ Head(q) = q[1]
  OBVIOUS

LEMMA WithdrawnInFlight ==
  ASSUME toMcu \in Seq(Parcel)
  PROVE  /\ LinesWithdrawn \in Seq(Parcel) /\ Len(LinesWithdrawn) = Len(toMcu)
         /\ DOMAIN LinesWithdrawn = DOMAIN toMcu
         /\ \A i \in DOMAIN toMcu :
              /\ LinesWithdrawn[i].line = toMcu[i].line /\ LinesWithdrawn[i].wire = toMcu[i].wire
              /\ LinesWithdrawn[i].cause = Withdrawn(toMcu[i].line.targets, toMcu[i].cause)
  <1> DEFINE r == LinesWithdrawn
  <1>1. r = [i \in DOMAIN toMcu |-> r[i]] /\ DOMAIN r = DOMAIN toMcu
      BY DEF LinesWithdrawn
  <1>2. ASSUME NEW i \in DOMAIN toMcu
        PROVE  /\ r[i] \in Parcel /\ r[i].line = toMcu[i].line /\ r[i].wire = toMcu[i].wire
               /\ r[i].cause = Withdrawn(toMcu[i].line.targets, toMcu[i].cause)
    <2> DEFINE c == Withdrawn(toMcu[i].line.targets, toMcu[i].cause)
    <2>1. toMcu[i] \in Parcel
        BY SequenceFacts
    <2>2. c \in Cause
        BY <2>1, CausesTyped DEF Parcel
    <2>3. r[i] = [toMcu[i] EXCEPT !.cause = c]
        BY DEF LinesWithdrawn
    <2> HIDE DEF c
    <2>4. /\ r[i] \in Parcel /\ r[i].line = toMcu[i].line /\ r[i].wire = toMcu[i].wire
          /\ r[i].cause = c
        BY <2>1, <2>2, <2>3 DEF Parcel
    <2> QED
        BY <2>4 DEF c
  <1> HIDE DEF r
  <1>3. r \in Seq(Parcel)
      BY <1>1, <1>2, LinesOneByOne
  <1>4. Len(r) = Len(toMcu)
      BY <1>1, <1>3, SequenceFacts
  <1> QED
      BY <1>1, <1>2, <1>3, <1>4 DEF r

LEMMA LineSteps ==
  ASSUME HostLines, Shaped, PathNext, ~Tick
  PROVE  toMcu' \in Seq(Parcel) /\ \E s \in {0, 1} : Advances(s)
  <1>1. toMcu \in Seq(Parcel) /\ Times
      BY DEF Shaped
  <1>2. ASSUME UNCHANGED toMcu PROVE toMcu' \in Seq(Parcel) /\ Advances(0)
    <2>1. \A i \in DOMAIN toMcu : i \in Nat
        BY <1>1, SequenceFacts
    <2> QED
        BY <1>1, <1>2, <2>1 DEF Advances, Stays
  <1>3. CASE Hear \/ Decide \/ EndArm \/ Drop \/ Disconnect \/ SampleImu \/ ControlStep
    <2>1. UNCHANGED toMcu
        BY <1>3 DEF Hear, Decide, EndArm, Drop, Disconnect, SampleImu, ControlStep, wires
    <2> QED
        BY <1>2, <2>1
  <1>4. CASE Open \/ Receive \/ PublishTelemetry
      BY <1>2, <1>4 DEF Open, Receive, PublishTelemetry
  <1>5. ASSUME toMcu' = LinesWithdrawn PROVE toMcu' \in Seq(Parcel) /\ Advances(0)
    <2>1. \A i \in DOMAIN toMcu : i + 0 = i
        BY <1>1, SequenceFacts
    <2> QED
        BY <1>1, <1>5, <2>1, WithdrawnInFlight DEF Advances, Stays
  <1>6. CASE Serve
      BY <1>5, <1>6 DEF Serve, WithdrawCommands
  <1>7. CASE Restart
    <2> DEFINE stop == OnWire(Plain("STOP"))
    <2>1. toMcu' = LinesWithdrawn \/ toMcu' = Append(LinesWithdrawn, stop)
        BY <1>7 DEF Restart, WithdrawCommands
    <2>2. CASE toMcu' = Append(LinesWithdrawn, stop)
      <3>1. stop \in Parcel /\ ~Moving(stop.line.targets) /\ stop.cause = NoCause
          BY <1>1, WrittenLine, LinesOfTheHost, ZeroIsStill DEF Plain
      <3> HIDE DEF stop
      <3>2. toMcu' \in Seq(Parcel)
          BY <1>1, <2>2, <3>1, WithdrawnInFlight
      <3>3. /\ DOMAIN toMcu' = 1..(Len(toMcu) + 1) /\ Len(toMcu) \in Nat /\ DOMAIN toMcu = 1..Len(toMcu)
            /\ \A i \in 1..(Len(toMcu) + 1) :
                 toMcu'[i] = IF i = Len(toMcu) + 1 THEN stop ELSE LinesWithdrawn[i]
          BY <1>1, <2>2, WithdrawnInFlight, SequenceFacts
      <3>4. \A i \in 1..(Len(toMcu) + 1) : i # Len(toMcu) + 1 => i + 0 = i /\ i \in 1..Len(toMcu)
          BY <3>3
      <3>5. Advances(0)
          BY <1>1, <3>1, <3>3, <3>4, WithdrawnInFlight DEF Advances, Stays, MovesNothing
      <3> QED
          BY <3>2, <3>5
    <2> QED
        BY <1>5, <2>1, <2>2
  <1>8. CASE Write
    <2>1. toMcu' = Append(toMcu, OnWire(Head(pending)))
        BY <1>8 DEF Write
    <2>2. Head(pending) \in AnyLine
        BY <1>8, TailsOfLines DEF Write, WriteLine, HostLines, Deciding
    <2>3. OnWire(Head(pending)) \in Parcel
        BY <1>1, <2>2, WrittenLine
    <2>4. toMcu' \in Seq(Parcel)
        BY <1>1, <2>1, <2>3
    <2>5. /\ DOMAIN toMcu' = 1..(Len(toMcu) + 1) /\ Len(toMcu) \in Nat /\ DOMAIN toMcu = 1..Len(toMcu)
          /\ \A i \in 1..(Len(toMcu) + 1) :
               toMcu'[i] = IF i = Len(toMcu) + 1 THEN OnWire(Head(pending)) ELSE toMcu[i]
        BY <1>1, <2>1, SequenceFacts
    <2>6. \A i \in 1..(Len(toMcu) + 1) : i # Len(toMcu) + 1 => i + 0 = i /\ i \in 1..Len(toMcu)
        BY <2>5
    <2>7. Advances(0)
        BY <1>8, <2>5, <2>6 DEF Advances, Stays
    <2> QED
        BY <2>4, <2>7
  <1>9. ASSUME toMcu # <<>>, toMcu' = Tail(toMcu) PROVE toMcu' \in Seq(Parcel) /\ Advances(1)
    <2>1. /\ toMcu' \in Seq(Parcel) /\ DOMAIN toMcu' = 1..(Len(toMcu) - 1)
          /\ Len(toMcu) \in Nat /\ DOMAIN toMcu = 1..Len(toMcu)
          /\ \A i \in 1..(Len(toMcu) - 1) : toMcu'[i] = toMcu[i + 1]
        BY <1>1, <1>9, SequenceFacts
    <2>2. \A i \in 1..(Len(toMcu) - 1) : i + 1 \in 1..Len(toMcu)
        BY <2>1
    <2> QED
        BY <2>1, <2>2 DEF Advances, Stays
  <1>10. CASE ReadSerial
      BY <1>9, <1>10 DEF ReadSerial
  <1>11. CASE Reset
    <2>1. toMcu' = <<>>
        BY <1>11 DEF Reset
    <2> QED
        BY <2>1 DEF Advances
  <1>12. CASE Noise
    <2> DEFINE r == [toMcu EXCEPT ![1].line = Plain("BAD"), ![1].cause = NoCause]
    <2>1. CASE toMcu # <<>> /\ toMcu' = r
      <3>1. r = [i \in DOMAIN toMcu |-> r[i]] /\ DOMAIN r = DOMAIN toMcu
          OBVIOUS
      <3>2. ASSUME NEW i \in DOMAIN toMcu
            PROVE  /\ r[i] \in Parcel
                   /\ i = 1 => ~Moving(r[i].line.targets) /\ r[i].cause = NoCause
                   /\ i # 1 => r[i] = toMcu[i]
        <4>1. toMcu[i] \in Parcel
            BY <1>1, SequenceFacts
        <4>2. r[i] = IF i = 1 THEN [toMcu[1] EXCEPT !.line = Plain("BAD"), !.cause = NoCause]
                     ELSE toMcu[i]
            OBVIOUS
        <4>3. NoCause \in Cause /\ Plain("BAD") \in AnyLine
            BY Spans, LinesOfTheHost DEF NoCause, Cause
        <4>4. CASE i = 1
          <5>1. r[i].line = Plain("BAD") /\ r[i].cause = NoCause /\ r[i] \in Parcel
              BY <4>1, <4>2, <4>3, <4>4 DEF Parcel
          <5> QED
              BY <4>4, <5>1, ZeroIsStill DEF Plain
        <4> QED
            BY <4>1, <4>2, <4>4
      <3> HIDE DEF r
      <3>3. r \in Seq(Parcel)
          BY <1>1, <3>1, <3>2, LinesOneByOne
      <3>4. \A i \in DOMAIN toMcu : i + 0 = i
          BY <1>1, SequenceFacts
      <3>5. Advances(0)
          BY <2>1, <3>1, <3>2, <3>4 DEF Advances, Stays, MovesNothing
      <3> QED
          BY <2>1, <3>3, <3>5
    <2> QED
        BY <1>9, <1>12, <2>1 DEF Noise
  <1> QED
      BY <1>3, <1>4, <1>6, <1>7, <1>8, <1>10, <1>11, <1>12 DEF PathNext

\* A tick makes everything in flight older.
LEMMA TickLines ==
  ASSUME Shaped, Tick
  PROVE  /\ toMcu' \in Seq(Parcel) /\ DOMAIN toMcu' = DOMAIN toMcu
         /\ \A i \in DOMAIN toMcu :
              /\ toMcu'[i].line = toMcu[i].line /\ toMcu'[i].wire = toMcu[i].wire + 1
              /\ toMcu'[i].cause = Aged(toMcu[i].line.targets, toMcu[i].cause)
  <1>1. toMcu \in Seq(Parcel)
      BY DEF Shaped
  <1>2. toMcu' = [i \in DOMAIN toMcu |-> toMcu'[i]] /\ DOMAIN toMcu' = DOMAIN toMcu
      BY DEF Tick
  <1>3. ASSUME NEW i \in DOMAIN toMcu
        PROVE  /\ toMcu'[i] \in Parcel
               /\ toMcu'[i].line = toMcu[i].line /\ toMcu'[i].wire = toMcu[i].wire + 1
               /\ toMcu'[i].cause = Aged(toMcu[i].line.targets, toMcu[i].cause)
    <2> DEFINE c == Aged(toMcu[i].line.targets, toMcu[i].cause)
               n == toMcu[i].wire + 1
    <2>1. toMcu[i] \in Parcel
        BY <1>1, SequenceFacts
    <2>2. c \in Cause
        BY <2>1, CausesTyped DEF Parcel
    <2>3. n \in 0..Transit
      <3>1. toMcu[i].wire < Transit /\ toMcu[i].wire \in 0..Transit
          BY <2>1 DEF Parcel, Tick
      <3> QED
          BY <3>1, Spans
    <2>4. toMcu'[i] = [toMcu[i] EXCEPT !.wire = n, !.cause = c]
        BY DEF Tick
    <2> HIDE DEF c, n
    <2>5. /\ toMcu'[i] \in Parcel
          /\ toMcu'[i].line = toMcu[i].line /\ toMcu'[i].wire = n /\ toMcu'[i].cause = c
        BY <2>1, <2>2, <2>3, <2>4 DEF Parcel
    <2> QED
        BY <2>5 DEF c, n
  <1>4. toMcu' \in Seq(Parcel)
      BY <1>1, <1>2, <1>3, LinesOneByOne
  <1> QED
      BY <1>2, <1>3, <1>4

\* Only a fresh command under armed motors makes a line that moves the base.
LEMMA DecidedFresh ==
  ASSUME Decide, Decided'
  PROVE  armed /\ Fresh /\ Healthy /\ (StallGuard => ~blocked')
  <1>1. pending' = <<Plain("STOP")>> \/ pending' = <<Cmd(WheelTarget)>>
      BY DEF Decide, CommandTick, StopTick, UpdateStallGuard
  <1>2. pending' # <<Plain("STOP")>>
    <2>1. ASSUME pending' = <<Plain("STOP")>> PROVE FALSE
      <3>1. DOMAIN pending' = {1} /\ pending'[1] = Plain("STOP")
          BY <2>1
      <3> QED
          BY <3>1, ZeroIsStill DEF Decided, Plain
    <2> QED
        BY <2>1
  <1>3. Moving(WheelTarget)
    <2>1. DOMAIN pending' = {1} /\ pending'[1] = Cmd(WheelTarget)
        BY <1>1, <1>2
    <2> QED
        BY <2>1 DEF Decided, Cmd
  <1>4. armed /\ Fresh
      BY <1>3, ZeroIsStill DEF WheelTarget
  <1>5. Healthy
      BY <1>2 DEF Decide, CommandTick, StopTick
  <1>6. StallGuard => ~blocked'
      BY <1>2 DEF Decide, CommandTick, StopTick, UpdateStallGuard
  <1> QED
      BY <1>4, <1>5, <1>6

\* The lines a callback has yet to write.
LEMMA PendingSteps ==
  ASSUME HostLines, PathNext
  PROVE  \/ Decide /\ pendingAge' = 0
         \/ /\ ~Decided' /\ pendingAge' = 0 /\ decidedAge' = 0
            /\ Serve \/ Restart
         \/ /\ Write \/ Drop
            /\ pending # <<>> /\ pending' = Tail(pending) /\ Written
         \/ Tick /\ UNCHANGED pending
         \/ UNCHANGED <<pending, pendingAge, decidedAge>>
  <1>1. CASE Serve
    <2>1. pending' = <<Plain("STOP")>> \/ pending' = <<Plain("STOP"), Plain("CLEAR")>>
        BY <1>1 DEF Serve, Lock, Arm, ClearMotorFault
    <2>2. \A i \in DOMAIN pending' : pending'[i] \in {Plain("STOP"), Plain("CLEAR")}
        BY <2>1
    <2>3. ~Decided'
        BY <2>2, ZeroIsStill DEF Decided, Plain
    <2> QED
        BY <1>1, <2>3 DEF Serve, WithdrawCommands
  <1>2. CASE Restart
    <2>1. DOMAIN pending' = {}
        BY <1>2 DEF Restart, BridgeRestart
    <2> QED
        BY <1>2, <2>1 DEF Restart, WithdrawCommands, Decided
  <1>3. CASE Write \/ Drop
      BY <1>3 DEF Write, Drop, WriteLine, WriteFails
  <1>4. CASE Decide
      BY <1>4 DEF Decide
  <1>5. CASE Tick
      BY <1>5 DEF Tick, BridgeTick
  <1>6. CASE Hear \/ EndArm
      BY <1>6 DEF Hear, EndArm, CmdCallback, FinishArm, causes
  <1>7. CASE Open \/ Receive \/ Disconnect
      BY <1>7 DEF Open, Receive, Disconnect, OpenSerial, ReaderDies, HandleTelemetryFrame, ReadFails, causes
  <1>8. CASE ReadSerial \/ SampleImu \/ ControlStep \/ PublishTelemetry \/ Reset \/ Noise
      BY <1>8 DEF ReadSerial, SampleImu, ControlStep, PublishTelemetry, Reset, Noise, bridge, causes
  <1> QED
      BY <1>1, <1>2, <1>3, <1>4, <1>5, <1>6, <1>7, <1>8 DEF PathNext

\* No command is heard that is withdrawn already.
LEMMA HeardVoidSteps ==
  ASSUME Times, PathNext
  PROVE  heardVoid' = Valid
  <1>1. ~Moving(Zero)
      BY ZeroIsStill
  <1>2. CASE Hear
      BY <1>2 DEF Hear
  <1>3. CASE Serve
    <2>1. requested' = Zero
        BY <1>3 DEF Serve, Lock, Arm, ClearMotorFault, ForgetCommand
    <2> QED
        BY <1>1, <1>3, <2>1 DEF Serve, WithdrawCommands
  <1>4. CASE Restart
    <2>1. requested' = Zero
        BY <1>4 DEF Restart, BridgeRestart
    <2> QED
        BY <1>1, <1>4, <2>1 DEF Restart, WithdrawCommands
  <1>5. CASE Tick
      BY <1>5 DEF Tick, OlderVoid, Times
  <1>6. CASE Decide \/ EndArm \/ Write \/ Drop \/ Open \/ Receive \/ Disconnect
      BY <1>6 DEF Decide, EndArm, Write, Drop, Open, Receive, Disconnect, causes, Times
  <1>7. CASE ReadSerial \/ SampleImu \/ ControlStep \/ PublishTelemetry \/ Reset \/ Noise
      BY <1>7 DEF ReadSerial, SampleImu, ControlStep, PublishTelemetry, Reset, Noise, causes, Times
  <1> QED
      BY <1>2, <1>3, <1>4, <1>5, <1>6, <1>7 DEF PathNext

\* What the request and the drive come from after a step.
LEMMA DriveSteps ==
  ASSUME PathNext
  PROVE  \/ Serve \/ Restart \/ ReadSerial \/ SampleImu \/ ControlStep \/ Reset \/ Tick
         \/ UNCHANGED <<request, drive, requestCause, driveCause, commandSeen, commandAge, controlAge>>
  <1>1. CASE Hear \/ Decide \/ EndArm \/ Write \/ Drop
      BY <1>1 DEF Hear, Decide, EndArm, Write, Drop, firmware, causes
  <1>2. CASE Open \/ Receive \/ Disconnect \/ PublishTelemetry \/ Noise
      BY <1>2 DEF Open, Receive, Disconnect, PublishTelemetry, Noise, firmware, causes
  <1> QED
      BY <1>1, <1>2 DEF PathNext

LEMMA TimesStep ==
  ASSUME HostLines, Shaped, PathNext
  PROVE  Times'
  <1>1. Times /\ BridgeShaped
      BY DEF Shaped
  <1>2. pendingAge' \in 0..Preempt /\ decidedAge' \in 0..(CommandTimeout + pendingAge')
    <2>1. CASE Decide
      <3>1. CASE Decided'
        <4>1. decidedAge' = commandStamp /\ pendingAge' = 0
            BY <2>1, <3>1 DEF Decide, Decided
        <4>2. commandStamp <= CommandTimeout /\ commandStamp \in 0..CommandNever
            BY <1>1, <2>1, <3>1, DecidedFresh DEF Fresh, BridgeShaped
        <4> QED
            BY <4>1, <4>2, Spans DEF CommandNever
      <3>2. CASE ~Decided'
        <4>1. decidedAge' = 0 /\ pendingAge' = 0
            BY <2>1, <3>2 DEF Decide, Decided
        <4> QED
            BY <4>1, Spans
      <3> QED
          BY <3>1, <3>2
    <2>2. CASE Written
        BY <1>1, <2>2, Spans DEF Written, Times
    <2>3. CASE Tick
      <3>1. /\ pending # <<>> => pendingAge < Preempt
            /\ pendingAge' = IF pending = <<>> THEN 0 ELSE pendingAge + 1
            /\ decidedAge' = IF pending = <<>> THEN 0 ELSE decidedAge + 1
          BY <2>3 DEF Tick
      <3> QED
          BY <1>1, <3>1, Spans DEF Times
    <2>4. CASE pendingAge' = 0 /\ decidedAge' = 0
        BY <2>4, Spans
    <2>5. CASE UNCHANGED <<pendingAge, decidedAge>>
        BY <1>1, <2>5 DEF Times
    <2> QED
        BY <2>1, <2>2, <2>3, <2>4, <2>5, PendingSteps
  <1>3. requestCause' \in Cause /\ driveCause' \in Cause
    <2>1. requestCause \in Cause /\ driveCause \in Cause
        BY <1>1 DEF Times
    <2>2. CASE Serve \/ Restart
        BY <2>1, <2>2, CausesTyped DEF Serve, Restart, WithdrawCommands
    <2>3. CASE ReadSerial
      <3>1. Head(toMcu).cause \in Cause
        <4>1. Head(toMcu) \in Parcel
            BY <2>3, TailsOfLines DEF Shaped, ReadSerial
        <4> QED
            BY <4>1 DEF Parcel
      <3> QED
          BY <2>1, <2>3, <3>1, CausesTyped DEF ReadSerial
    <2>4. CASE SampleImu \/ ControlStep
        BY <2>1, <2>4, CausesTyped DEF SampleImu, ControlStep
    <2>5. CASE Reset
      <3>1. requestCause' = NoCause /\ driveCause' = NoCause
          BY <2>5 DEF Reset
      <3> QED
          BY <2>1, <3>1, CausesTyped
    <2>6. CASE Tick
        BY <2>1, <2>6, CausesTyped DEF Tick
    <2> QED
        BY <2>1, <2>2, <2>3, <2>4, <2>5, <2>6, DriveSteps
  <1> QED
      BY <1>2, <1>3, <1>1, HeardVoidSteps DEF Times

\* How long the bridge has forbidden motion.
LEMMA HeldSteps ==
  ASSUME heldAge \in 0..(HoldBound + 1), PathNext
  PROVE  \/ ~Forbids' /\ heldAge' = 0
         \/ Forbids' /\ Still' /\ heldAge' = HoldBound + 1
         \/ Forbids' /\ heldAge' = IF Tick THEN Older(heldAge, HoldBound + 1) ELSE heldAge
  <1>1. CASE Tick
      BY <1>1 DEF Tick, HeldSince
  <1>2. CASE ~Tick
    <2>1. HeldSince(heldAge)
        BY <1>2 DEF PathNext, Hear, Decide, Serve, EndArm, Write, Drop, Restart, Open, Receive,
                    Disconnect, ReadSerial, SampleImu, ControlStep, PublishTelemetry, Reset, Noise, Held
    <2> QED
        BY <1>2, <2>1 DEF HeldSince
  <1> QED
      BY <1>1, <1>2

LEMMA ShapedStep ==
  ASSUME HostLines, FirmwareInv, Shaped, PathNext
  PROVE  Shaped'
  <1>1. heldAge' \in 0..(HoldBound + 1)
    <2>1. heldAge \in 0..(HoldBound + 1) /\ HoldBound + 1 \in Nat
        BY Spans DEF Shaped
    <2>2. heldAge' \in {0, HoldBound + 1, heldAge, Older(heldAge, HoldBound + 1)}
        BY <2>1, HeldSteps
    <2>3. Older(heldAge, HoldBound + 1) \in 0..(HoldBound + 1)
        BY <2>1, GrowsOlder
    <2> QED
        BY <2>1, <2>2, <2>3
  <1>2. toMcu' \in Seq(Parcel)
      BY LineSteps, TickLines
  <1>3. toHost' \in Seq(Frame)
    <2>1. CASE PublishTelemetry
      <3>1. \E t \in Turnings : toHost' = Append(toHost, [fault |-> fault, turning |-> t])
          BY <2>1 DEF PublishTelemetry
      <3>2. \A t \in Turnings : [fault |-> fault, turning |-> t] \in Frame
          BY PathAssumption DEF FirmwareInv, FirmwareTypeOK, Frame
      <3> QED
          BY <3>1, <3>2 DEF Shaped
    <2>2. CASE Open
        BY <2>2 DEF Open, Shaped
    <2>3. CASE Receive
        BY <2>3, TailsOfLines DEF Receive, Shaped
    <2>4. CASE UNCHANGED toHost
        BY <2>4 DEF Shaped
    <2>5. CASE Hear \/ Decide \/ Serve \/ EndArm \/ Write \/ Drop \/ Restart \/ Disconnect
        BY <2>4, <2>5 DEF Hear, Decide, Serve, EndArm, Write, Drop, Restart, Disconnect, wires
    <2>6. CASE ReadSerial \/ SampleImu \/ ControlStep \/ Reset \/ Noise \/ Tick
        BY <2>4, <2>6 DEF ReadSerial, SampleImu, ControlStep, Reset, Noise, Tick, wires
    <2> QED
        BY <2>1, <2>2, <2>3, <2>5, <2>6 DEF PathNext
  <1> QED
      BY <1>1, <1>2, <1>3, FlagsStep, TimesStep DEF Shaped

-----------------------------------------------------------------------------
(* Ages. *)

LEMMA Ages ==
  ASSUME FirmwareInv, Shaped
  PROVE  /\ requestCause.age \in Nat /\ requestCause.void \in Int
         /\ driveCause.age \in Nat /\ driveCause.void \in Int
         /\ requestCause \in Cause /\ driveCause \in Cause
         /\ commandAge \in Nat /\ commandAge <= CommandCap
         /\ controlAge \in Nat /\ controlAge <= Control + Latency
         /\ pendingAge \in Nat /\ pendingAge <= Preempt
         /\ decidedAge \in Nat /\ decidedAge <= CommandTimeout + pendingAge
         /\ commandStamp \in Nat /\ heldAge \in Nat
         /\ Len(toMcu) \in Nat /\ DOMAIN toMcu = 1..Len(toMcu)
         /\ \A i \in DOMAIN toMcu :
              /\ i \in Nat /\ toMcu[i].line \in AnyLine
              /\ toMcu[i].cause \in Cause
              /\ toMcu[i].cause.age \in Nat /\ toMcu[i].cause.void \in Int
              /\ toMcu[i].wire \in Nat /\ toMcu[i].wire <= Transit
  <1>1. \A c \in Cause : c.age \in Nat /\ c.void \in Int
      BY Spans DEF Cause, Valid
  <1>2. requestCause \in Cause /\ driveCause \in Cause
      BY DEF Shaped, Times
  <1>3. /\ commandAge \in Nat /\ commandAge <= CommandCap
        /\ controlAge \in Nat /\ controlAge <= Control + Latency
      BY Spans DEF FirmwareInv, FirmwareTypeOK
  <1>4. /\ pendingAge \in Nat /\ pendingAge <= Preempt
        /\ decidedAge \in Nat /\ decidedAge <= CommandTimeout + pendingAge
      BY Spans DEF Shaped, Times
  <1>5. commandStamp \in Nat /\ heldAge \in Nat
      BY Spans DEF Shaped, BridgeShaped, CommandNever
  <1>6. Len(toMcu) \in Nat /\ DOMAIN toMcu = 1..Len(toMcu) /\ \A i \in DOMAIN toMcu : toMcu[i] \in Parcel
      BY SequenceFacts DEF Shaped
  <1>7. ASSUME NEW i \in DOMAIN toMcu
        PROVE  /\ i \in Nat /\ toMcu[i].line \in AnyLine
               /\ toMcu[i].cause \in Cause
               /\ toMcu[i].wire \in Nat /\ toMcu[i].wire <= Transit
    <2>1. toMcu[i] \in Parcel /\ i \in Nat
        BY <1>6
    <2> QED
        BY <2>1, Spans DEF Parcel
  <1> QED
      BY <1>1, <1>2, <1>3, <1>4, <1>5, <1>6, <1>7

\* The cause of what is asked survives that it is withdrawn, and grows older.
LEMMA WithdrawnCause ==
  ASSUME NEW t, NEW c \in Cause
  PROVE  /\ Withdrawn(t, c).age = c.age /\ Withdrawn(t, c).void \in {c.void, 0}
         /\ ~Moving(t) => Withdrawn(t, c) = c
         /\ \A d \in Nat : Fits(t, c, d) => Fits(t, Withdrawn(t, c), d)
  <1>1. /\ Withdrawn(t, c).age = c.age /\ Withdrawn(t, c).void \in {c.void, 0}
        /\ ~Moving(t) => Withdrawn(t, c) = c
      BY DEF Withdrawn, Cause
  <1>2. c.void \in Int
      BY Spans DEF Cause, Valid
  <1> QED
      BY <1>1, <1>2 DEF Fits

LEMMA AgedCause ==
  ASSUME NEW t, NEW c \in Cause
  PROVE  /\ Moving(t) /\ c.age <= Lease => Aged(t, c).age = c.age + 1
         /\ Moving(t) => Aged(t, c).void = OlderVoid(c.void)
         /\ ~Moving(t) => Aged(t, c) = NoCause
         /\ \A d \in Nat : Fits(t, c, d) => Fits(t, Aged(t, c), d + 1)
  <1>1. c.age \in Nat /\ c.void \in Int /\ (c.void = Valid \/ c.void \in Nat)
      BY Spans DEF Cause, Valid
  <1>2. ~Moving(t) => Aged(t, c) = NoCause
      BY DEF Aged, CauseFor
  <1>3. Moving(t) => Aged(t, c).age = Older(c.age, Lease + 1) /\ Aged(t, c).void = OlderVoid(c.void)
      BY DEF Aged, CauseFor
  <1>4. Older(c.age, Lease + 1) <= c.age + 1 /\ (c.age <= Lease => Older(c.age, Lease + 1) = c.age + 1)
        /\ Older(c.age, Lease + 1) \in Nat
      BY <1>1, Spans DEF Older
  <1>5. \A d \in Nat : c.void <= d => OlderVoid(c.void) <= d + 1
      BY <1>1, Spans DEF OlderVoid, Older, Valid
  <1>6. ASSUME NEW d \in Nat, Fits(t, c, d) PROVE Fits(t, Aged(t, c), d + 1)
    <2>1. CASE Moving(t)
      <3>1. c.age <= CommandTimeout + Preempt + d /\ c.void <= d
          BY <1>6, <2>1 DEF Fits
      <3>2. Aged(t, c).age <= CommandTimeout + Preempt + (d + 1)
          BY <1>1, <1>3, <1>4, <2>1, <3>1, Spans
      <3>3. Aged(t, c).void <= d + 1
          BY <1>3, <1>5, <2>1, <3>1
      <3> QED
          BY <2>1, <3>2, <3>3 DEF Fits
    <2> QED
        BY <1>2, <2>1 DEF Fits
  <1> QED
      BY <1>2, <1>3, <1>4, <1>6

LEMMA FitsLonger ==
  ASSUME NEW t, NEW c \in Cause, NEW d \in Nat, NEW e \in Nat, d <= e, Fits(t, c, d)
  PROVE  Fits(t, c, e)
  <1>1. c.age \in Nat /\ c.void \in Int
      BY Spans DEF Cause, Valid
  <1> QED
      BY <1>1, Spans DEF Fits

\* What a step makes of the request and of the drive.
Stopped ==
  request' = Zero /\ drive' = Zero /\ requestCause' = NoCause /\ driveCause' = NoCause
Kept ==
  /\ UNCHANGED <<request, drive, commandSeen, commandAge, controlAge>>
  /\ requestCause' \in {requestCause, Withdrawn(request, requestCause)}
  /\ driveCause' \in {driveCause, Withdrawn(drive, driveCause)}
Accepted ==
  /\ ReadSerial
  /\ request' = toMcu[1].line.targets /\ requestCause' = toMcu[1].cause
  /\ commandSeen' /\ commandAge' = 0
  /\ UNCHANGED <<drive, driveCause, controlAge>>
Regulated ==
  /\ \/ UNCHANGED <<request, requestCause>>
     \/ request' = Zero /\ requestCause' = NoCause
  /\ Moving(request') => commandSeen /\ commandAge <= Watchdog
  /\ \/ drive' = request' /\ driveCause' = requestCause'
     \/ drive' = Zero /\ driveCause' = NoCause
  /\ controlAge' = 0 /\ UNCHANGED <<commandSeen, commandAge>>

LEMMA ZeroFits == \A d : Fits(Zero, NoCause, d)
  BY ZeroIsStill DEF Fits

LEMMA FlowSteps ==
  ASSUME HostLines, FirmwareInv, Shaped, Aging, PathNext
  PROVE  Stopped \/ Kept \/ Accepted \/ Regulated \/ Tick
  <1>1. CauseFor(request, requestCause) = requestCause /\ CauseFor(drive, driveCause) = driveCause
      BY DEF Aging, Fits, CauseFor
  <1>2. CauseFor(Zero, requestCause) = NoCause /\ CauseFor(Zero, driveCause) = NoCause
      BY ZeroIsStill DEF CauseFor
  <1>3. CASE Serve \/ Restart
      BY <1>3 DEF Serve, Restart, WithdrawCommands, firmware, Kept
  <1>4. CASE ReadSerial
    <2>1. Head(toMcu) = toMcu[1] /\ toMcu[1].line \in AnyLine
        BY <1>4, Ages, SequenceFacts DEF ReadSerial, Shaped
    <2>2. CASE toMcu[1].line.kind = "STOP" /\ HandleStop
        BY <1>2, <1>4, <2>1, <2>2 DEF ReadSerial, HandleStop, StopDrive, Stopped
    <2>3. CASE \/ toMcu[1].line.kind = "CLEAR" /\ HandleClear
               \/ toMcu[1].line.kind = "BAD" /\ HandleBad
        BY <1>1, <1>4, <2>1, <2>3 DEF ReadSerial, HandleClear, HandleBad, firmware, Kept
    <2>4. CASE toMcu[1].line.kind = "CMD" /\ HandleCmd(toMcu[1].line.targets)
      <3>1. CASE fault # "NONE"
          BY <1>1, <1>4, <2>1, <2>4, <3>1 DEF ReadSerial, HandleCmd, firmware, Kept
      <3>2. CASE fault = "NONE"
          BY <1>1, <1>4, <2>1, <2>4, <3>2 DEF ReadSerial, HandleCmd, Accepted
      <3> QED
          BY <3>1, <3>2
    <2> QED
        BY <1>4, <2>1, <2>2, <2>3, <2>4 DEF ReadSerial, HandleLine
  <1>5. CASE SampleImu
      BY <1>1, <1>2, <1>5 DEF SampleImu, UpdateImu, StopDrive, Stopped, Kept
  <1>6. CASE ControlStep
    <2>1. /\ requestCause' = CauseFor(request', requestCause)
          /\ driveCause' = CauseFor(drive', requestCause)
        BY <1>6 DEF ControlStep
    <2>2. /\ controlAge' = 0 /\ UNCHANGED <<commandSeen, commandAge>>
          /\ request' = IF commandSeen /\ commandAge > Watchdog THEN Zero ELSE request
          /\ drive' \in {Zero, request'}
        BY <1>6 DEF ControlStep, UpdateControl
    <2>3. Moving(request') => commandSeen /\ commandAge <= Watchdog
        BY <2>2, ZeroIsStill, Ages, Spans DEF Aging
    <2>4. \/ UNCHANGED <<request, requestCause>>
          \/ request' = Zero /\ requestCause' = NoCause
        BY <1>1, <1>2, <2>1, <2>2
    <2>5. \/ drive' = request' /\ driveCause' = requestCause'
          \/ drive' = Zero /\ driveCause' = NoCause
        BY <1>2, <2>1, <2>2
    <2> QED
        BY <2>2, <2>3, <2>4, <2>5 DEF Regulated
  <1>7. CASE Reset
      BY <1>7 DEF Reset, Setup, StopDrive, Stopped
  <1>8. CASE UNCHANGED <<request, drive, requestCause, driveCause, commandSeen, commandAge, controlAge>>
      BY <1>8 DEF Kept
  <1> QED
      BY <1>3, <1>4, <1>5, <1>6, <1>7, <1>8, DriveSteps

LEMMA LinesAge ==
  ASSUME HostLines, FirmwareInv, Shaped, Aging, PathNext
  PROVE  \A i \in DOMAIN toMcu' : Fits(toMcu'[i].line.targets, toMcu'[i].cause, toMcu'[i].wire)
  <1>1. \A i \in DOMAIN toMcu :
          /\ toMcu[i].cause \in Cause /\ toMcu[i].wire \in Nat
          /\ Fits(toMcu[i].line.targets, toMcu[i].cause, toMcu[i].wire)
      BY Ages DEF Aging
  <1>2. ASSUME Tick, NEW i \in DOMAIN toMcu'
        PROVE  Fits(toMcu'[i].line.targets, toMcu'[i].cause, toMcu'[i].wire)
    <2>1. /\ i \in DOMAIN toMcu
          /\ toMcu'[i].line = toMcu[i].line /\ toMcu'[i].wire = toMcu[i].wire + 1
          /\ toMcu'[i].cause = Aged(toMcu[i].line.targets, toMcu[i].cause)
        BY <1>2, TickLines
    <2>2. Fits(toMcu[i].line.targets, Aged(toMcu[i].line.targets, toMcu[i].cause), toMcu[i].wire + 1)
        BY <1>1, <2>1, AgedCause
    <2> QED
        BY <2>1, <2>2
  <1>3. ASSUME ~Tick, NEW i \in DOMAIN toMcu'
        PROVE  Fits(toMcu'[i].line.targets, toMcu'[i].cause, toMcu'[i].wire)
    <2>1. PICK s \in {0, 1} : Advances(s)
        BY <1>3, LineSteps
    <2>2. CASE i + s \in DOMAIN toMcu /\ Stays(i, i + s)
      <3> DEFINE j == i + s
      <3> HIDE DEF j
      <3>1. j \in DOMAIN toMcu /\ Stays(i, j)
          BY <2>2 DEF j
      <3>2. /\ Fits(toMcu[j].line.targets, toMcu[j].cause, toMcu[j].wire)
            /\ Fits(toMcu[j].line.targets, Withdrawn(toMcu[j].line.targets, toMcu[j].cause), toMcu[j].wire)
          BY <1>1, <3>1, WithdrawnCause
      <3> QED
          BY <3>1, <3>2 DEF Stays
    <2>3. CASE MovesNothing(i)
        BY <2>3 DEF MovesNothing, Fits
    <2>4. CASE Write /\ toMcu'[i] = OnWire(Head(pending))
      <3>1. Head(pending) \in AnyLine
          BY <2>4, TailsOfLines DEF Write, WriteLine, HostLines, Deciding
      <3>2. decidedAge <= CommandTimeout + Preempt + 0
          BY Ages, Spans
      <3>3. toMcu'[i].wire = 0 /\ toMcu'[i].line = Head(pending)
            /\ toMcu'[i].cause = IF Moving(toMcu'[i].line.targets)
                                 THEN [age |-> decidedAge, void |-> Valid] ELSE NoCause
          BY <2>4, <3>1, WrittenLine DEF Shaped
      <3> QED
          BY <3>2, <3>3 DEF Fits, Valid
    <2> QED
        BY <2>1, <2>2, <2>3, <2>4 DEF Advances
  <1> QED
      BY <1>2, <1>3

\* How old the cause of what is asked and of what is driven may be.
FitsRequest == Fits(request, requestCause, Transit + commandAge)
FitsDrive == Fits(drive, driveCause, Transit + Watchdog + controlAge)
Watched == Moving(request) => commandSeen /\ commandAge <= Watchdog + controlAge

LEMMA FlowAges ==
  ASSUME HostLines, FirmwareInv, Shaped, Aging, PathNext
  PROVE  FitsRequest' /\ FitsDrive' /\ Watched'
  <1>1. FitsRequest /\ FitsDrive /\ Watched
      BY DEF Aging, FitsRequest, FitsDrive, Watched
  <1>2. /\ requestCause \in Cause /\ driveCause \in Cause
        /\ commandAge \in Nat /\ controlAge \in Nat /\ Transit \in Nat /\ Watchdog \in Nat
        /\ Transit + commandAge \in Nat /\ Transit + Watchdog + controlAge \in Nat
        /\ Transit + Watchdog \in Nat
    <2>1. /\ requestCause \in Cause /\ driveCause \in Cause /\ commandAge \in Nat /\ controlAge \in Nat
        BY Ages
    <2>2. Transit \in Nat /\ Watchdog \in Nat
        BY Spans
    <2> QED
        BY <2>1, <2>2
  <1>3. CASE Stopped
    <2>1. request' = Zero /\ drive' = Zero /\ requestCause' = NoCause /\ driveCause' = NoCause
        BY <1>3 DEF Stopped
    <2> QED
        BY <2>1, ZeroIsStill, ZeroFits DEF FitsRequest, FitsDrive, Watched
  <1>4. CASE Kept
    <2>1. /\ Fits(request, Withdrawn(request, requestCause), Transit + commandAge)
          /\ Fits(drive, Withdrawn(drive, driveCause), Transit + Watchdog + controlAge)
        BY <1>1, <1>2, WithdrawnCause DEF FitsRequest, FitsDrive
    <2> QED
        BY <1>1, <1>4, <2>1 DEF Kept, FitsRequest, FitsDrive, Watched
  <1>5. CASE Accepted
    <2>1. 1 \in DOMAIN toMcu
        BY <1>5, SequenceFacts DEF Accepted, ReadSerial, Shaped
    <2>2. /\ Fits(toMcu[1].line.targets, toMcu[1].cause, toMcu[1].wire)
          /\ toMcu[1].cause \in Cause /\ toMcu[1].wire \in Nat /\ toMcu[1].wire <= Transit
        BY <2>1, Ages DEF Aging
    <2>3. Fits(toMcu[1].line.targets, toMcu[1].cause, Transit)
        BY <1>2, <2>2, FitsLonger
    <2>4. Transit + commandAge' = Transit /\ 0 <= Watchdog + controlAge
        BY <1>2, <1>5 DEF Accepted
    <2>5. FitsRequest'
        BY <1>5, <2>3, <2>4 DEF Accepted, FitsRequest
    <2> QED
        BY <1>1, <1>5, <2>4, <2>5 DEF Accepted, FitsDrive, Watched
  <1>6. CASE Regulated
    <2>1. /\ \/ UNCHANGED <<request, requestCause>>
             \/ request' = Zero /\ requestCause' = NoCause
          /\ Moving(request') => commandSeen /\ commandAge <= Watchdog
          /\ \/ drive' = request' /\ driveCause' = requestCause'
             \/ drive' = Zero /\ driveCause' = NoCause
          /\ controlAge' = 0 /\ commandSeen' = commandSeen /\ commandAge' = commandAge
        BY <1>6 DEF Regulated
    <2>2. FitsRequest'
        BY <1>1, <2>1, ZeroFits DEF FitsRequest
    <2>3. Fits(request', requestCause', Transit + Watchdog)
      <3>1. CASE Moving(request')
        <4>1. UNCHANGED <<request, requestCause>> /\ Transit + commandAge <= Transit + Watchdog
            BY <1>2, <2>1, <3>1, ZeroIsStill
        <4> QED
            BY <1>1, <1>2, <4>1, FitsLonger DEF FitsRequest
      <3>2. CASE ~Moving(request')
          BY <2>2, <3>2 DEF FitsRequest, Fits
      <3> QED
          BY <3>1, <3>2
    <2>4. Fits(drive', driveCause', Transit + Watchdog)
        BY <2>1, <2>3, ZeroFits
    <2>5. Transit + Watchdog + controlAge' = Transit + Watchdog /\ Watchdog + controlAge' = Watchdog
        BY <1>2, <2>1
    <2> QED
        BY <2>1, <2>2, <2>4, <2>5 DEF FitsDrive, Watched
  <1>7. CASE Tick
    <2>1. /\ controlAge < Control + Latency /\ controlAge' = controlAge + 1
          /\ commandAge' = IF commandAge < CommandCap THEN commandAge + 1 ELSE commandAge
          /\ UNCHANGED <<request, drive, commandSeen>>
          /\ requestCause' = Aged(request, requestCause) /\ driveCause' = Aged(drive, driveCause)
        BY <1>7 DEF Tick, FirmwareTick
    <2>2. Moving(request) => commandAge' = commandAge + 1
        BY <1>1, <1>2, <2>1, Spans DEF Watched
    <2>3. FitsRequest'
      <3>1. CASE Moving(request)
        <4>1. Transit + commandAge' = (Transit + commandAge) + 1
            BY <1>2, <2>2, <3>1
        <4>2. Fits(request, Aged(request, requestCause), (Transit + commandAge) + 1)
            BY <1>1, <1>2, AgedCause DEF FitsRequest
        <4> QED
            BY <2>1, <4>1, <4>2 DEF FitsRequest
      <3>2. CASE ~Moving(request)
        <4>1. requestCause' = NoCause
            BY <1>2, <2>1, <3>2, AgedCause
        <4> QED
            BY <2>1, <3>2, <4>1 DEF FitsRequest, Fits
      <3> QED
          BY <3>1, <3>2
    <2>4. FitsDrive'
      <3>1. Transit + Watchdog + controlAge' = (Transit + Watchdog + controlAge) + 1
          BY <1>2, <2>1
      <3>2. Fits(drive, Aged(drive, driveCause), (Transit + Watchdog + controlAge) + 1)
          BY <1>1, <1>2, AgedCause DEF FitsDrive
      <3> QED
          BY <2>1, <3>1, <3>2 DEF FitsDrive
    <2>5. Watched'
        BY <1>1, <1>2, <2>1, <2>2 DEF Watched
    <2> QED
        BY <2>3, <2>4, <2>5
  <1> QED
      BY <1>3, <1>4, <1>5, <1>6, <1>7, FlowSteps

LEMMA AgingStep ==
  ASSUME HostLines, FirmwareInv, Shaped, Aging, PathNext
  PROVE  Aging'
  BY LinesAge, FlowAges DEF Aging, FitsRequest, FitsDrive, Watched

LEMMA AgingStart == PathInit => Aging
  <1> SUFFICES ASSUME PathInit PROVE Aging
      OBVIOUS
  <1>1. /\ request = Zero /\ drive = Zero /\ requestCause = NoCause /\ driveCause = NoCause
        /\ DOMAIN toMcu = {}
      BY DEF PathInit, FirmwareInit
  <1> QED
      BY <1>1, ZeroIsStill, ZeroFits DEF Aging

-----------------------------------------------------------------------------
(* Order. *)

\* After and Newest, of the state a step leads to.
AfterNext(a) ==
  /\ Moving(request') => a <= requestCause'.age
  /\ Moving(drive') => a <= driveCause'.age
NewestNext(a) ==
  /\ AfterNext(a)
  /\ \A i \in DOMAIN toMcu' : Moving(toMcu'[i].line.targets) => a <= toMcu'[i].cause.age

\* The command heard last, as a step leaves it.
LEMMA StampSteps ==
  ASSUME PathNext
  PROVE  \/ Hear /\ commandStamp' = 0
         \/ Serve /\ commandStamp' = CommandNever
         \/ Restart /\ commandStamp' = CommandNever
         \/ Tick /\ commandStamp' = Older(commandStamp, CommandNever)
         \/ UNCHANGED commandStamp
  <1>1. CASE Hear
      BY <1>1 DEF Hear, CmdCallback
  <1>2. CASE Serve
      BY <1>2 DEF Serve, Lock, Arm, ClearMotorFault, ForgetCommand
  <1>3. CASE Restart
      BY <1>3 DEF Restart, BridgeRestart
  <1>4. CASE Tick
      BY <1>4 DEF Tick, BridgeTick
  <1>5. CASE Decide
      BY <1>5 DEF Decide, CommandTick
  <1>6. CASE EndArm \/ Open \/ Receive
      BY <1>6 DEF EndArm, Open, Receive, FinishArm, OpenSerial, ReaderDies, HandleTelemetryFrame
  <1> QED
      BY <1>1, <1>2, <1>3, <1>4, <1>5, <1>6, FlagSteps

\* No cause that moves anything is older than Lease.
LEMMA WithinLease ==
  ASSUME FirmwareInv, Shaped, Aging
  PROVE  /\ Moving(request) => requestCause.age <= Lease
         /\ Moving(drive) => driveCause.age <= Lease /\ driveCause.void <= Recall
         /\ \A i \in DOMAIN toMcu : Moving(toMcu[i].line.targets) => toMcu[i].cause.age <= Lease
  <1>1. Moving(request) => requestCause.age <= CommandTimeout + Preempt + (Transit + commandAge)
                           /\ commandAge <= Watchdog + controlAge
      BY DEF Aging, Fits
  <1>2. Moving(drive) => /\ driveCause.age <= CommandTimeout + Preempt + (Transit + Watchdog + controlAge)
                         /\ driveCause.void <= Transit + Watchdog + controlAge
      BY DEF Aging, Fits
  <1>3. /\ requestCause.age \in Nat /\ driveCause.age \in Nat /\ driveCause.void \in Int
        /\ commandAge \in Nat /\ controlAge \in Nat /\ controlAge <= Control + Latency
      BY Ages
  <1>4. ASSUME NEW i \in DOMAIN toMcu, Moving(toMcu[i].line.targets) PROVE toMcu[i].cause.age <= Lease
    <2>1. toMcu[i].cause.age <= CommandTimeout + Preempt + toMcu[i].wire
        BY <1>4 DEF Aging, Fits
    <2>2. toMcu[i].cause.age \in Nat /\ toMcu[i].wire \in Nat /\ toMcu[i].wire <= Transit
        BY Ages
    <2> QED
        BY <2>1, <2>2, Spans
  <1> QED
      BY <1>1, <1>2, <1>3, <1>4, Spans

\* As time passes everything that moves grows older alike.
LEMMA TickAges ==
  ASSUME FirmwareInv, Shaped, Aging, Tick
  PROVE  /\ UNCHANGED <<request, drive, pending>>
         /\ Moving(request) => requestCause'.age = requestCause.age + 1
         /\ Moving(drive) => driveCause'.age = driveCause.age + 1
         /\ DOMAIN toMcu' = DOMAIN toMcu
         /\ \A i \in DOMAIN toMcu :
              /\ toMcu'[i].line = toMcu[i].line
              /\ Moving(toMcu[i].line.targets) => toMcu'[i].cause.age = toMcu[i].cause.age + 1
         /\ pending # <<>> => decidedAge' = decidedAge + 1
         /\ Fresh' => Fresh /\ commandStamp' = commandStamp + 1
  <1>1. UNCHANGED <<request, drive, pending>> /\ (pending # <<>> => decidedAge' = decidedAge + 1)
      BY DEF Tick, BridgeTick, FirmwareTick
  <1>2. Fresh' => Fresh /\ commandStamp' = commandStamp + 1
    <2>1. commandStamp' = Older(commandStamp, CommandNever) /\ commandStamp \in Nat
        BY Ages DEF Tick, BridgeTick
    <2> QED
        BY <2>1, Spans DEF Fresh, Older, CommandNever
  <1>3. /\ Moving(request) => requestCause'.age = requestCause.age + 1
        /\ Moving(drive) => driveCause'.age = driveCause.age + 1
    <2>1. requestCause' = Aged(request, requestCause) /\ driveCause' = Aged(drive, driveCause)
        BY DEF Tick
    <2>2. requestCause \in Cause /\ driveCause \in Cause
        BY Ages
    <2> QED
        BY <2>1, <2>2, WithinLease, AgedCause
  <1>4. ASSUME NEW i \in DOMAIN toMcu, Moving(toMcu[i].line.targets)
        PROVE  toMcu'[i].cause.age = toMcu[i].cause.age + 1
    <2>1. toMcu'[i].cause = Aged(toMcu[i].line.targets, toMcu[i].cause) /\ toMcu[i].cause \in Cause
        BY TickLines, Ages
    <2> QED
        BY <1>4, <2>1, WithinLease, AgedCause
  <1> QED
      BY <1>1, <1>2, <1>3, <1>4, TickLines

LEMMA TickNewest ==
  ASSUME FirmwareInv, Shaped, Aging, Tick, NEW a \in Nat
  PROVE  /\ After(a) => AfterNext(a + 1)
         /\ Newest(a) => NewestNext(a + 1)
  <1>1. After(a) => AfterNext(a + 1)
    <2>1. requestCause.age \in Nat /\ driveCause.age \in Nat
        BY Ages
    <2> QED
        BY <2>1, TickAges DEF After, AfterNext
  <1>2. ASSUME Newest(a), NEW i \in DOMAIN toMcu', Moving(toMcu'[i].line.targets)
        PROVE  a + 1 <= toMcu'[i].cause.age
    <2>1. i \in DOMAIN toMcu /\ Moving(toMcu[i].line.targets) /\ toMcu'[i].cause.age = toMcu[i].cause.age + 1
        BY <1>2, TickAges
    <2>2. toMcu[i].cause.age \in Nat /\ a <= toMcu[i].cause.age
        BY <1>2, <2>1, Ages DEF Newest
    <2> QED
        BY <2>1, <2>2
  <1> QED
      BY <1>1, <1>2 DEF Newest, NewestNext

LEMMA OrderingTick ==
  ASSUME FirmwareInv, Shaped, Aging, Ordering, Tick
  PROVE  Ordering'
  <1>1. Moving(request') /\ Moving(drive') => requestCause'.age <= driveCause'.age
    <2>1. requestCause.age \in Nat /\ driveCause.age \in Nat
        BY Ages
    <2> QED
        BY <2>1, TickAges DEF Ordering
  <1>2. ASSUME NEW i \in DOMAIN toMcu', Moving(toMcu'[i].line.targets)
        PROVE  /\ AfterNext(toMcu'[i].cause.age)
               /\ \A j \in DOMAIN toMcu' :
                    i < j /\ Moving(toMcu'[j].line.targets) => toMcu'[j].cause.age <= toMcu'[i].cause.age
    <2>1. /\ i \in DOMAIN toMcu /\ Moving(toMcu[i].line.targets)
          /\ toMcu'[i].cause.age = toMcu[i].cause.age + 1 /\ toMcu[i].cause.age \in Nat
        BY <1>2, TickAges, Ages
    <2>2. After(toMcu[i].cause.age)
        BY <2>1 DEF Ordering
    <2>3. ASSUME NEW j \in DOMAIN toMcu', i < j, Moving(toMcu'[j].line.targets)
          PROVE  toMcu'[j].cause.age <= toMcu'[i].cause.age
      <3>1. /\ j \in DOMAIN toMcu /\ Moving(toMcu[j].line.targets)
            /\ toMcu'[j].cause.age = toMcu[j].cause.age + 1 /\ toMcu[j].cause.age \in Nat
          BY <2>3, TickAges, Ages
      <3>2. toMcu[j].cause.age <= toMcu[i].cause.age
          BY <2>1, <2>3, <3>1 DEF Ordering
      <3> QED
          BY <2>1, <3>1, <3>2
    <2> QED
        BY <2>1, <2>2, <2>3, TickNewest
  <1>3. Decided' => Decided /\ decidedAge' = decidedAge + 1 /\ decidedAge \in Nat
    <2>1. UNCHANGED pending /\ decidedAge \in Nat
        BY TickAges, Ages
    <2>2. Decided => pending # <<>>
        BY DEF Decided
    <2> QED
        BY <2>1, <2>2, TickAges DEF Decided
  <1>4. Decided' => NewestNext(decidedAge')
      BY <1>3, TickNewest DEF Ordering
  <1>5. Fresh' => NewestNext(commandStamp') /\ (Decided' => commandStamp' <= decidedAge')
    <2>1. commandStamp \in Nat
        BY Ages
    <2> QED
        BY <1>3, <2>1, TickAges, TickNewest DEF Ordering
  <1> QED
      BY <1>1, <1>2, <1>4, <1>5 DEF Ordering, After, AfterNext, Newest, NewestNext

\* A line that is read is gone, and those behind it are one further on.
LEMMA OrderedSteps ==
  ASSUME HostLines, Shaped, PathNext, ~Tick
  PROVE  /\ \E s \in {0, 1} : Advances(s) /\ (ReadSerial => s = 1)
         /\ ReadSerial => 1 \in DOMAIN toMcu
  <1>1. ASSUME ReadSerial PROVE Advances(1) /\ 1 \in DOMAIN toMcu
    <2>1. toMcu # <<>> /\ toMcu' = Tail(toMcu) /\ toMcu \in Seq(Parcel)
        BY <1>1 DEF ReadSerial, Shaped
    <2>2. /\ DOMAIN toMcu' = 1..(Len(toMcu) - 1) /\ Len(toMcu) \in Nat /\ DOMAIN toMcu = 1..Len(toMcu)
          /\ \A i \in 1..(Len(toMcu) - 1) : toMcu'[i] = toMcu[i + 1]
          /\ 1 \in DOMAIN toMcu
        BY <2>1, SequenceFacts
    <2>3. \A i \in 1..(Len(toMcu) - 1) : i + 1 \in 1..Len(toMcu)
        BY <2>2
    <2> QED
        BY <2>2, <2>3 DEF Advances, Stays
  <1> QED
      BY <1>1, LineSteps

\* What is further on only changes to what was right behind it.
LEMMA AfterKept ==
  ASSUME HostLines, FirmwareInv, Shaped, Aging, PathNext, ~Tick, NEW a, After(a),
         ReadSerial => (Moving(toMcu[1].line.targets) => a <= toMcu[1].cause.age)
  PROVE  AfterNext(a)
  <1>1. /\ Withdrawn(request, requestCause).age = requestCause.age
        /\ Withdrawn(drive, driveCause).age = driveCause.age
      BY Ages, WithdrawnCause
  <1>2. CASE Stopped
      BY <1>2, ZeroIsStill DEF Stopped, AfterNext
  <1>3. CASE Kept
      BY <1>1, <1>3 DEF Kept, After, AfterNext
  <1>4. CASE Accepted
      BY <1>4 DEF Accepted, After, AfterNext
  <1>5. CASE Regulated
      BY <1>5, ZeroIsStill DEF Regulated, After, AfterNext
  <1> QED
      BY <1>2, <1>3, <1>4, <1>5, FlowSteps

\* What a line that moves the base comes from after a step.
LEMMA MovingLines ==
  ASSUME HostLines, Shaped, PathNext, ~Tick, NEW s \in {0, 1}, Advances(s),
         NEW i \in DOMAIN toMcu', Moving(toMcu'[i].line.targets)
  PROVE  \/ /\ i + s \in DOMAIN toMcu
            /\ toMcu'[i].line = toMcu[i + s].line
            /\ Moving(toMcu[i + s].line.targets)
            /\ toMcu'[i].cause.age = toMcu[i + s].cause.age /\ toMcu'[i].wire = toMcu[i + s].wire
         \/ /\ Write /\ s = 0 /\ i = Len(toMcu) + 1 /\ Decided
            /\ toMcu'[i].cause.age = decidedAge /\ toMcu'[i].wire = 0
  <1>1. CASE i + s \in DOMAIN toMcu /\ Stays(i, i + s)
    <2> DEFINE j == i + s
    <2> HIDE DEF j
    <2>1. j \in DOMAIN toMcu /\ Stays(i, j)
        BY <1>1 DEF j
    <2>2. toMcu[j].cause \in Cause
      <3>1. toMcu[j] \in Parcel
          BY <2>1, SequenceFacts DEF Shaped
      <3> QED
          BY <3>1 DEF Parcel
    <2>3. Withdrawn(toMcu[j].line.targets, toMcu[j].cause).age = toMcu[j].cause.age
        BY <2>2, WithdrawnCause
    <2>4. /\ toMcu'[i].line = toMcu[j].line /\ toMcu'[i].wire = toMcu[j].wire
          /\ toMcu'[i].cause.age = toMcu[j].cause.age
        BY <2>1, <2>3 DEF Stays
    <2>5. Moving(toMcu[j].line.targets)
        BY <2>4
    <2> QED
        BY <2>1, <2>4, <2>5 DEF j
  <1>2. CASE MovesNothing(i)
      BY <1>2 DEF MovesNothing
  <1>3. CASE Write /\ s = 0 /\ i = Len(toMcu) + 1 /\ toMcu'[i] = OnWire(Head(pending))
    <2>1. pending # <<>> /\ pending \in Seq(AnyLine)
        BY <1>3 DEF Write, WriteLine, HostLines, Deciding
    <2>2. Head(pending) \in AnyLine /\ Head(pending) = pending[1] /\ 1 \in DOMAIN pending
        BY <2>1, SequenceFacts
    <2>3. /\ toMcu'[i].line = pending[1] /\ toMcu'[i].wire = 0
          /\ toMcu'[i].cause = IF Moving(pending[1].targets) THEN [age |-> decidedAge, void |-> Valid]
                               ELSE NoCause
        BY <1>3, <2>2, WrittenLine DEF Shaped
    <2>4. Moving(pending[1].targets)
        BY <2>3
    <2>5. Decided /\ toMcu'[i].cause.age = decidedAge /\ toMcu'[i].wire = 0
        BY <2>2, <2>3, <2>4 DEF Decided
    <2> QED
        BY <1>3, <2>5
  <1> QED
      BY <1>1, <1>2, <1>3 DEF Advances

LEMMA NewestKept ==
  ASSUME HostLines, FirmwareInv, Shaped, Aging, PathNext, ~Tick, NEW a, Newest(a),
         Decided => a <= decidedAge
  PROVE  NewestNext(a)
  <1>1. PICK s \in {0, 1} : Advances(s)
      BY OrderedSteps
  <1>2. AfterNext(a)
      BY OrderedSteps, AfterKept DEF Newest
  <1>3. ASSUME NEW i \in DOMAIN toMcu', Moving(toMcu'[i].line.targets) PROVE a <= toMcu'[i].cause.age
      BY <1>1, <1>3, MovingLines DEF Newest
  <1> QED
      BY <1>2, <1>3 DEF NewestNext

LEMMA OrderedLines ==
  ASSUME HostLines, FirmwareInv, Shaped, Aging, Ordering, PathNext, ~Tick,
         NEW i \in DOMAIN toMcu', Moving(toMcu'[i].line.targets)
  PROVE  /\ AfterNext(toMcu'[i].cause.age)
         /\ \A j \in DOMAIN toMcu' :
              i < j /\ Moving(toMcu'[j].line.targets) => toMcu'[j].cause.age <= toMcu'[i].cause.age
  <1>1. PICK s \in {0, 1} : Advances(s) /\ (ReadSerial => s = 1)
      BY OrderedSteps
  <1>2. /\ DOMAIN toMcu = 1..Len(toMcu) /\ Len(toMcu) \in Nat /\ i \in Nat /\ i > 0
        /\ DOMAIN toMcu' \subseteq Nat \ {0}
    <2>1. toMcu' \in Seq(Parcel)
        BY LineSteps
    <2> QED
        BY <2>1, Ages, SequenceFacts
  <1>3. CASE /\ i + s \in DOMAIN toMcu /\ Moving(toMcu[i + s].line.targets)
             /\ toMcu'[i].cause.age = toMcu[i + s].cause.age
    <2> DEFINE k == i + s
               age == toMcu[k].cause.age
    <2>1. /\ k \in DOMAIN toMcu /\ Moving(toMcu[k].line.targets) /\ toMcu'[i].cause.age = age
          /\ k = i + s /\ (ReadSerial => 1 < k)
        BY <1>1, <1>2, <1>3
    <2> HIDE DEF k, age
    <2>2. After(age) /\ \A j \in DOMAIN toMcu :
              k < j /\ Moving(toMcu[j].line.targets) => toMcu[j].cause.age <= age
        BY <2>1 DEF Ordering, age
    <2>3. ReadSerial => (Moving(toMcu[1].line.targets) => age <= toMcu[1].cause.age)
        BY <2>1, OrderedSteps DEF Ordering, age
    <2>4. AfterNext(age)
        BY <2>2, <2>3, AfterKept
    <2>5. ASSUME NEW j \in DOMAIN toMcu', i < j, Moving(toMcu'[j].line.targets)
          PROVE  toMcu'[j].cause.age <= age
      <3>1. CASE /\ j + s \in DOMAIN toMcu /\ Moving(toMcu[j + s].line.targets)
                 /\ toMcu'[j].cause.age = toMcu[j + s].cause.age
        <4>1. k < j + s
            BY <1>2, <2>1, <2>5
        <4> QED
            BY <2>2, <3>1, <4>1
      <3>2. CASE Decided /\ toMcu'[j].cause.age = decidedAge
          BY <2>1, <3>2 DEF Ordering, Newest, age
      <3> QED
          BY <1>1, <2>5, <3>1, <3>2, MovingLines
    <2> QED
        BY <2>1, <2>4, <2>5
  <1>4. CASE Write /\ s = 0 /\ i = Len(toMcu) + 1 /\ Decided /\ toMcu'[i].cause.age = decidedAge
    <2>1. Newest(decidedAge)
        BY <1>4 DEF Ordering
    <2>2. AfterNext(decidedAge)
        BY <2>1, OrderedSteps, AfterKept DEF Newest
    <2>3. ASSUME NEW j \in DOMAIN toMcu', i < j, Moving(toMcu'[j].line.targets) PROVE FALSE
      <3>1. j + s = j /\ j # Len(toMcu) + 1 /\ j \notin DOMAIN toMcu
          BY <1>2, <1>4, <2>3
      <3> QED
          BY <1>1, <2>3, <3>1, MovingLines
    <2> QED
        BY <1>4, <2>2, <2>3
  <1> QED
      BY <1>1, <1>3, <1>4, MovingLines

\* What the callback still has to write, after a step that takes no time.
LEMMA DecidedSteps ==
  ASSUME HostLines, PathNext, ~Tick, Decided'
  PROVE  Decide \/ (Decided /\ UNCHANGED <<decidedAge, pendingAge>>)
  <1>1. CASE pending # <<>> /\ pending' = Tail(pending) /\ Written
    <2>1. pending' # <<>> /\ pending \in Seq(AnyLine)
        BY DEF Decided, HostLines, Deciding
    <2>2. UNCHANGED <<decidedAge, pendingAge>>
        BY <1>1, <2>1 DEF Written
    <2>3. /\ DOMAIN pending' = 1..(Len(pending) - 1) /\ Len(pending) \in Nat /\ DOMAIN pending = 1..Len(pending)
          /\ \A i \in 1..(Len(pending) - 1) : pending'[i] = pending[i + 1]
        BY <1>1, <2>1, SequenceFacts
    <2>4. \A i \in 1..(Len(pending) - 1) : i + 1 \in 1..Len(pending)
        BY <2>3
    <2>5. Decided
        BY <2>3, <2>4 DEF Decided
    <2> QED
        BY <2>2, <2>5
  <1>2. CASE UNCHANGED <<pending, pendingAge, decidedAge>>
      BY <1>2 DEF Decided
  <1>3. \/ Decide \/ ~Decided' \/ Tick
        \/ pending # <<>> /\ pending' = Tail(pending) /\ Written
        \/ UNCHANGED <<pending, pendingAge, decidedAge>>
      BY PendingSteps
  <1> QED
      BY <1>1, <1>2, <1>3

LEMMA OrderingStep ==
  ASSUME HostLines, FirmwareInv, Shaped, Aging, Ordering, PathNext
  PROVE  Ordering'
  <1>1. CASE Tick
      BY <1>1, OrderingTick
  <1>2. CASE ~Tick
    <2>1. Moving(request') /\ Moving(drive') => requestCause'.age <= driveCause'.age
      <3>1. /\ Withdrawn(request, requestCause).age = requestCause.age
            /\ Withdrawn(drive, driveCause).age = driveCause.age
          BY Ages, WithdrawnCause
      <3>2. CASE Stopped
          BY <3>2, ZeroIsStill DEF Stopped
      <3>3. CASE Kept
          BY <3>1, <3>3 DEF Kept, Ordering
      <3>4. CASE Accepted
          BY <1>2, <3>4, OrderedSteps DEF Accepted, Ordering, After
      <3>5. CASE Regulated
        <4>1. requestCause' \in Cause
            BY TimesStep DEF Times
        <4>2. requestCause'.age <= requestCause'.age
            BY <4>1, Spans DEF Cause
        <4> QED
            BY <3>5, <4>2, ZeroIsStill DEF Regulated
      <3> QED
          BY <1>2, <3>2, <3>3, <3>4, <3>5, FlowSteps
    <2>2. Decided' => NewestNext(decidedAge')
      <3>1. ASSUME Decide, Decided' PROVE NewestNext(decidedAge')
        <4>1. Newest(commandStamp) /\ (Decided => commandStamp <= decidedAge)
            BY <3>1, DecidedFresh DEF Ordering
        <4>2. decidedAge' = commandStamp
            BY <3>1 DEF Decide, Decided
        <4> QED
            BY <1>2, <4>1, <4>2, NewestKept
      <3>2. ASSUME Decided, decidedAge' = decidedAge PROVE NewestNext(decidedAge')
        <4>1. Newest(decidedAge) /\ decidedAge <= decidedAge
            BY <3>2, Ages DEF Ordering
        <4> QED
            BY <1>2, <3>2, <4>1, NewestKept
      <3> QED
          BY <1>2, <3>1, <3>2, DecidedSteps
    <2>3. Fresh' => NewestNext(commandStamp') /\ (Decided' => commandStamp' <= decidedAge')
      <3>1. CASE Hear /\ commandStamp' = 0
        <4>1. decidedAge \in Nat /\ Newest(0)
            BY Ages DEF Newest, After
        <4>2. NewestNext(0)
            BY <1>2, <4>1, NewestKept
        <4>3. decidedAge' = decidedAge
            BY <3>1 DEF Hear
        <4> QED
            BY <3>1, <4>1, <4>2, <4>3
      <3>2. CASE commandStamp' = CommandNever
          BY <3>2, Spans DEF Fresh, CommandNever
      <3>3. ASSUME UNCHANGED commandStamp, Fresh' 
            PROVE  NewestNext(commandStamp') /\ (Decided' => commandStamp' <= decidedAge')
        <4>1. Fresh /\ commandStamp \in Nat
            BY <3>3, Ages DEF Fresh
        <4>2. Newest(commandStamp) /\ (Decided => commandStamp <= decidedAge)
            BY <4>1 DEF Ordering
        <4>3. NewestNext(commandStamp)
            BY <1>2, <4>2, NewestKept
        <4>4. ASSUME Decide, Decided' PROVE commandStamp' <= decidedAge'
          <5>1. decidedAge' = commandStamp
              BY <4>4 DEF Decide, Decided
          <5> QED
              BY <3>3, <4>1, <5>1
        <4> QED
            BY <1>2, <3>3, <4>2, <4>3, <4>4, DecidedSteps
      <3> QED
          BY <1>2, <3>1, <3>2, <3>3, StampSteps
    <2> QED
        BY <1>2, <2>1, <2>2, <2>3, OrderedLines DEF Ordering, After, AfterNext, Newest, NewestNext
  <1> QED
      BY <1>1, <1>2

-----------------------------------------------------------------------------
(* What the bridge holds. *)

\* Without the stall guard no wheel is ever blocked.
LEMMA NoBlock ==
  ASSUME PathNext, ~StallGuard, ~blocked
  PROVE  ~blocked'
  <1>1. CASE Hear \/ EndArm \/ Open \/ Receive \/ Tick
      BY <1>1 DEF Hear, EndArm, Open, Receive, Tick, CmdCallback, FinishArm, OpenSerial, ReaderDies,
                  HandleTelemetryFrame, BridgeTick, stall
  <1>2. CASE Decide
      BY <1>2 DEF Decide, CommandTick, StopTick, UpdateStallGuard, stall
  <1>3. CASE Serve
      BY <1>3 DEF Serve, Lock, Arm, ClearMotorFault, ClearDriveBlocked
  <1>4. CASE Restart
      BY <1>4 DEF Restart, BridgeRestart, ClearDriveBlocked
  <1> QED
      BY <1>1, <1>2, <1>3, <1>4, FlagSteps DEF stall

\* A callback decides on motion only where the bridge permits it.
LEMMA DecidedPermitted ==
  ASSUME PathNext, Holding, Decide, Decided'
  PROVE  ~Forbids'
  <1>1. armed /\ Fresh /\ Healthy /\ ~blocked'
      BY DecidedFresh, NoBlock DEF Holding
  <1>2. UNCHANGED <<armed, commandStamp, telemetryStamp, mcuFault>>
      BY DEF Decide, CommandTick, telemetry
  <1> QED
      BY <1>1, <1>2 DEF Forbids, Fresh, Healthy

\* Holding, of the state a step leads to, in terms of the age a.
HeldFor(a) ==
  /\ Decided' => a <= pendingAge'
  /\ \A i \in DOMAIN toMcu' : Moving(toMcu'[i].line.targets) => a <= Preempt + toMcu'[i].wire
  /\ Moving(request') => a <= Preempt + Transit + commandAge'
  /\ Moving(drive') => a <= Preempt + Transit + Watchdog + controlAge'

LEMMA HeldTypes ==
  ASSUME HostLines, FirmwareInv, Shaped, PathNext
  PROVE  /\ pendingAge' \in Nat /\ commandAge' \in Nat /\ controlAge' \in Nat
         /\ \A i \in DOMAIN toMcu' : toMcu'[i].wire \in Nat
  <1>1. FirmwareInv' /\ Shaped'
      BY HostLinesKept, FirmwareStep, ShapedStep
  <1>2. pendingAge' \in Nat /\ commandAge' \in Nat /\ controlAge' \in Nat
      BY <1>1, Spans DEF FirmwareInv, FirmwareTypeOK, Shaped, Times
  <1>3. \A i \in DOMAIN toMcu' : toMcu'[i] \in Parcel
      BY <1>1, SequenceFacts DEF Shaped
  <1> QED
      BY <1>2, <1>3, Spans DEF Parcel

LEMMA HeldTick ==
  ASSUME HostLines, FirmwareInv, Shaped, Aging, Holding, Tick
  PROVE  HeldFor(heldAge + 1)
  <1>1. Decided' => heldAge + 1 <= pendingAge'
    <2>1. /\ pending' = pending /\ heldAge \in Nat /\ pendingAge \in Nat
          /\ pending # <<>> => pendingAge' = pendingAge + 1
        BY Ages, TickAges DEF Tick
    <2>2. Decided' => Decided
        BY <2>1 DEF Decided
    <2>3. Decided => pending # <<>> /\ heldAge <= pendingAge
        BY DEF Decided, Holding
    <2> QED
        BY <2>1, <2>2, <2>3
  <1>2. ASSUME NEW i \in DOMAIN toMcu', Moving(toMcu'[i].line.targets)
        PROVE  heldAge + 1 <= Preempt + toMcu'[i].wire
    <2>1. /\ i \in DOMAIN toMcu /\ Moving(toMcu[i].line.targets) /\ toMcu'[i].wire = toMcu[i].wire + 1
        BY <1>2, TickLines
    <2>2. heldAge <= Preempt + toMcu[i].wire /\ toMcu[i].wire \in Nat /\ heldAge \in Nat
        BY <2>1, Ages DEF Holding
    <2> QED
        BY <2>1, <2>2, Spans
  <1>3. /\ controlAge' = controlAge + 1 /\ UNCHANGED <<request, drive>>
        /\ commandAge' = IF commandAge < CommandCap THEN commandAge + 1 ELSE commandAge
        /\ controlAge < Control + Latency
      BY DEF Tick, FirmwareTick
  <1>4. heldAge \in Nat /\ commandAge \in Nat /\ controlAge \in Nat
      BY Ages
  <1>5. Moving(request') => heldAge + 1 <= Preempt + Transit + commandAge'
      BY <1>3, <1>4, Spans DEF Holding, Aging
  <1>6. Moving(drive') => heldAge + 1 <= Preempt + Transit + Watchdog + controlAge'
      BY <1>3, <1>4, Spans DEF Holding
  <1> QED
      BY <1>1, <1>2, <1>5, <1>6 DEF HeldFor

LEMMA HeldOn ==
  ASSUME HostLines, FirmwareInv, Shaped, Aging, Holding, PathNext, ~Tick, Forbids'
  PROVE  HeldFor(heldAge)
  <1>1. Decided' => heldAge <= pendingAge'
    <2>1. Decided => heldAge <= pendingAge
        BY DEF Decided, Holding
    <2> QED
        BY <2>1, DecidedPermitted, DecidedSteps
  <1>2. ASSUME NEW i \in DOMAIN toMcu', Moving(toMcu'[i].line.targets)
        PROVE  heldAge <= Preempt + toMcu'[i].wire
    <2>1. PICK s \in {0, 1} : Advances(s)
        BY OrderedSteps
    <2>2. CASE /\ i + s \in DOMAIN toMcu /\ Moving(toMcu[i + s].line.targets)
               /\ toMcu'[i].wire = toMcu[i + s].wire
        BY <2>2 DEF Holding
    <2>3. CASE Decided /\ toMcu'[i].wire = 0
      <3>1. heldAge <= pendingAge /\ pendingAge <= Preempt /\ heldAge \in Nat /\ pendingAge \in Nat
          BY <2>3, Ages DEF Decided, Holding
      <3> QED
          BY <2>3, <3>1, Spans
    <2> QED
        BY <1>2, <2>1, <2>2, <2>3, MovingLines
  <1>3. /\ Moving(request) => heldAge <= Preempt + Transit + commandAge
        /\ Moving(drive) => heldAge <= Preempt + Transit + Watchdog + controlAge
      BY DEF Holding
  <1>4. /\ Moving(request') => heldAge <= Preempt + Transit + commandAge'
        /\ Moving(drive') => heldAge <= Preempt + Transit + Watchdog + controlAge'
    <2>1. CASE Stopped
        BY <2>1, ZeroIsStill DEF Stopped
    <2>2. CASE Kept
        BY <1>3, <2>2 DEF Kept
    <2>3. CASE Accepted
      <3>1. 1 \in DOMAIN toMcu
          BY <2>3, OrderedSteps DEF Accepted
      <3>2. Moving(toMcu[1].line.targets) => heldAge <= Preempt + toMcu[1].wire
          BY <3>1 DEF Holding
      <3>3. toMcu[1].wire \in Nat /\ toMcu[1].wire <= Transit /\ heldAge \in Nat
          BY <3>1, Ages
      <3>4. Moving(toMcu[1].line.targets) => heldAge <= Preempt + Transit + 0
          BY <3>2, <3>3, Spans
      <3> QED
          BY <1>3, <2>3, <3>4 DEF Accepted
    <2>4. CASE Regulated
      <3>1. /\ request' = request \/ request' = Zero
            /\ drive' = request' \/ drive' = Zero
            /\ Moving(request') => commandAge <= Watchdog
            /\ controlAge' = 0 /\ commandAge' = commandAge
          BY <2>4 DEF Regulated
      <3>2. Moving(request') => heldAge <= Preempt + Transit + commandAge /\ commandAge <= Watchdog
          BY <1>3, <3>1, ZeroIsStill
      <3>3. commandAge \in Nat /\ heldAge \in Nat
          BY Ages
      <3>4. Moving(request') => heldAge <= Preempt + Transit + Watchdog + 0
          BY <3>2, <3>3, Spans
      <3>5. Moving(drive') => Moving(request')
          BY <3>1, ZeroIsStill
      <3> QED
          BY <3>1, <3>2, <3>4, <3>5
    <2> QED
        BY <2>1, <2>2, <2>3, <2>4, FlowSteps
  <1> QED
      BY <1>1, <1>2, <1>4 DEF HeldFor

LEMMA HoldingStep ==
  ASSUME HostLines, FirmwareInv, Shaped, Aging, Holding, PathNext
  PROVE  Holding'
  <1>1. ~StallGuard => ~blocked'
      BY NoBlock DEF Holding
  <1>2. heldAge \in 0..(HoldBound + 1)
      BY DEF Shaped
  <1>3. ASSUME HeldFor(heldAge') PROVE Holding'
      BY <1>1, <1>3 DEF HeldFor, Holding, Decided
  <1>4. CASE heldAge' = 0
    <2>1. Preempt \in Nat /\ Transit \in Nat /\ Watchdog \in Nat
        BY Spans
    <2>2. HeldFor(0)
        BY <2>1, HeldTypes DEF HeldFor
    <2> QED
        BY <1>3, <1>4, <2>2
  <1>5. CASE Still'
      BY <1>1, <1>5 DEF Still, Holding
  <1>6. CASE Forbids' /\ heldAge' = IF Tick THEN Older(heldAge, HoldBound + 1) ELSE heldAge
    <2>1. CASE Tick
      <3>1. heldAge' \in Nat /\ heldAge' <= heldAge + 1
          BY <1>2, <1>6, <2>1, Spans DEF Older
      <3>2. HeldFor(heldAge + 1)
          BY <2>1, HeldTick
      <3>3. heldAge \in Nat
          BY Ages
      <3>4. Preempt \in Nat /\ Transit \in Nat /\ Watchdog \in Nat
          BY Spans
      <3>5. HeldFor(heldAge')
          BY <3>1, <3>2, <3>3, <3>4, HeldTypes DEF HeldFor
      <3> QED
          BY <1>3, <3>5
    <2> QED
        BY <1>3, <1>6, <2>1, HeldOn
  <1> QED
      BY <1>2, <1>4, <1>5, <1>6, HeldSteps

-----------------------------------------------------------------------------
(* What holds of the drive path. *)

Timed == HostLines /\ FirmwareInv /\ Shaped /\ Aging /\ Ordering /\ Holding

LEMMA TimedStart == PathInit => Timed
  <1> SUFFICES ASSUME PathInit PROVE Timed
      OBVIOUS
  <1>1. HostLines /\ FirmwareInv
      BY HostLinesStart, FirmwareStarts DEF PathInit
  <1>2. /\ ~Moving(request) /\ ~Moving(drive) /\ DOMAIN toMcu = {} /\ DOMAIN pending = {}
      BY ZeroIsStill DEF PathInit, FirmwareInit, BridgeInit
  <1>3. BridgeShaped
      BY StartValues DEF PathInit, BridgeInit, BridgeShaped
  <1>4. Times
    <2>1. NoCause \in Cause /\ 0 \in 0..Preempt /\ 0 \in 0..(CommandTimeout + 0)
        BY Spans DEF NoCause, Cause
    <2> QED
        BY <2>1 DEF PathInit, Times
  <1>5. Shaped
    <2>1. <<>> \in Seq(Parcel) /\ <<>> \in Seq(Frame)
        OBVIOUS
    <2>2. HoldBound + 1 \in 0..(HoldBound + 1)
        BY Spans
    <2> QED
        BY <1>3, <1>4, <2>1, <2>2 DEF PathInit, Shaped
  <1>6. Ordering
    <2>1. ~Fresh
        BY Spans DEF PathInit, BridgeInit, Fresh, CommandNever
    <2> QED
        BY <1>2, <2>1 DEF Ordering, Decided
  <1>7. Holding
      BY <1>2 DEF PathInit, BridgeInit, Holding
  <1> QED
      BY <1>1, <1>5, <1>6, <1>7, AgingStart DEF Timed

LEMMA TimedStep ==
  ASSUME Timed, [PathNext]_vars
  PROVE  Timed'
  <1>1. CASE PathNext
    <2>1. HostLines' /\ FirmwareInv'
        BY <1>1, HostLinesKept, FirmwareStep DEF Timed
    <2> QED
        BY <1>1, <2>1, ShapedStep, AgingStep, OrderingStep, HoldingStep DEF Timed
  <1>2. CASE UNCHANGED vars
    <2>1. HostLines' /\ FirmwareInv'
        BY HostLinesKept, FirmwareStep DEF Timed
    <2> USE <1>2 DEF vars, bridge, firmware, wires, causes, telemetry, reader, stall
    <2>2. Shaped'
        BY DEF Timed, Shaped, BridgeShaped, Times
    <2>3. Aging'
        BY DEF Timed, Aging
    <2>4. Ordering'
        BY DEF Timed, Ordering, After, Newest, Decided, Fresh
    <2>5. Holding'
        BY DEF Timed, Holding
    <2> QED
        BY <2>1, <2>2, <2>3, <2>4, <2>5 DEF Timed
  <1> QED
      BY <1>1, <1>2

\* Timed is an invariant of the drive path.
THEOREM PathTimed ==
  PathSpec => []Timed
  BY TimedStart, TimedStep, PTL DEF PathSpec

LEMMA LargerSequences ==
  ASSUME NEW S, NEW T, S \subseteq T, NEW q \in Seq(S)
  PROVE  q \in Seq(T)
  OBVIOUS

\* The types of the drive path (serial_bridge.py and the firmware, joined).
THEOREM TypesHold ==
  PathSpec => []TypeOK
  <1>1. AnyLine \subseteq Line
    <2>1. {Plain("STOP"), Plain("CLEAR"), Plain("BAD")} \subseteq Line
        BY DEF Plain, Line, LineKind, Zero, Targets, Level
    <2>2. \A t \in Requests : Cmd(t) \in Line
        BY FirmwareAssumption DEF Cmd, Line, LineKind
    <2> QED
        BY <2>1, <2>2 DEF AnyLine
  <1>2. ASSUME Timed PROVE TypeOK
    <2>1. pending \in Seq(Line)
        BY <1>1, <1>2, LargerSequences DEF Timed, HostLines, Deciding
    <2>2. toMcu \in Seq([line : Line, cause : Cause, wire : 0..Transit])
      <3>1. Parcel \subseteq [line : Line, cause : Cause, wire : 0..Transit]
          BY <1>1 DEF Parcel
      <3> QED
          BY <1>2, <3>1, LargerSequences DEF Timed, Shaped
    <2>3. BridgeTypeOK
        BY <1>2, <2>1 DEF Timed, Shaped, BridgeShaped, BridgeTypeOK
    <2>4. FirmwareTypeOK
        BY <1>2 DEF Timed, FirmwareInv
    <2>5. /\ decidedAge \in 0..(CommandTimeout + Preempt) /\ pendingAge \in 0..Preempt
          /\ heardVoid \in {Valid} \cup 0..(Recall + 1)
          /\ requestCause \in Cause /\ driveCause \in Cause
      <3>1. /\ pendingAge \in 0..Preempt /\ decidedAge \in 0..(CommandTimeout + pendingAge)
            /\ heardVoid = Valid /\ requestCause \in Cause /\ driveCause \in Cause
          BY <1>2 DEF Timed, Shaped, Times
      <3> QED
          BY <3>1, Spans
    <2>6. toHost \in Seq(Frame) /\ heldAge \in 0..(HoldBound + 1)
        BY <1>2 DEF Timed, Shaped
    <2> QED
        BY <2>2, <2>3, <2>4, <2>5, <2>6 DEF TypeOK
  <1> QED
      BY <1>2, PathTimed, PTL

\* Whatever forbids motion at the bridge stops the motors within HoldBound,
\* whatever is lost and however long the executor hangs (command_tick,
\* write_line, handleLine, updateControl).
THEOREM HeldStops ==
  PathSpec => []HeldBaseStops
  <1>1. ASSUME Timed PROVE HeldBaseStops
    <2>1. Moving(drive) => heldAge <= Preempt + Transit + Watchdog + controlAge
        BY <1>1 DEF Timed, Holding
    <2>2. heldAge \in Nat /\ controlAge \in Nat /\ controlAge <= Control + Latency
        BY <1>1, Ages DEF Timed
    <2> QED
        BY <2>1, <2>2, Spans DEF HeldBaseStops
  <1> QED
      BY <1>1, PathTimed, PTL

-----------------------------------------------------------------------------
(* The drive path implements DriveLease. *)

LEMMA LeaseStarts == PathInit => DriveLeased!LeaseInit
  BY ZeroIsStill DEF PathInit, FirmwareInit, NoCause, Valid, DriveLeased!LeaseInit, DriveLeased!Valid

LEMMA LeaseTick ==
  ASSUME Timed, Timed', Tick
  PROVE  [DriveLeased!LeaseNext]_DriveLeased!lease
  <1>1. /\ UNCHANGED drive /\ driveCause' = Aged(drive, driveCause)
        /\ driveCause \in Cause
      BY Ages DEF Timed, Tick, FirmwareTick
  <1>2. CASE Moving(drive)
    <2>1. driveCause'.age = driveCause.age + 1 /\ driveCause'.void = OlderVoid(driveCause.void)
        BY <1>1, <1>2, TickAges, AgedCause DEF Timed
    <2>2. /\ driveCause'.age <= CommandTimeout + Preempt + (Transit + Watchdog + controlAge')
          /\ driveCause'.void <= Transit + Watchdog + controlAge'
        BY <1>1, <1>2 DEF Timed, Aging, Fits
    <2>3. controlAge' \in Nat /\ controlAge' <= Control + Latency
        BY Spans DEF Timed, FirmwareInv, FirmwareTypeOK
    <2>4. driveCause.age \in Nat /\ (driveCause.void = Valid \/ driveCause.void \in Nat)
        BY <1>1, Spans DEF Cause
    <2>5. driveCause.age < Lease
        BY <2>1, <2>2, <2>3, <2>4, Spans
    <2>6. driveCause.void < Recall /\ driveCause'.void = IF driveCause.void = Valid THEN Valid ELSE driveCause.void + 1
      <3>1. CASE driveCause.void = Valid
          BY <2>1, <3>1, Spans DEF OlderVoid, Valid
      <3>2. CASE driveCause.void # Valid /\ driveCause.void \in Nat
        <4>1. driveCause.void <= Recall
            BY <1>2, WithinLease DEF Timed
        <4>2. driveCause'.void = driveCause.void + 1
            BY <2>1, <3>2, <4>1, Spans DEF OlderVoid, Older
        <4> QED
            BY <2>2, <2>3, <3>2, <4>2, Spans
      <3> QED
          BY <2>4, <3>1, <3>2
    <2> QED
        BY <1>1, <1>2, <2>1, <2>5, <2>6 DEF DriveLeased!LeaseNext, DriveLeased!Wait, DriveLeased!Valid, Valid
  <1>3. CASE ~Moving(drive)
    <2>1. driveCause' = NoCause /\ driveCause = NoCause
        BY <1>1, <1>3, AgedCause DEF Timed, Aging, Fits
    <2> QED
        BY <1>1, <2>1 DEF DriveLeased!lease
  <1> QED
      BY <1>2, <1>3

LEMMA LeaseStep ==
  ASSUME Timed, Timed', PathNext
  PROVE  [DriveLeased!LeaseNext]_DriveLeased!lease
  <1>1. ASSUME drive' = Zero, driveCause' = NoCause PROVE DriveLeased!LeaseNext
    <2>1. Moving(drive') = FALSE /\ driveCause'.age = 0 /\ driveCause'.void = -1
        BY <1>1, ZeroIsStill DEF NoCause, Valid
    <2> QED
        BY <2>1 DEF DriveLeased!LeaseNext, DriveLeased!Halt, DriveLeased!Valid
  <1>2. CASE Stopped
      BY <1>1, <1>2 DEF Stopped
  <1>3. CASE Kept
    <2>1. CASE driveCause' = driveCause
        BY <1>3, <2>1 DEF Kept, DriveLeased!lease
    <2>2. CASE driveCause' = Withdrawn(drive, driveCause) /\ driveCause' # driveCause
      <3>1. drive' = drive /\ driveCause \in Cause
          BY <1>3, Ages DEF Kept, Timed
      <3>2. Moving(drive) /\ driveCause.void = Valid /\ driveCause' = [driveCause EXCEPT !.void = 0]
          BY <2>2 DEF Withdrawn
      <3>3. driveCause'.void = 0 /\ driveCause'.age = driveCause.age
          BY <3>1, <3>2 DEF Cause
      <3> QED
          BY <3>1, <3>2, <3>3 DEF DriveLeased!LeaseNext, DriveLeased!Withdraw, DriveLeased!Valid, Valid
    <2> QED
        BY <1>3, <2>1, <2>2 DEF Kept
  <1>4. CASE Accepted
      BY <1>4 DEF Accepted, DriveLeased!lease
  <1>5. CASE Regulated
    <2>1. CASE Moving(drive') /\ drive' = request' /\ driveCause' = requestCause'
      <3>1. UNCHANGED <<request, requestCause>> /\ Moving(request) /\ commandAge <= Watchdog
          BY <1>5, <2>1, ZeroIsStill DEF Regulated
      <3>2. requestCause.age <= Lease /\ requestCause.age \in Nat /\ commandAge \in Nat
          BY <3>1, Ages, WithinLease DEF Timed
      <3>3. requestCause.void <= Transit + commandAge
          BY <3>1 DEF Timed, Aging, Fits
      <3>4. requestCause.void = Valid \/ requestCause.void \in Nat
        <4>1. requestCause \in Cause
            BY Ages DEF Timed
        <4> QED
            BY <4>1, Spans DEF Cause
      <3>5. driveCause'.age \in 0..Lease
          BY <2>1, <3>1, <3>2, Spans
      <3>6. driveCause'.void \in {-1} \cup 0..Recall
          BY <2>1, <3>1, <3>2, <3>3, <3>4, Spans DEF Valid
      <3>7. Moving(drive) => driveCause'.age <= driveCause.age
          BY <2>1, <3>1 DEF Timed, Ordering
      <3>8. Moving(drive') = TRUE
          BY <2>1 DEF Moving
      <3> QED
          BY <3>5, <3>6, <3>7, <3>8
          DEF DriveLeased!LeaseNext, DriveLeased!Obey, DriveLeased!Voids, DriveLeased!Valid
    <2>2. CASE ~Moving(drive')
      <3>1. driveCause' = NoCause
          BY <2>2 DEF Timed, Aging, Fits
      <3>2. Moving(drive') = FALSE /\ driveCause'.age = 0 /\ driveCause'.void = -1
          BY <2>2, <3>1 DEF NoCause, Valid, Moving
      <3> QED
          BY <3>2 DEF DriveLeased!LeaseNext, DriveLeased!Halt, DriveLeased!Valid
    <2> QED
        BY <1>5, <1>1, <2>1, <2>2 DEF Regulated
  <1> QED
      BY <1>2, <1>3, <1>4, <1>5, FlowSteps, LeaseTick DEF Timed

\* The base only ever moves on loan: every behaviour of the drive path is one
\* of DriveLease (command_tick, set_motors_enabled, write_line, handleLine,
\* updateControl).
THEOREM Leased ==
  PathSpec => LeaseKept
  <1>1. Timed /\ Timed' /\ [PathNext]_vars => [DriveLeased!LeaseNext]_DriveLeased!lease
    <2>1. ASSUME UNCHANGED vars PROVE UNCHANGED DriveLeased!lease
        BY <2>1 DEF vars, firmware, causes, DriveLeased!lease
    <2> QED
        BY <2>1, LeaseStep
  <1> QED
      BY <1>1, LeaseStarts, PathTimed, PTL DEF PathSpec, LeaseKept, DriveLeased!LeaseSpec
=============================================================================
