------------------------- MODULE GuardedEscapeProofs -------------------------
(***************************************************************************)
(* What GuardedEscape guarantees for every timing of the node, the thread  *)
(* and the arbiter that PatienceAssumption allows:                         *)
(*   Typed      the types, and how long the maneuver may be in each phase  *)
(*   Watching   the motion the arbiter still lets through, the age of what *)
(*              it was decided on and the obstacle shown since add up      *)
(*   Waiting    whoever moves the base does it for a thread that waits     *)
(*   Confirmed  what the thread takes for an escape was a motion           *)
(***************************************************************************)
EXTENDS GuardedEscape, TLAPS

OpRecord ==
  [phase : {"idle", "warmup", "moving", "stopping"}, kind : Kind \cup {None},
   spent : Nat, due : -Late..1, done : BOOLEAN]
OpType ==
  /\ op \in OpRecord
  /\ op.phase # "idle" => op.kind \in Kind
  /\ op.phase = "idle" => op.spent = 0
  /\ op.phase = "warmup" => op.spent <= Warmup + Late
  /\ op.phase = "moving" => op.spent + op.due <= TimeLimit
  /\ op.phase = "stopping" => op.spent <= Stops + Late
SensorType ==
  /\ scan \in [age : Never..(SensorTimeout + 1), go : BOOLEAN, on : BOOLEAN]
  /\ odom \in [age : Never..(SensorTimeout + 1), says : Progress]
ArbiterType == drive \in 0..Lease /\ hold \in 0..Lease /\ estop \in BOOLEAN
ClientRecord ==
  [pc : {"idle", "plan", "waiting", "ok", "failed", "recovered"}, waited : 0..Patience]
PlanRecord ==
  [backed : BOOLEAN, round : {"first", "search", "extend"},
   stage : {"arc", "turn1", "turn2", "reverse"}, steps : 0..2]
AgentType ==
  /\ request \in [kind : Kind \cup {None}, age : 0..Delivery]
  /\ client \in ClientRecord /\ plan \in PlanRecord
  /\ plan.stage = "arc" => plan.steps = 0
  /\ plan.stage = "reverse" => plan.steps <= 1
HistoryType ==
  /\ events \in 0..MaxEvents
  /\ history \in [hit : 0..(Lease + 1), unseen : [Sensor -> 0..Long],
                  interrupted : BOOLEAN, moved : BOOLEAN]

Typed == OpType /\ SensorType /\ ArbiterType /\ AgentType /\ HistoryType

\* What is known of the sensors, and of the obstacle they show.
Heeded ==
  /\ op.phase = "idle" => scan.age = Never /\ odom.age = Never
  /\ Fresh(scan) => history.unseen["scan"] <= scan.age
  /\ Fresh(odom) => history.unseen["odom"] <= odom.age
Seen == drive > 0 => \A x \in Sensor : history.unseen[x] + drive <= SensorTimeout + Lease
Halting ==
  /\ history.hit > 0 /\ Streams => ~scan.on /\ ~scan.go
  /\ history.hit > 0 /\ drive > 0 => history.hit + drive <= Lease + 1
  /\ history.hit > 0 /\ op.phase = "moving" => history.hit + op.due <= 2
Watching == Heeded /\ Seen /\ Halting

\* How long the thread has waited, by where its maneuver is.
Prelude == Delivery + Warmup + Late
Waiting ==
  /\ request.kind # None =>
       /\ client.pc = "waiting" /\ client.waited <= request.age
       /\ ~Streams /\ drive = 0
  /\ op.phase = "warmup" => client.pc = "waiting" /\ client.waited <= Delivery + op.spent
  /\ op.phase = "moving" => client.pc = "waiting" /\ client.waited <= Prelude + op.spent
  /\ drive > 0 =>
       /\ client.pc = "waiting" /\ op.phase # "stopping"
       /\ client.waited + drive < Prelude + TimeLimit + Lease

Confirmed ==
  client.pc \in {"ok", "recovered"} \/ plan.round = "extend" => history.moved

-----------------------------------------------------------------------------
(* Scans. *)

LEMMA SmallestBelow ==
  ASSUME NEW S \in SUBSET (0..4), NEW n \in S
  PROVE  Smallest(S) \in S /\ Smallest(S) <= n
  <1>1. \E m \in S : \A k \in S : m <= k
    <2>1. CASE 0 \in S
        BY <2>1
    <2>2. CASE 0 \notin S /\ 1 \in S
        BY <2>2
    <2>3. CASE 0 \notin S /\ 1 \notin S /\ 2 \in S
        BY <2>3
    <2>4. CASE 0 \notin S /\ 1 \notin S /\ 2 \notin S
      <3>1. S \subseteq {3, 4}
          BY <2>4
      <3> QED
          BY <3>1
    <2> QED
        BY <2>1, <2>2, <2>3, <2>4
  <1>2. Smallest(S) = CHOOSE m \in S : \A k \in S : m <= k
      BY DEF Smallest
  <1> QED
      BY <1>1, <1>2

\* A pair of neighbouring returns bounds the clearance of its sector, wherever
\* in the scan it is.
LEMMA PairBoundsClearance ==
  ASSUME NEW r \in [Beam -> 0..4], NEW sector \in SUBSET Beam,
         NEW i \in sector, Neighbour(i) \in sector, r[i] # Void, r[Neighbour(i)] # Void
  PROVE  /\ AdjacentClusterClearance(r, sector) \in 0..4
         /\ AdjacentClusterClearance(r, sector) <= Larger(r[i], r[Neighbour(i)])
  <1> DEFINE pairs == {j \in Heard(r, sector) : Neighbour(j) \in Heard(r, sector)}
             S == {Larger(r[j], r[Neighbour(j)]) : j \in pairs}
  <1>1. S \in SUBSET (0..4)
      BY DEF Heard, Larger
  <1>2. i \in pairs
      BY DEF Heard
  <1>3. Larger(r[i], r[Neighbour(i)]) \in S
      BY <1>2
  <1> HIDE DEF S
  <1>4. Smallest(S) \in 0..4 /\ Smallest(S) <= Larger(r[i], r[Neighbour(i)])
      BY <1>1, <1>3, SmallestBelow
  <1> QED
      BY <1>4 DEF S, AdjacentClusterClearance

\* Every kind of maneuver, before its first command and at every pass of its
\* loop, refuses a scan with an obstacle in the way.
LEMMA ObstacleRefused ==
  ASSUME NEW kind \in Kind, NEW r \in [Beam -> 0..4], NEW limit \in {StopBelow, StartBelow},
         InTheWay(kind, r)
  PROVE  ~Clear(kind, r, limit)
  <1>1. PICK i \in Beam :
          {r[i], r[Neighbour(i)]} \subseteq {Swept} \cup
            IF {i, Neighbour(i)} \subseteq Longitudinal(kind) THEN {2} ELSE {}
      BY DEF InTheWay
  <1>2. Neighbour(i) \in Beam
      BY DEF Neighbour, Beam
  <1>3. CASE r[i] = Swept /\ r[Neighbour(i)] = Swept
    <2> DEFINE swept == {j \in Beam : r[j] = Swept}
    <2>1. AdjacentClusterClearance(r, swept) \in 0..4
        BY <1>2, <1>3, PairBoundsClearance DEF Swept, Void
    <2>2. SweptObstacle(r)
        BY <2>1 DEF SweptObstacle, NoCluster, StartBelow
    <2> QED
        BY <2>2 DEF Clear, ArcClear, StraightClear
  <1>4. CASE /\ {i, Neighbour(i)} \subseteq Longitudinal(kind)
             /\ r[i] \in {1, 2} /\ r[Neighbour(i)] \in {1, 2}
    <2>1. Longitudinal(kind) \in SUBSET Beam
        BY DEF Longitudinal
    <2>2. /\ AdjacentClusterClearance(r, Longitudinal(kind)) \in 0..4
          /\ AdjacentClusterClearance(r, Longitudinal(kind)) <= Larger(r[i], r[Neighbour(i)])
        BY <1>4, <2>1, PairBoundsClearance DEF Void
    <2>3. RobustClearance(r, Longitudinal(kind)) <= 2
        BY <1>4, <2>2 DEF RobustClearance, Larger
    <2>4. RobustClearance(r, Longitudinal(kind)) \in 0..4
        BY <2>2 DEF RobustClearance
    <2> QED
        BY <2>3, <2>4 DEF Clear, ArcClear, StraightClear, StopBelow, StartBelow
  <1> QED
      BY <1>1, <1>3, <1>4 DEF Swept

LEMMA VerdictsRefuse ==
  ASSUME NEW kind \in Kind, NEW v \in Verdicts[kind]
  PROVE  v.go \in BOOLEAN /\ v.on \in BOOLEAN /\ (v.hit => ~v.go /\ ~v.on)
  <1>1. PICK r \in Ranges(kind) :
          v = [go |-> Clear(kind, r, StartBelow), on |-> Clear(kind, r, StopBelow),
               hit |-> InTheWay(kind, r)]
      BY DEF Verdicts
  <1>2. r \in [Beam -> 0..4]
      BY DEF Ranges, Void, Swept, StopBelow, StartBelow
  <1>3. Clear(kind, r, StartBelow) \in BOOLEAN /\ Clear(kind, r, StopBelow) \in BOOLEAN
      BY DEF Clear, ArcClear, StraightClear
  <1>4. v.hit => ~Clear(kind, r, StartBelow) /\ ~Clear(kind, r, StopBelow)
      BY <1>1, <1>2, ObstacleRefused
  <1> QED
      BY <1>1, <1>3, <1>4

-----------------------------------------------------------------------------
(* Types. *)

LEMMA Durations ==
  /\ SensorTimeout \in Nat /\ Warmup \in Nat /\ TimeLimit \in Nat /\ Stops \in Nat
  /\ Patience \in Nat /\ Lease \in Nat /\ Delivery \in Nat /\ Late \in Nat /\ MaxEvents \in Nat
  /\ SensorTimeout >= 1 /\ Warmup >= 1 /\ TimeLimit >= 1 /\ Stops >= 1 /\ Patience >= 1 /\ Lease >= 1
  <1>1. \A n \in {SensorTimeout, Warmup, TimeLimit, Stops, Patience, Lease} : n \in Nat /\ n >= 1
      BY EscapeAssumption
  <1> QED
      BY <1>1, EscapeAssumption

LEMMA Bounds ==
  /\ 0 \in -Late..1 /\ 1 \in -Late..1 /\ 0 \in 0..Lease /\ Lease \in 0..Lease
  /\ 0 \in 0..Delivery /\ 0 \in 0..Patience
  /\ 0 \in Never..(SensorTimeout + 1) /\ Never \in Never..(SensorTimeout + 1)
  /\ 0 \in 0..(Lease + 1) /\ 1 \in 0..(Lease + 1)
  /\ 0 \in 0..Long /\ Long \in 0..Long /\ Long \in Nat
  BY Durations DEF Never, Long

\* Who moves what.
LEMMA Steps ==
  ASSUME Next
  PROVE  \/ ScanCallback \/ OdomCallback \/ Serve \/ WarmupTimeout \/ Begin \/ Loop \/ Finish
         \/ StartRecovery \/ TimesOut \/ Decides \/ NextManeuver \/ Requeues
         \/ EmergencyStop \/ EmergencyStopReset \/ NodeCrash \/ Tick
  BY DEF Next, Node, Client

LEMMA OpSteps ==
  ASSUME Next
  PROVE  Serve \/ WarmupTimeout \/ Begin \/ Loop \/ Finish \/ NodeCrash \/ Tick \/ UNCHANGED op
  <1>1. CASE ScanCallback
      BY <1>1 DEF ScanCallback
  <1>2. CASE OdomCallback
      BY <1>2 DEF OdomCallback
  <1>3. CASE StartRecovery \/ TimesOut \/ Decides \/ NextManeuver \/ Requeues
      BY <1>3 DEF StartRecovery, TimesOut, Decides, NextManeuver, Requeues, node
  <1>4. CASE EmergencyStop \/ EmergencyStopReset
      BY <1>4 DEF EmergencyStop, EmergencyStopReset, node
  <1> QED
      BY <1>1, <1>2, <1>3, <1>4, Steps

LEMMA SensorSteps ==
  ASSUME Next
  PROVE  \/ ScanCallback \/ OdomCallback \/ Tick \/ UNCHANGED <<scan, odom>>
         \/ scan' = NoScan /\ odom' = NoOdom
  <1>1. CASE Serve
      BY <1>1 DEF Serve, node
  <1>2. CASE Finish \/ NodeCrash
      BY <1>2 DEF Finish, NodeCrash
  <1>3. CASE WarmupTimeout \/ Begin \/ Loop
      BY <1>3 DEF WarmupTimeout, Begin, Loop
  <1>4. CASE StartRecovery \/ TimesOut \/ Decides \/ NextManeuver \/ Requeues
      BY <1>4 DEF StartRecovery, TimesOut, Decides, NextManeuver, Requeues, node
  <1>5. CASE EmergencyStop \/ EmergencyStopReset
      BY <1>5 DEF EmergencyStop, EmergencyStopReset, node
  <1> QED
      BY <1>1, <1>2, <1>3, <1>4, <1>5, Steps

LEMMA ArbiterSteps ==
  ASSUME Next
  PROVE  \/ Loop \/ EmergencyStop \/ Tick
         \/ drive' \in {0, drive} /\ UNCHANGED hold /\ estop' \in {FALSE, estop}
  <1>1. CASE ScanCallback
      BY <1>1 DEF ScanCallback, arbiter
  <1>5. CASE OdomCallback
      BY <1>5 DEF OdomCallback, arbiter
  <1>6. CASE Serve \/ Finish
      BY <1>6 DEF Serve, Finish, arbiter
  <1>2. CASE WarmupTimeout \/ Begin
      BY <1>2 DEF WarmupTimeout, Begin, Ends, PublishStop
  <1>3. CASE StartRecovery \/ TimesOut \/ Decides \/ NextManeuver \/ Requeues
      BY <1>3 DEF StartRecovery, TimesOut, Decides, NextManeuver, Requeues, arbiter
  <1>4. CASE EmergencyStopReset \/ NodeCrash
      BY <1>4 DEF EmergencyStopReset, NodeCrash, arbiter
  <1> QED
      BY <1>1, <1>2, <1>3, <1>4, <1>5, <1>6, Steps

LEMMA AgentSteps ==
  ASSUME Next
  PROVE  \/ Serve \/ Finish \/ StartRecovery \/ TimesOut \/ Decides \/ NextManeuver \/ Requeues \/ Tick
         \/ UNCHANGED <<request, client, plan>>
  <1>1. CASE ScanCallback
      BY <1>1 DEF ScanCallback, agent
  <1>4. CASE OdomCallback
      BY <1>4 DEF OdomCallback, agent
  <1>2. CASE WarmupTimeout \/ Begin \/ Loop
      BY <1>2 DEF WarmupTimeout, Begin, Loop, agent
  <1>3. CASE EmergencyStop \/ EmergencyStopReset \/ NodeCrash
      BY <1>3 DEF EmergencyStop, EmergencyStopReset, NodeCrash, agent
  <1> QED
      BY <1>1, <1>2, <1>3, <1>4, Steps

LEMMA HistorySteps ==
  ASSUME Next
  PROVE  \/ ScanCallback \/ OdomCallback \/ Serve \/ Finish \/ StartRecovery \/ EmergencyStop
         \/ NodeCrash \/ Tick \/ UNCHANGED <<history, events>>
  <1>1. CASE WarmupTimeout \/ Begin \/ Loop
      BY <1>1 DEF WarmupTimeout, Begin, Loop
  <1>2. CASE TimesOut \/ Decides \/ NextManeuver \/ Requeues \/ EmergencyStopReset
      BY <1>2 DEF TimesOut, Decides, NextManeuver, Requeues, EmergencyStopReset
  <1> QED
      BY <1>1, <1>2, Steps

LEMMA OpTyped == ASSUME OpType, AgentType, Next PROVE OpType'
  <1> USE Durations, Bounds DEF OpRecord
  <1>1. op \in OpRecord
      BY DEF OpType
  <1>2. ASSUME NEW done \in BOOLEAN, Ends(done), op.phase # "idle" PROVE OpType'
    <2>1. op' \in OpRecord
        BY <1>1, <1>2 DEF Ends
    <2>2. op'.phase = "stopping" /\ op'.spent = 0 /\ op'.kind = op.kind
        BY <1>1, <1>2 DEF Ends
    <2> QED
        BY <1>2, <2>1, <2>2 DEF OpType
  <1>3. CASE Serve
    <2>1. CASE op.phase = "idle"
      <3>1. request.kind \in Kind
          BY <1>3 DEF Serve, AgentType
      <3>2. op' = [phase |-> "warmup", kind |-> request.kind, spent |-> 0, due |-> 0, done |-> FALSE]
          BY <1>3, <2>1 DEF Serve, NoOp
      <3>3. op' \in OpRecord
          BY <3>1, <3>2
      <3> QED
          BY <3>1, <3>2, <3>3 DEF OpType
    <2>2. CASE op.phase # "idle"
        BY <1>3, <2>2 DEF Serve, node, OpType
    <2> QED
        BY <2>1, <2>2
  <1>4. CASE WarmupTimeout
      BY <1>2, <1>4 DEF WarmupTimeout
  <1>5. CASE Begin
    <2>1. CASE op' = [op EXCEPT !.phase = "moving", !.spent = 0, !.due = 0]
      <3>1. op' \in OpRecord
          BY <1>1, <2>1
      <3>2. op'.phase = "moving" /\ op'.spent = 0 /\ op'.due = 0 /\ op'.kind = op.kind
          BY <1>1, <2>1
      <3> QED
          BY <1>5, <3>1, <3>2 DEF Begin, OpType
    <2> QED
        BY <1>2, <1>5, <2>1 DEF Begin
  <1>6. CASE Loop
    <2>1. CASE op.spent < TimeLimit /\ op' = [op EXCEPT !.due = 1]
      <3>1. op' \in OpRecord
          BY <1>1, <2>1
      <3>2. op'.phase = op.phase /\ op'.spent = op.spent /\ op'.due = 1 /\ op'.kind = op.kind
          BY <1>1, <2>1
      <3>3. op.spent + 1 <= TimeLimit
          BY <1>1, <2>1
      <3> QED
          BY <1>6, <3>1, <3>2, <3>3 DEF Loop, OpType
    <2>2. op.spent >= TimeLimit \/ op.spent < TimeLimit
        BY <1>1
    <2> QED
        BY <1>2, <1>6, <2>1, <2>2 DEF Loop, OutOfTime
  <1>7. CASE Finish \/ NodeCrash
    <2>1. op' = NoOp
        BY <1>7 DEF Finish, NodeCrash
    <2> QED
        BY <2>1 DEF NoOp, OpType
  <1>8. CASE Tick
    <2>1. CASE op.phase = "idle"
        BY <1>8, <2>1 DEF Tick, OpType
    <2>2. CASE op.phase = "moving"
      <3>1. op' = [op EXCEPT !.spent = op.spent + 1, !.due = op.due - 1] /\ op.due > -Late
          BY <1>8, <2>2 DEF Tick, OnTime
      <3>2. op.due - 1 \in -Late..1 /\ op.spent + 1 \in Nat
          BY <1>1, <3>1
      <3>3. op' \in OpRecord
          BY <1>1, <3>1, <3>2
      <3>4. /\ op'.phase = "moving" /\ op'.kind = op.kind
            /\ op'.spent = op.spent + 1 /\ op'.due = op.due - 1
          BY <1>1, <2>2, <3>1
      <3>5. op'.spent + op'.due <= TimeLimit
          BY <1>1, <2>2, <3>4 DEF OpType
      <3> QED
          BY <2>2, <3>3, <3>4, <3>5 DEF OpType
    <2>3. CASE op.phase \in {"warmup", "stopping"}
      <3>1. op' = [op EXCEPT !.spent = op.spent + 1, !.due = 0]
          BY <1>8, <2>3 DEF Tick
      <3>2. /\ op.spent + 1 \in Nat
            /\ op.phase = "warmup" => op.spent + 1 <= Warmup + Late
            /\ op.phase = "stopping" => op.spent + 1 <= Stops + Late
          BY <1>1, <1>8 DEF Tick, OnTime
      <3>3. op' \in OpRecord
          BY <1>1, <3>1, <3>2
      <3>4. op'.phase = op.phase /\ op'.kind = op.kind /\ op'.spent = op.spent + 1
          BY <1>1, <3>1
      <3> QED
          BY <2>3, <3>2, <3>3, <3>4 DEF OpType
    <2>4. op.phase \in {"idle", "warmup", "moving", "stopping"}
        BY <1>1
    <2> QED
        BY <2>1, <2>2, <2>3, <2>4
  <1>9. CASE UNCHANGED op
      BY <1>9 DEF OpType
  <1> QED
      BY <1>3, <1>4, <1>5, <1>6, <1>7, <1>8, <1>9, OpSteps

LEMMA SensorTyped == ASSUME OpType, SensorType, Next PROVE SensorType'
  <1> USE Durations, Bounds DEF SensorType
  <1>1. CASE ScanCallback
    <2>1. PICK v \in Verdicts[op.kind] : scan' = [age |-> 0, go |-> v.go, on |-> v.on]
        BY <1>1 DEF ScanCallback
    <2>2. v.go \in BOOLEAN /\ v.on \in BOOLEAN
        BY <1>1, VerdictsRefuse DEF OpType, ScanCallback, Streams
    <2> QED
        BY <1>1, <2>1, <2>2 DEF ScanCallback
  <1>2. CASE OdomCallback
      BY <1>2 DEF OdomCallback, Says, Progress
  <1>3. CASE scan' = NoScan /\ odom' = NoOdom
      BY <1>3 DEF NoScan, NoOdom, Progress
  <1>4. CASE Tick
    <2>1. /\ scan' = [scan EXCEPT !.age = Older(scan.age)]
          /\ odom' = [odom EXCEPT !.age = Older(odom.age)]
        BY <1>4 DEF Tick
    <2>2. \A n \in Never..(SensorTimeout + 1) : Older(n) \in Never..(SensorTimeout + 1)
        BY DEF Older, Cap, Never
    <2> QED
        BY <2>1, <2>2
  <1>5. CASE UNCHANGED <<scan, odom>>
      BY <1>5
  <1> QED
      BY <1>1, <1>2, <1>3, <1>4, <1>5, SensorSteps

LEMMA ArbiterTyped == ASSUME ArbiterType, Next PROVE ArbiterType'
  <1> USE Durations, Bounds DEF ArbiterType
  <1>1. CASE Loop
      BY <1>1 DEF Loop, Ends, PublishStop, PublishMotion
  <1>2. CASE EmergencyStop
      BY <1>2 DEF EmergencyStop
  <1>3. CASE Tick
      BY <1>3 DEF Tick, Down
  <1> QED
      BY <1>1, <1>2, <1>3, ArbiterSteps

\* What the thread may decide.
LEMMA LeavingTyped ==
  ASSUME NEW pc \in {"idle", "plan", "recovered"}, ClientLeaves(pc) PROVE client' \in ClientRecord
  BY Bounds DEF ClientLeaves, AtRest, ClientRecord

LEMMA NoPlanTyped ==
  NoPlan \in PlanRecord /\ NoPlan.stage = "arc" /\ NoPlan.steps = 0 /\ NoPlan.round = "first"
  BY DEF NoPlan, PlanRecord

LEMMA EndsTyped ==
  ASSUME AgentType, GivesUp \/ Recovered, UNCHANGED request PROVE AgentType'
  BY LeavingTyped, NoPlanTyped DEF AgentType, GivesUp, Recovered

LEMMA GoesToTyped ==
  ASSUME AgentType, NEW stage \in {"turn1", "turn2", "reverse"}, GoesTo(stage), UNCHANGED request,
         stage = "reverse" => plan.steps < 2
  PROVE  AgentType'
  <1>1. plan' \in PlanRecord /\ plan'.stage = stage /\ plan'.steps = plan.steps
      BY DEF AgentType, GoesTo, PlanRecord
  <1>2. plan.steps \in 0..2
      BY DEF AgentType, PlanRecord
  <1> QED
      BY <1>1, <1>2, LeavingTyped DEF AgentType, GoesTo

LEMMA SearchesTyped ==
  ASSUME AgentType, NEW round \in {"search", "extend"}, Searches(round), UNCHANGED request
  PROVE  AgentType'
  <1>1. plan \in PlanRecord /\ 0 \in 0..2
      BY DEF AgentType
  <1>2. plan' = [plan EXCEPT !.round = round, !.stage = "arc", !.steps = 0]
      BY DEF Searches
  <1>3. plan' \in PlanRecord /\ plan'.stage = "arc" /\ plan'.steps = 0
      BY <1>1, <1>2 DEF PlanRecord
  <1> QED
      BY <1>3, LeavingTyped DEF AgentType, Searches

LEMMA DecidesTyped == ASSUME AgentType, Decides PROVE AgentType'
  <1>1. UNCHANGED request
      BY DEF Decides
  <1>2. plan \in PlanRecord /\ plan.steps \in 0..2
      BY DEF AgentType, PlanRecord
  <1>3. CASE AfterFirst
      BY <1>1, <1>3, EndsTyped, SearchesTyped DEF AfterFirst, Escaped
  <1>4. CASE AfterTurn
    <2>1. CASE NextStep
        BY <1>1, <2>1, EndsTyped, GoesToTyped DEF NextStep, Exhausted
    <2>2. CASE plan.stage = "arc" /\ GoesTo("reverse")
        BY <1>1, <2>2, GoesToTyped DEF AgentType
    <2> QED
        BY <1>1, <1>4, <2>1, <2>2, EndsTyped, GoesToTyped, SearchesTyped DEF AfterTurn, Escaped
  <1>5. CASE AfterReverse
    <2>1. CASE /\ plan.stage = "reverse" /\ ClientLeaves("plan")
               /\ plan' = [plan EXCEPT !.stage = "turn1", !.steps = plan.steps + 1]
      <3>1. plan.steps + 1 \in 0..2
          BY <1>2, <2>1 DEF AgentType
      <3>2. plan' \in PlanRecord /\ plan'.stage = "turn1"
          BY <1>2, <2>1, <3>1 DEF PlanRecord
      <3> QED
          BY <1>1, <2>1, <3>2, LeavingTyped DEF AgentType
    <2> QED
        BY <1>1, <1>5, <2>1, EndsTyped DEF AfterReverse, Exhausted
  <1> QED
      BY <1>3, <1>4, <1>5 DEF Decides

LEMMA AgentTyped == ASSUME AgentType, Next PROVE AgentType'
  <1>1. CASE Serve
    <2>1. client' = client \/ client' = [client EXCEPT !.pc = "failed"]
        BY <1>1 DEF Serve, AgentType, ClientRecord
    <2>2. client' \in ClientRecord
        BY <2>1 DEF AgentType, ClientRecord
    <2> QED
        BY <1>1, <2>2, Bounds DEF Serve, NoRequest, AgentType
  <1>2. CASE Finish
    <2>1. \/ client' = client \/ client' = [client EXCEPT !.pc = "ok"]
          \/ client' = [client EXCEPT !.pc = "failed"]
        BY <1>2 DEF Finish
    <2>2. client' \in ClientRecord
        BY <2>1 DEF AgentType, ClientRecord
    <2> QED
        BY <1>2, <2>2 DEF Finish, AgentType
  <1>3. ASSUME NEW kind \in Kind, Asks(kind)
        PROVE  client' \in ClientRecord /\ request' \in [kind : Kind \cup {None}, age : 0..Delivery]
      BY <1>3, Bounds DEF Asks, ClientRecord
  <1>4. CASE StartRecovery
    <2>1. PICK kind \in Kind : Asks(kind) /\ plan' = [NoPlan EXCEPT !.backed = (kind = "reverse")]
        BY <1>4 DEF StartRecovery
    <2>2. PICK b \in BOOLEAN : plan' = [NoPlan EXCEPT !.backed = b]
        BY <2>1
    <2>3. plan' \in PlanRecord /\ plan'.stage = "arc" /\ plan'.steps = 0
        BY <2>2, NoPlanTyped DEF PlanRecord
    <2> QED
        BY <1>3, <2>1, <2>3 DEF AgentType
  <1>5. CASE TimesOut
    <2>1. client' \in ClientRecord
        BY <1>5, Bounds DEF TimesOut, AgentType, ClientRecord
    <2> QED
        BY <1>5, <2>1 DEF TimesOut, AgentType
  <1>6. CASE NextManeuver
    <2>1. CASE UNCHANGED plan /\ \E kind \in Kind : Asks(kind)
        BY <1>3, <2>1 DEF AgentType
    <2>2. CASE UNCHANGED request /\ (GivesUp \/ Exhausted)
        BY <2>2, EndsTyped DEF Exhausted
    <2>3. CASE UNCHANGED request /\ plan.stage = "arc" /\ GoesTo("reverse")
        BY <2>3, GoesToTyped DEF AgentType
    <2>4. CASE UNCHANGED request /\ NextStep
        BY <2>4, EndsTyped, GoesToTyped DEF NextStep, Exhausted
    <2>5. (IF plan.stage = "reverse" THEN "reverse" ELSE "arc") \in Kind
        BY DEF Kind
    <2> QED
        BY <1>6, <2>1, <2>2, <2>3, <2>4, <2>5 DEF NextManeuver
  <1>7. CASE Requeues
      BY <1>7, EndsTyped DEF Requeues
  <1>8. CASE Tick
    <2>1. request' = request \/ (request.age < Delivery /\
            request' = [request EXCEPT !.age = request.age + 1])
        BY <1>8 DEF Tick, OnTime
    <2>2. client' = client \/ client' = [client EXCEPT !.waited = Cap(client.waited + 1, Patience)]
        BY <1>8 DEF Tick
    <2>3. Cap(client.waited + 1, Patience) \in 0..Patience
        BY Durations DEF Cap, AgentType, ClientRecord
    <2>4. client' \in ClientRecord
        BY <2>2, <2>3 DEF AgentType, ClientRecord
    <2>5. request' \in [kind : Kind \cup {None}, age : 0..Delivery]
        BY <2>1, Durations DEF AgentType
    <2> QED
        BY <1>8, <2>4, <2>5 DEF Tick, AgentType
  <1>9. CASE UNCHANGED <<request, client, plan>>
      BY <1>9 DEF AgentType
  <1> QED
      BY <1>1, <1>2, <1>4, <1>5, <1>6, <1>7, <1>8, <1>9, DecidesTyped, AgentSteps

LEMMA HistoryTyped == ASSUME ArbiterType, HistoryType, Next PROVE HistoryType'
  <1> USE Durations, Bounds DEF HistoryType
  <1>1. CASE ScanCallback
    <2>1. PICK h \in {0, Larger(history.hit, 1)} :
            history' = [history EXCEPT !.hit = h, !.unseen["scan"] = 0]
        BY <1>1 DEF ScanCallback
    <2>2. h \in 0..(Lease + 1)
        BY <2>1 DEF Larger
    <2> QED
        BY <1>1, <2>1, <2>2 DEF ScanCallback, Sensor
  <1>2. CASE OdomCallback
      BY <1>2 DEF OdomCallback, Sensor
  <1>3. CASE Serve
    <2>1. CASE UNCHANGED history
        BY <1>3, <2>1 DEF Serve
    <2>2. CASE history' = [history EXCEPT !.hit = 0, !.interrupted = estop]
        BY <1>3, <2>2 DEF Serve, ArbiterType
    <2> QED
        BY <1>3, <2>1, <2>2 DEF Serve
  <1>4. CASE Finish
    <2>1. PICK b \in BOOLEAN :
            \/ history' = [history EXCEPT !.hit = 0, !.interrupted = FALSE, !.moved = b]
            \/ history' = [history EXCEPT !.hit = 0, !.interrupted = FALSE]
      <3>1. (history.moved \/ op.done) \in BOOLEAN
          OBVIOUS
      <3> QED
          BY <1>4, <3>1 DEF Finish
    <2>2. CASE history' = [history EXCEPT !.hit = 0, !.interrupted = FALSE, !.moved = b]
        BY <1>4, <2>2 DEF Finish
    <2>3. CASE history' = [history EXCEPT !.hit = 0, !.interrupted = FALSE]
        BY <1>4, <2>3 DEF Finish
    <2> QED
        BY <2>1, <2>2, <2>3
  <1>5. CASE StartRecovery
      BY <1>5 DEF StartRecovery
  <1>9. CASE NodeCrash
    <2>1. history' = [history EXCEPT !.interrupted = FALSE]
        BY <1>9 DEF NodeCrash
    <2>2. events' \in 0..MaxEvents
        BY <1>9 DEF NodeCrash, Occurs
    <2> QED
        BY <2>1, <2>2
  <1>6. CASE EmergencyStop
    <2>1. PICK b \in BOOLEAN : history' = [history EXCEPT !.interrupted = b]
      <3>1. (op.phase # "idle") \in BOOLEAN
          OBVIOUS
      <3> QED
          BY <1>6, <3>1 DEF EmergencyStop
    <2> QED
        BY <1>6, <2>1 DEF EmergencyStop, Occurs
  <1>7. CASE Tick
    <2> DEFINE unseen == [x \in Sensor |->
                 IF op.phase = "idle" /\ drive <= 1 THEN Long ELSE Cap(history.unseen[x] + 1, Long)]
               hit == IF history.hit = 0 THEN 0 ELSE Cap(history.hit + 1, Lease + 1)
    <2>1. history' = [history EXCEPT !.hit = hit, !.unseen = unseen] /\ UNCHANGED events
        BY <1>7 DEF Tick
    <2>2. hit \in 0..(Lease + 1)
        BY DEF Cap
    <2>3. unseen \in [Sensor -> 0..Long]
        BY DEF Cap
    <2> HIDE DEF hit, unseen
    <2> QED
        BY <2>1, <2>2, <2>3
  <1>8. CASE UNCHANGED <<history, events>>
      BY <1>8
  <1> QED
      BY <1>1, <1>2, <1>3, <1>4, <1>5, <1>6, <1>7, <1>8, <1>9, HistorySteps

LEMMA TypedInit == Init => Typed
  <1> SUFFICES ASSUME Init PROVE Typed
      OBVIOUS
  <1> USE Durations, Bounds DEF Init
  <1>1. OpType
      BY DEF OpType, OpRecord, NoOp
  <1>2. SensorType
      BY DEF SensorType, NoScan, NoOdom, Progress
  <1>3. ArbiterType
      BY DEF ArbiterType
  <1>4. AgentType
      BY NoPlanTyped DEF AgentType, NoRequest, AtRest, ClientRecord
  <1>5. HistoryType
      BY DEF HistoryType
  <1> QED
      BY <1>1, <1>2, <1>3, <1>4, <1>5 DEF Typed

LEMMA TypedStep == ASSUME Typed, [Next]_vars PROVE Typed'
  <1>1. CASE Next
      BY <1>1, OpTyped, SensorTyped, ArbiterTyped, AgentTyped, HistoryTyped DEF Typed
  <1>2. CASE UNCHANGED vars
      BY <1>2
      DEF vars, node, agent, arbiter, Typed, OpType, SensorType, ArbiterType, AgentType, HistoryType
  <1> QED
      BY <1>1, <1>2

LEMMA TypedIsTypeOK == Typed => TypeOK
  <1> SUFFICES ASSUME Typed PROVE TypeOK
      OBVIOUS
  <1>1. op \in [phase : {"idle", "warmup", "moving", "stopping"}, kind : Kind \cup {None},
                spent : 0..(Larger(Larger(Warmup, TimeLimit), Stops) + Late),
                due : -Late..1, done : BOOLEAN]
    <2>1. op.spent \in 0..(Larger(Larger(Warmup, TimeLimit), Stops) + Late)
        BY Durations DEF Typed, OpType, OpRecord, Larger
    <2> QED
        BY <2>1 DEF Typed, OpType, OpRecord
  <1> QED
      BY <1>1 DEF Typed, SensorType, ArbiterType, AgentType, ClientRecord, PlanRecord, HistoryType, TypeOK

\* The types of the escape: no maneuver outlasts its warm-up, its time limit or
\* its stops by more than one late pass, and the search its two steps.
THEOREM TypeCorrect == Spec => []TypeOK
  BY TypedInit, TypedStep, TypedIsTypeOK, PTL DEF Spec

-----------------------------------------------------------------------------
(* Sensors. *)

\* What the shape of the state says, field by field.
LEMMA Fields ==
  ASSUME Typed
  PROVE  /\ op.phase \in {"idle", "warmup", "moving", "stopping"}
         /\ op.spent \in Nat /\ op.due \in -Late..1
         /\ scan.age \in Never..(SensorTimeout + 1) /\ odom.age \in Never..(SensorTimeout + 1)
         /\ drive \in 0..Lease /\ history.hit \in 0..(Lease + 1)
         /\ \A x \in Sensor : history.unseen[x] \in 0..Long
         /\ history.moved \in BOOLEAN
  <1>1. op.phase \in {"idle", "warmup", "moving", "stopping"} /\ op.spent \in Nat /\ op.due \in -Late..1
      BY DEF Typed, OpType, OpRecord
  <1>2. scan.age \in Never..(SensorTimeout + 1) /\ odom.age \in Never..(SensorTimeout + 1)
      BY DEF Typed, SensorType
  <1>3. drive \in 0..Lease
      BY DEF Typed, ArbiterType
  <1>4. history.hit \in 0..(Lease + 1) /\ (\A x \in Sensor : history.unseen[x] \in 0..Long)
        /\ history.moved \in BOOLEAN
      BY DEF Typed, HistoryType
  <1> QED
      BY <1>1, <1>2, <1>3, <1>4

\* What the history is after a step, as far as Watching reads it.
LEMMA HitSteps ==
  ASSUME Typed, Next
  PROVE  \/ ScanCallback \/ Serve \/ Finish \/ Tick
         \/ history'.hit = history.hit
  <1>1. CASE OdomCallback
      BY <1>1 DEF OdomCallback, Typed, HistoryType
  <1>2. CASE StartRecovery
      BY <1>2 DEF StartRecovery, Typed, HistoryType
  <1>3. CASE EmergencyStop
      BY <1>3 DEF EmergencyStop, Typed, HistoryType
  <1>4. CASE NodeCrash
      BY <1>4 DEF NodeCrash, Typed, HistoryType
  <1> QED
      BY <1>1, <1>2, <1>3, <1>4, HistorySteps

LEMMA UnseenSteps ==
  ASSUME Typed, Next
  PROVE  \/ ScanCallback \/ OdomCallback \/ Tick
         \/ history'.unseen = history.unseen
  <1> USE DEF Typed, HistoryType
  <1>1. CASE Serve
      BY <1>1 DEF Serve
  <1>2. CASE Finish
      BY <1>2 DEF Finish
  <1>3. CASE StartRecovery
      BY <1>3 DEF StartRecovery
  <1>4. CASE EmergencyStop
      BY <1>4 DEF EmergencyStop
  <1>5. CASE NodeCrash
      BY <1>5 DEF NodeCrash
  <1> QED
      BY <1>1, <1>2, <1>3, <1>4, <1>5, HistorySteps

LEMMA TickHistory ==
  ASSUME Typed, Tick
  PROVE  /\ history'.hit = IF history.hit = 0 THEN 0 ELSE Cap(history.hit + 1, Lease + 1)
         /\ op.phase # "idle" \/ drive > 1 =>
              \A x \in Sensor : history'.unseen[x] <= history.unseen[x] + 1
  <1> USE DEF Typed, HistoryType
  <1> DEFINE unseen == [x \in Sensor |->
               IF op.phase = "idle" /\ drive <= 1 THEN Long ELSE Cap(history.unseen[x] + 1, Long)]
             hit == IF history.hit = 0 THEN 0 ELSE Cap(history.hit + 1, Lease + 1)
  <1>1. history' = [history EXCEPT !.hit = hit, !.unseen = unseen]
      BY DEF Tick
  <1> HIDE DEF hit, unseen
  <1>2. history'.hit = hit /\ history'.unseen = unseen
      BY <1>1
  <1>3. op.phase # "idle" \/ drive > 1 => \A x \in Sensor : unseen[x] <= history.unseen[x] + 1
      BY Fields, Bounds DEF unseen, Cap
  <1> QED
      BY <1>2, <1>3 DEF hit

LEMMA TickSensors ==
  ASSUME Typed, Tick
  PROVE  /\ scan'.age = Older(scan.age) /\ odom'.age = Older(odom.age)
         /\ scan'.on = scan.on /\ scan'.go = scan.go
         /\ op'.phase = op.phase
         /\ op.phase = "moving" => op'.due = op.due - 1
  <1>1. scan' = [scan EXCEPT !.age = Older(scan.age)] /\ odom' = [odom EXCEPT !.age = Older(odom.age)]
      BY DEF Tick
  <1>2. \/ UNCHANGED op /\ op.phase = "idle"
        \/ op' = [op EXCEPT !.spent = op.spent + 1, !.due = IF op.phase = "moving" THEN op.due - 1 ELSE 0]
      BY DEF Tick
  <1> QED
      BY <1>1, <1>2 DEF Typed, SensorType, OpType, OpRecord

LEMMA IdleSteps ==
  ASSUME Typed, Next, op'.phase = "idle"
  PROVE  op.phase = "idle" \/ (scan' = NoScan /\ odom' = NoOdom)
  <1> USE DEF Typed, OpType, OpRecord
  <1>1. CASE Serve
      BY <1>1 DEF Serve, node
  <1>2. CASE WarmupTimeout \/ Begin \/ Loop
      BY <1>2 DEF WarmupTimeout, Begin, Loop, Ends
  <1>3. CASE Tick
      BY <1>3, TickSensors
  <1>4. CASE Finish \/ NodeCrash
      BY <1>4 DEF Finish, NodeCrash
  <1>5. CASE UNCHANGED op
      BY <1>5
  <1> QED
      BY <1>1, <1>2, <1>3, <1>4, <1>5, OpSteps

LEMMA HeededStep == ASSUME Typed, Heeded, Next PROVE Heeded'
  <1> USE DEF Heeded, Fresh
  <1>1. CASE ScanCallback
    <2>1. scan'.age = 0 /\ UNCHANGED <<op, odom>> /\ op.phase # "idle"
        BY <1>1 DEF ScanCallback, Streams
    <2>2. history'.unseen["scan"] = 0 /\ history'.unseen["odom"] = history.unseen["odom"]
        BY <1>1 DEF ScanCallback, Typed, HistoryType, Sensor
    <2> QED
        BY <2>1, <2>2
  <1>2. CASE OdomCallback
    <2>1. odom'.age = 0 /\ UNCHANGED <<op, scan>> /\ op.phase # "idle"
        BY <1>2 DEF OdomCallback, Streams
    <2>2. history'.unseen["odom"] = 0 /\ history'.unseen["scan"] = history.unseen["scan"]
        BY <1>2 DEF OdomCallback, Typed, HistoryType, Sensor
    <2> QED
        BY <2>1, <2>2
  <1>3. CASE scan' = NoScan /\ odom' = NoOdom
      BY <1>3 DEF NoScan, NoOdom
  <1>4. CASE Tick
    <2>1. CASE op.phase = "idle"
        BY <1>4, <2>1, TickSensors DEF Older
    <2>2. CASE op.phase # "idle"
      <3>1. history'.unseen["scan"] <= history.unseen["scan"] + 1 /\ history'.unseen["odom"] <= history.unseen["odom"] + 1
          BY <1>4, <2>2, TickHistory DEF Sensor
      <3>2. \A n \in Never..(SensorTimeout + 1) :
              Older(n) # Never /\ Older(n) <= SensorTimeout =>
                n # Never /\ n <= SensorTimeout /\ Older(n) = n + 1
          BY Durations DEF Older, Cap, Never
      <3>3. history.unseen["scan"] \in 0..Long /\ history.unseen["odom"] \in 0..Long
          BY Fields DEF Sensor
      <3>4. history'.unseen["scan"] \in 0..Long /\ history'.unseen["odom"] \in 0..Long
        <4>1. HistoryType'
            BY <1>4, HistoryTyped DEF Typed, Next
        <4> QED
            BY <4>1 DEF HistoryType, Sensor
      <3> HIDE DEF Fresh
      <3>5. /\ Fresh(scan)' => Fresh(scan) /\ scan'.age = scan.age + 1
            /\ Fresh(odom)' => Fresh(odom) /\ odom'.age = odom.age + 1
          BY <1>4, <3>2, Fields, TickSensors DEF Fresh
      <3>6. op'.phase # "idle"
          BY <1>4, <2>2, TickSensors
      <3> QED
          BY <3>1, <3>3, <3>4, <3>5, <3>6, Fields, Bounds, Durations DEF Never
    <2> QED
        BY <2>1, <2>2
  <1>5. CASE UNCHANGED <<scan, odom>> /\ history'.unseen = history.unseen
    <2>1. op'.phase = "idle" => op.phase = "idle" \/ (scan' = NoScan /\ odom' = NoOdom)
        BY IdleSteps
    <2>2. Fresh(scan)' = Fresh(scan) /\ Fresh(odom)' = Fresh(odom)
        BY <1>5
    <2> QED
        BY <1>3, <1>5, <2>1, <2>2
  <1> QED
      BY <1>1, <1>2, <1>3, <1>4, <1>5, SensorSteps, UnseenSteps

\* Motion is published only on a scan and on odometry within their timeout.
LEMMA PublishedOnFresh ==
  ASSUME Typed, Watching, Loop, drive' > 0, drive' # drive
  PROVE  /\ drive' = Lease /\ history.hit = 0
         /\ history.unseen["scan"] <= SensorTimeout /\ history.unseen["odom"] <= SensorTimeout
  <1>1. ~Ends(TRUE) /\ ~Ends(FALSE)
    <2>1. drive' # 0
        OBVIOUS
    <2> QED
        BY <2>1, Zenon DEF Ends, PublishStop
  <1>2. MayGoOn /\ PublishMotion /\ op.phase = "moving"
      BY <1>1 DEF Loop
  <1>3. Fresh(scan) /\ Fresh(odom) /\ scan.on
      BY <1>2 DEF MayGoOn
  <1>4. history.hit = 0
      BY <1>2, <1>3, Fields DEF Watching, Halting, Streams
  <1>5. history.unseen["scan"] <= scan.age /\ history.unseen["odom"] <= odom.age
      BY <1>3 DEF Watching, Heeded
  <1>6. /\ scan.age <= SensorTimeout /\ odom.age <= SensorTimeout
        /\ scan.age \in Int /\ odom.age \in Int
        /\ history.unseen["scan"] \in Nat /\ history.unseen["odom"] \in Nat
      BY <1>3, Fields, Durations, Bounds DEF Fresh, Sensor, Never
  <1>7. history.unseen["scan"] <= SensorTimeout /\ history.unseen["odom"] <= SensorTimeout
      BY <1>5, <1>6, Durations
  <1> QED
      BY <1>2, <1>4, <1>7 DEF PublishMotion

LEMMA SeenStep == ASSUME Typed, Watching, Next PROVE Seen'
  <1>1. CASE drive' \in {0, drive} /\ \A x \in Sensor : history'.unseen[x] <= history.unseen[x]
    <2>1. drive' \in Nat /\ \A x \in Sensor : history.unseen[x] \in Nat /\ history'.unseen[x] \in Nat
      <3>1. Typed'
          BY TypedStep
      <3> QED
          BY <3>1, Durations, Bounds DEF Typed, ArbiterType, HistoryType
    <2> QED
        BY <1>1, <2>1, Durations DEF Watching, Seen
  <1>2. CASE Loop
    <2>1. UNCHANGED history
        BY <1>2 DEF Loop
    <2>2. CASE drive' # drive /\ drive' > 0
        BY <1>2, <2>1, <2>2, PublishedOnFresh, Fields, Durations, Bounds DEF Seen, Sensor
    <2>3. CASE drive' = drive
        BY <2>1, <2>3 DEF Seen, Watching
    <2>4. CASE ~(drive' > 0)
        BY <2>4 DEF Seen
    <2> QED
        BY <2>2, <2>3, <2>4
  <1>3. CASE EmergencyStop
      BY <1>3 DEF EmergencyStop, Seen
  <1>4. CASE Tick
    <2>1. drive' = Down(drive)
        BY <1>4 DEF Tick
    <2>2. CASE drive <= 1
        BY <2>1, <2>2, Fields, Durations DEF Down, Seen
    <2>3. CASE drive > 1
      <3>1. drive' = drive - 1 /\ drive \in Nat
          BY <2>1, <2>3, Fields, Durations DEF Down
      <3>2. \A x \in Sensor : history'.unseen[x] <= history.unseen[x] + 1
          BY <1>4, <2>3, TickHistory
      <3>3. Typed'
          BY <1>4, TypedStep DEF Next
      <3>4. \A x \in Sensor : history.unseen[x] \in Nat /\ history'.unseen[x] \in Nat
          BY <3>3, Durations, Bounds DEF Typed, HistoryType
      <3> QED
          BY <2>3, <3>1, <3>2, <3>4, Durations DEF Watching, Seen
    <2> QED
        BY <2>2, <2>3, Fields, Durations
  <1>5. CASE ScanCallback
    <2>1. UNCHANGED drive /\ \A x \in Sensor : history'.unseen[x] \in {0, history.unseen[x]}
        BY <1>5 DEF ScanCallback, arbiter, Typed, HistoryType, Sensor
    <2> QED
        BY <1>1, <2>1, Fields, Durations, Bounds
  <1>6. CASE OdomCallback
    <2>1. UNCHANGED drive /\ \A x \in Sensor : history'.unseen[x] \in {0, history.unseen[x]}
        BY <1>6 DEF OdomCallback, arbiter, Typed, HistoryType, Sensor
    <2> QED
        BY <1>1, <2>1, Fields, Durations, Bounds
  <1>7. CASE drive' \in {0, drive} /\ history'.unseen = history.unseen
      BY <1>1, <1>7, Fields, Durations, Bounds
  <1> QED
      BY <1>2, <1>3, <1>4, <1>5, <1>6, <1>7, ArbiterSteps, UnseenSteps

LEMMA HaltingStep == ASSUME Typed, Watching, Next PROVE Halting'
  <1>1. CASE ScanCallback
    <2>1. PICK v \in Verdicts[op.kind] :
            /\ scan' = [age |-> 0, go |-> v.go, on |-> v.on]
            /\ history'.hit = IF ~v.hit THEN 0 ELSE Larger(history.hit, 1)
        BY <1>1 DEF ScanCallback, Typed, HistoryType
    <2>2. v.hit => ~scan'.on /\ ~scan'.go
        BY <1>1, <2>1, VerdictsRefuse DEF Typed, OpType, ScanCallback, Streams
    <2>3. UNCHANGED <<op, drive>>
        BY <1>1 DEF ScanCallback, arbiter
    <2>4. CASE history.hit = 0
      <3>1. history'.hit > 0 => history'.hit = 1
          BY <2>1, <2>4 DEF Larger
      <3> QED
          BY <2>1, <2>2, <2>3, <3>1, Fields, Durations DEF Halting
    <2>5. CASE history.hit > 0
      <3>1. history'.hit > 0 => history'.hit = history.hit
          BY <2>1, <2>5, Fields, Durations DEF Larger
      <3> QED
          BY <2>1, <2>2, <2>3, <2>5, <3>1, Fields, Durations DEF Watching, Halting
    <2> QED
        BY <2>4, <2>5, Fields, Durations
  <1>2. CASE Serve
    <2>1. CASE op.phase = "idle"
      <3>1. history'.hit = 0
          BY <1>2, <2>1 DEF Serve, Typed, HistoryType
      <3> QED
          BY <3>1 DEF Halting
    <2>2. CASE op.phase # "idle"
        BY <1>2, <2>2 DEF Serve, node, arbiter, Watching, Halting, Streams
    <2> QED
        BY <2>1, <2>2
  <1>3. CASE Finish
    <2>1. history'.hit = 0
        BY <1>3 DEF Finish, Typed, HistoryType
    <2> QED
        BY <2>1 DEF Halting
  <1>4. CASE Tick
    <2>1. /\ history'.hit = IF history.hit = 0 THEN 0 ELSE Cap(history.hit + 1, Lease + 1)
          /\ scan'.on = scan.on /\ scan'.go = scan.go /\ op'.phase = op.phase
          /\ op.phase = "moving" => op'.due = op.due - 1
          /\ drive' = IF drive = 0 THEN 0 ELSE drive - 1
        BY <1>4, TickHistory, TickSensors DEF Tick, Down
    <2>2. history.hit > 0 => history'.hit <= history.hit + 1 /\ history'.hit \in Nat
        BY <2>1, Fields, Durations DEF Cap
    <2>3. history'.hit > 0 => history.hit > 0
        BY <2>1, Fields, Durations
    <2>4. history'.hit > 0 /\ Streams' => ~scan'.on /\ ~scan'.go
        BY <2>1, <2>3 DEF Watching, Halting, Streams
    <2>5. history'.hit > 0 /\ drive' > 0 => history'.hit + drive' <= Lease + 1
        BY <2>1, <2>2, <2>3, Fields, Durations DEF Watching, Halting
    <2>6. history'.hit > 0 /\ op'.phase = "moving" => history'.hit + op'.due <= 2
        BY <2>1, <2>2, <2>3, Fields, Durations DEF Watching, Halting
    <2> QED
        BY <2>4, <2>5, <2>6 DEF Halting
  <1>5. CASE history'.hit = history.hit
    <2>1. CASE Loop
      <3>1. CASE op.due <= 0 /\ op'.phase = "stopping" /\ drive' = 0
          BY <3>1 DEF Halting, Streams
      <3>2. CASE MayGoOn /\ op.phase = "moving"
        <4>1. history.hit = 0
            BY <3>2, Fields DEF Watching, Halting, Streams, MayGoOn
        <4> QED
            BY <1>5, <4>1 DEF Halting
      <3>3. ASSUME NEW done \in BOOLEAN, Ends(done) PROVE op'.phase = "stopping" /\ drive' = 0
          BY <3>3 DEF Ends, PublishStop, Typed, OpType, OpRecord
      <3> QED
          BY <2>1, <3>1, <3>2, <3>3 DEF Loop
    <2>2. CASE Begin
      <3>1. CASE op'.phase = "stopping" /\ drive' = 0
          BY <3>1 DEF Halting, Streams
      <3>2. CASE scan.go /\ op.phase = "warmup"
        <4>1. history.hit = 0
            BY <3>2, Fields DEF Watching, Halting, Streams
        <4> QED
            BY <1>5, <4>1 DEF Halting
      <3>3. ASSUME Ends(FALSE) PROVE op'.phase = "stopping" /\ drive' = 0
          BY <3>3 DEF Ends, PublishStop, Typed, OpType, OpRecord
      <3> QED
          BY <2>2, <3>1, <3>2, <3>3 DEF Begin
    <2>3. CASE WarmupTimeout
      <3>1. op'.phase = "stopping" /\ drive' = 0
          BY <2>3 DEF WarmupTimeout, Ends, PublishStop, Typed, OpType, OpRecord
      <3> QED
          BY <3>1 DEF Halting, Streams
    <2>4. CASE NodeCrash
      <3>1. op'.phase = "idle" /\ drive' = drive
          BY <2>4 DEF NodeCrash, NoOp, arbiter
      <3> QED
          BY <1>5, <3>1 DEF Watching, Halting, Streams
    <2>5. CASE OdomCallback
        BY <1>5, <2>5 DEF OdomCallback, arbiter, Watching, Halting, Streams
    <2>6. CASE UNCHANGED op /\ UNCHANGED scan /\ drive' \in {0, drive}
        BY <1>5, <2>6 DEF Watching, Halting, Streams
    <2>7. CASE EmergencyStop
        BY <1>5, <2>7 DEF EmergencyStop, node, Watching, Halting, Streams
    <2>8. CASE StartRecovery \/ TimesOut \/ Decides \/ NextManeuver \/ Requeues \/ EmergencyStopReset
        BY <2>6, <2>8 DEF StartRecovery, TimesOut, Decides, NextManeuver, Requeues,
                          EmergencyStopReset, node, arbiter
    <2> QED
        BY <1>1, <1>2, <1>3, <1>4, <2>1, <2>2, <2>3, <2>4, <2>5, <2>7, <2>8, Steps
  <1> QED
      BY <1>1, <1>2, <1>3, <1>4, <1>5, HitSteps

LEMMA WatchingInit == Init => Watching
  BY DEF Init, Watching, Heeded, Seen, Halting, NoOp, NoScan, NoOdom, Fresh

LEMMA WatchingStep == ASSUME Typed, Watching, [Next]_vars PROVE Watching'
  <1>1. CASE Next
      BY <1>1, HeededStep, SeenStep, HaltingStep DEF Watching
  <1>2. CASE UNCHANGED vars
      BY <1>2 DEF vars, node, arbiter, Watching, Heeded, Seen, Halting, Fresh, Streams
  <1> QED
      BY <1>1, <1>2

\* However the callbacks, the loop and a crash fall, the base stands before
\* either sensor has been silent for the timeout and one lease.
THEOREM NotBlind == Spec => []NoBlindMotion
  <1>1. Typed /\ Watching => NoBlindMotion
    <2> SUFFICES ASSUME Typed, Watching, drive > 0, NEW x \in Sensor
                 PROVE  history.unseen[x] < SensorTimeout + Lease
        BY DEF NoBlindMotion
    <2>1. history.unseen[x] + drive <= SensorTimeout + Lease
        BY DEF Watching, Seen
    <2> QED
        BY <2>1, Fields, Durations, Bounds
  <1> QED
      BY <1>1, TypedInit, TypedStep, WatchingInit, WatchingStep, PTL DEF Spec

\* An obstacle that two neighbouring beams show stops the base within one late
\* pass of the loop, and within the lease even when the node is gone.
THEOREM Halts == Spec => []ObstacleStops
  <1>1. Typed /\ Watching => ObstacleStops
    <2> SUFFICES ASSUME Typed, Watching, drive > 0
                 PROVE  history.hit <= Lease /\ (op.phase = "moving" => history.hit <= Late + 2)
        BY DEF ObstacleStops
    <2>1. CASE history.hit = 0
        BY <2>1, Durations
    <2>2. CASE history.hit > 0
        BY <2>2, Fields, Durations DEF Watching, Halting
    <2> QED
        BY <2>1, <2>2, Fields, Durations
  <1> QED
      BY <1>1, TypedInit, TypedStep, WatchingInit, WatchingStep, PTL DEF Spec

-----------------------------------------------------------------------------
(* The thread. *)

LEMMA ThreadFields ==
  ASSUME Typed
  PROVE  /\ client.pc \in {"idle", "plan", "waiting", "ok", "failed", "recovered"}
         /\ client.waited \in 0..Patience
         /\ request.age \in 0..Delivery /\ request.kind \in Kind \cup {None}
  BY DEF Typed, AgentType, ClientRecord

LEMMA Unwatched ==
  ASSUME Typed, Waiting, client.pc # "waiting"
  PROVE  request.kind = None /\ ~Streams /\ drive = 0
  BY Fields, Durations DEF Waiting, Streams

LEMMA Unattended ==
  ASSUME request'.kind = None, ~Streams', drive' = 0
  PROVE  Waiting'
  BY DEF Waiting, Streams

\* A maneuver asked for while nothing moves.
LEMMA AskedAtRest ==
  ASSUME Typed, Waiting, client.pc # "waiting", NEW kind, Asks(kind), UNCHANGED <<op, drive>>
  PROVE  Waiting'
  <1>1. ~Streams' /\ drive' = 0
      BY Unwatched DEF Streams
  <1>2. client'.pc = "waiting" /\ client'.waited = 0 /\ request'.age = 0
      BY DEF Asks
  <1> QED
      BY <1>1, <1>2 DEF Waiting, Streams

\* The thread has waited for less than its patience whenever its request is on
\* its way, a maneuver is before its stops or the base may move.
LEMMA NeverTooLate == ASSUME Typed, Waiting, TimesOut PROVE request.kind = None /\ ~Streams /\ drive = 0
  <1>1. client.waited >= Patience
      BY DEF TimesOut, Overdue
  <1>2. request.kind = None
      BY <1>1, ThreadFields, Durations, PatienceAssumption DEF Waiting
  <1>3. op.phase # "warmup"
      BY <1>1, ThreadFields, Fields, Durations, PatienceAssumption DEF Waiting, Typed, OpType
  <1>4. op.phase # "moving"
    <2>1. ASSUME op.phase = "moving" PROVE op.spent <= TimeLimit + Late
        BY <2>1, Fields, Durations DEF Typed, OpType
    <2> QED
        BY <1>1, <2>1, ThreadFields, Fields, Durations, PatienceAssumption DEF Waiting, Prelude
  <1>5. drive = 0
      BY <1>1, ThreadFields, Fields, Durations, PatienceAssumption DEF Waiting, Prelude
  <1> QED
      BY <1>2, <1>3, <1>4, <1>5 DEF Streams

LEMMA TickWaits ==
  ASSUME Typed, Waiting, Tick PROVE Waiting'
  <1>1. /\ op'.phase = op.phase
        /\ op.phase # "idle" => op'.spent = op.spent + 1
    <2>1. \/ UNCHANGED op /\ op.phase = "idle"
          \/ op' = [op EXCEPT !.spent = op.spent + 1, !.due = IF op.phase = "moving" THEN op.due - 1 ELSE 0]
        BY DEF Tick
    <2> QED
        BY <2>1 DEF Typed, OpType, OpRecord
  <1>2. /\ client'.pc = client.pc
        /\ client.pc = "waiting" => client'.waited = Cap(client.waited + 1, Patience)
    <2>1. \/ UNCHANGED client /\ client.pc # "waiting"
          \/ client' = [client EXCEPT !.waited = Cap(client.waited + 1, Patience)]
        BY DEF Tick
    <2> QED
        BY <2>1 DEF Typed, AgentType, ClientRecord
  <1>3. /\ request'.kind = request.kind
        /\ request.kind # None => request'.age = request.age + 1
      BY DEF Tick, Typed, AgentType
  <1>4. drive' = IF drive = 0 THEN 0 ELSE drive - 1
      BY DEF Tick, Down
  <1>5. Cap(client.waited + 1, Patience) \in Nat /\ Cap(client.waited + 1, Patience) <= client.waited + 1
      BY ThreadFields, Durations DEF Cap
  <1>6. request'.kind # None =>
          /\ client'.pc = "waiting" /\ client'.waited <= request'.age
          /\ ~Streams' /\ drive' = 0
      BY <1>1, <1>2, <1>3, <1>4, <1>5, ThreadFields, Durations DEF Waiting, Streams
  <1>7. op'.phase = "warmup" => client'.pc = "waiting" /\ client'.waited <= Delivery + op'.spent
      BY <1>1, <1>2, <1>5, ThreadFields, Fields, Durations DEF Waiting
  <1>8. op'.phase = "moving" => client'.pc = "waiting" /\ client'.waited <= Prelude + op'.spent
      BY <1>1, <1>2, <1>5, ThreadFields, Fields, Durations DEF Waiting, Prelude
  <1>9. drive' > 0 =>
          /\ client'.pc = "waiting" /\ op'.phase # "stopping"
          /\ client'.waited + drive' < Prelude + TimeLimit + Lease
      BY <1>1, <1>2, <1>4, <1>5, ThreadFields, Fields, Durations DEF Waiting, Prelude
  <1> QED
      BY <1>6, <1>7, <1>8, <1>9 DEF Waiting

LEMMA NodeWaits ==
  ASSUME Typed, Waiting, Node PROVE Waiting'
  <1>1. ASSUME NEW done \in BOOLEAN, Ends(done), Streams, UNCHANGED request PROVE Waiting'
    <2>1. op'.phase = "stopping" /\ drive' = 0
        BY <1>1 DEF Ends, PublishStop, Typed, OpType, OpRecord
    <2>2. request'.kind = None
        BY <1>1 DEF Waiting
    <2> QED
        BY <2>1, <2>2, Unattended DEF Streams
  <1>2. CASE Serve
    <2>1. /\ client.pc = "waiting" /\ client.waited <= request.age
          /\ ~Streams /\ drive = 0
        BY <1>2 DEF Serve, Waiting
    <2>2. request'.kind = None /\ drive' = 0
        BY <1>2, <2>1 DEF Serve, NoRequest, arbiter
    <2>3. CASE op.phase = "idle"
      <3>1. op'.phase = "warmup" /\ op'.spent = 0 /\ UNCHANGED client
          BY <1>2, <2>3 DEF Serve, NoOp
      <3> QED
          BY <2>1, <2>2, <3>1, ThreadFields, Durations DEF Waiting
    <2>4. CASE op.phase # "idle"
      <3>1. ~Streams'
          BY <1>2, <2>1, <2>4 DEF Serve, node, Streams
      <3> QED
          BY <2>2, <3>1, Unattended
    <2> QED
        BY <2>3, <2>4
  <1>3. CASE WarmupTimeout
      BY <1>1, <1>3 DEF WarmupTimeout, Streams
  <1>4. CASE Begin
    <2>1. CASE op' = [op EXCEPT !.phase = "moving", !.spent = 0, !.due = 0] /\ UNCHANGED drive
      <3>1. op'.phase = "moving" /\ op'.spent = 0
          BY <2>1 DEF Typed, OpType, OpRecord
      <3>2. UNCHANGED <<client, request>> /\ op.phase = "warmup"
          BY <1>4 DEF Begin, agent
      <3>3. client.pc = "waiting" /\ client.waited <= Prelude /\ request.kind = None
          BY <3>2, Fields, ThreadFields, Durations DEF Waiting, Typed, OpType, Prelude, Streams
      <3>4. drive > 0 => client.waited + drive < Prelude + TimeLimit + Lease
          BY DEF Waiting
      <3> QED
          BY <2>1, <3>1, <3>2, <3>3, <3>4, ThreadFields, Durations DEF Waiting, Prelude
    <2> QED
        BY <1>1, <1>4, <2>1 DEF Begin, Streams
  <1>5. CASE Loop
    <2>1. CASE op.spent < TimeLimit /\ PublishMotion /\ op' = [op EXCEPT !.due = 1]
      <3>1. op'.phase = op.phase /\ op'.spent = op.spent
          BY <2>1 DEF Typed, OpType, OpRecord
      <3>2. UNCHANGED <<client, request>> /\ op.phase = "moving"
          BY <1>5 DEF Loop, agent
      <3>3. client.pc = "waiting" /\ client.waited <= Prelude + op.spent /\ request.kind = None
          BY <3>2 DEF Waiting, Streams
      <3>4. Prelude \in Nat
          BY Durations DEF Prelude
      <3>5. drive' = Lease \/ drive' = drive
          BY <2>1 DEF PublishMotion
      <3>6. drive' > 0 => client.waited + drive' < Prelude + TimeLimit + Lease
        <4>1. client.waited + Lease < Prelude + TimeLimit + Lease
            BY <2>1, <3>3, <3>4, Fields, ThreadFields, Durations
        <4>2. drive > 0 => client.waited + drive < Prelude + TimeLimit + Lease
            BY DEF Waiting
        <4> QED
            BY <3>5, <4>1, <4>2
      <3> QED
          BY <3>1, <3>2, <3>3, <3>6 DEF Waiting
    <2>2. op.spent >= TimeLimit \/ op.spent < TimeLimit
        BY Fields, Durations
    <2> QED
        BY <1>1, <1>5, <2>1, <2>2 DEF Loop, OutOfTime, Streams
  <1>6. CASE Finish
    <2>1. drive' = 0 /\ op'.phase = "idle" /\ UNCHANGED request
        BY <1>6, Fields, Durations DEF Finish, NoOp, arbiter, Waiting
    <2>2. CASE request.kind = None
        BY <2>1, <2>2, Unattended DEF Streams
    <2>3. CASE request.kind # None
      <3>1. UNCHANGED client
          BY <1>6, <2>3 DEF Finish
      <3> QED
          BY <2>1, <2>3, <3>1 DEF Waiting, Streams
    <2> QED
        BY <2>2, <2>3
  <1> QED
      BY <1>2, <1>3, <1>4, <1>5, <1>6 DEF Node

LEMMA WaitingStep == ASSUME Typed, Waiting, [Next]_vars PROVE Waiting'
  <1>1. ASSUME UNCHANGED <<op, request, drive>>, request.kind = None, ~Streams, drive = 0
        PROVE  Waiting'
      BY <1>1, Unattended DEF Streams
  <1>2. CASE StartRecovery
    <2>1. (\E kind \in Kind : Asks(kind)) /\ client.pc # "waiting" /\ UNCHANGED <<op, drive>>
        BY <1>2 DEF StartRecovery, node, arbiter
    <2> QED
        BY <2>1, AskedAtRest
  <1>3. CASE TimesOut
      BY <1>1, <1>3, NeverTooLate DEF TimesOut, node, arbiter
  <1>4. CASE Decides
    <2>1. client.pc # "waiting"
        BY <1>4 DEF Decides, AfterFirst, AfterTurn, AfterReverse
    <2> QED
        BY <1>1, <1>4, <2>1, Unwatched DEF Decides, node, arbiter
  <1>5. CASE NextManeuver
    <2>1. client.pc # "waiting" /\ UNCHANGED <<op, drive>>
        BY <1>5 DEF NextManeuver, node, arbiter
    <2>2. UNCHANGED request \/ \E kind \in {"reverse", "arc"} : Asks(kind)
        BY <1>5 DEF NextManeuver
    <2> QED
        BY <1>1, <2>1, <2>2, AskedAtRest, Unwatched
  <1>6. CASE Requeues
      BY <1>1, <1>6, Unwatched DEF Requeues, node, arbiter
  <1>7. CASE EmergencyStop
      BY <1>7 DEF EmergencyStop, node, agent, Waiting, Streams
  <1>8. CASE NodeCrash
      BY <1>8 DEF NodeCrash, NoOp, arbiter, agent, Waiting, Streams
  <1>9. CASE ScanCallback \/ OdomCallback \/ EmergencyStopReset \/ UNCHANGED vars
    <2>1. UNCHANGED <<op, drive, request, client>>
      <3>1. CASE ScanCallback
          BY <3>1 DEF ScanCallback, arbiter, agent
      <3>2. CASE OdomCallback
          BY <3>2 DEF OdomCallback, arbiter, agent
      <3>3. CASE EmergencyStopReset
          BY <3>3 DEF EmergencyStopReset, node, arbiter, agent
      <3>4. CASE UNCHANGED vars
          BY <3>4 DEF vars, node, arbiter, agent
      <3> QED
          BY <1>9, <3>1, <3>2, <3>3, <3>4
    <2> QED
        BY <2>1 DEF Waiting, Streams
  <1> QED
      BY <1>2, <1>3, <1>4, <1>5, <1>6, <1>7, <1>8, <1>9, TickWaits, NodeWaits DEF Next, Client

LEMMA WaitingInit == Init => Waiting
  BY Durations DEF Init, NoOp, NoRequest, AtRest, Waiting, Streams

\* The thread never acts while a maneuver it gave up may still move the base:
\* its patience covers the delivery, the warm-up, the motion and the lease.
THEOREM OnRequest == Spec => []MovesOnRequest
  <1>1. Typed /\ Waiting => MovesOnRequest
      BY Fields, Durations DEF Waiting, MovesOnRequest
  <1> QED
      BY <1>1, TypedInit, TypedStep, WaitingInit, WaitingStep, PTL DEF Spec

\* What a step leaves of the record of a motion.
LEMMA MovedSteps ==
  ASSUME Typed, Next
  PROVE  \/ StartRecovery \/ Finish
         \/ history'.moved = history.moved
  <1> USE DEF Typed, HistoryType
  <1>1. CASE ScanCallback
      BY <1>1 DEF ScanCallback
  <1>2. CASE OdomCallback
      BY <1>2 DEF OdomCallback
  <1>3. CASE Serve
      BY <1>3 DEF Serve
  <1>4. CASE EmergencyStop
      BY <1>4 DEF EmergencyStop
  <1>5. CASE NodeCrash
      BY <1>5 DEF NodeCrash
  <1>6. CASE Tick
      BY <1>6 DEF Tick
  <1> QED
      BY <1>1, <1>2, <1>3, <1>4, <1>5, <1>6, HistorySteps

\* A recovery without a motion so far goes on in its own round, or is given up.
LEMMA Unconfirmed ==
  ASSUME Typed, Confirmed, ~history.moved, Decides \/ NextManeuver \/ Requeues
  PROVE  client'.pc \notin {"ok", "recovered"} /\ plan'.round # "extend"
  <1>1. client.pc \notin {"ok", "recovered"} /\ plan.round # "extend" /\ plan \in PlanRecord
      BY DEF Confirmed, Typed, AgentType
  <1>2. ASSUME NEW pc, ClientLeaves(pc) PROVE client'.pc = pc
      BY <1>2 DEF ClientLeaves, AtRest
  <1>3. ASSUME GivesUp PROVE client'.pc = "idle" /\ plan'.round # "extend"
      BY <1>2, <1>3, NoPlanTyped DEF GivesUp
  <1>4. ASSUME NEW stage, GoesTo(stage) PROVE client'.pc = "plan" /\ plan'.round # "extend"
      BY <1>1, <1>2, <1>4 DEF GoesTo, PlanRecord
  <1>5. ASSUME Searches("search") PROVE client'.pc = "plan" /\ plan'.round # "extend"
      BY <1>1, <1>2, <1>5 DEF Searches, PlanRecord
  <1>6. ASSUME Exhausted PROVE client'.pc = "idle" /\ plan'.round # "extend"
      BY <1>1, <1>3, <1>6 DEF Exhausted
  <1>7. ASSUME NextStep PROVE client'.pc \in {"idle", "plan"} /\ plan'.round # "extend"
      BY <1>4, <1>6, <1>7 DEF NextStep
  <1>8. CASE Decides
      BY <1>1, <1>4, <1>5, <1>6, <1>7, <1>8 DEF Decides, AfterFirst, AfterTurn, AfterReverse
  <1>9. CASE NextManeuver
    <2>1. ASSUME NEW kind, Asks(kind) PROVE client'.pc = "waiting"
        BY <2>1 DEF Asks
    <2> QED
        BY <1>1, <1>3, <1>4, <1>6, <1>7, <1>9, <2>1 DEF NextManeuver
  <1>10. CASE Requeues
      BY <1>1, <1>10 DEF Requeues
  <1> QED
      BY <1>8, <1>9, <1>10

LEMMA ConfirmedStep == ASSUME Typed, Confirmed, [Next]_vars PROVE Confirmed'
  <1>1. CASE history'.moved
      BY <1>1 DEF Confirmed
  <1>2. CASE StartRecovery
    <2>1. PICK kind \in Kind, b \in BOOLEAN : Asks(kind) /\ plan' = [NoPlan EXCEPT !.backed = b]
        BY <1>2 DEF StartRecovery
    <2>2. client'.pc = "waiting" /\ plan'.round = "first"
        BY <2>1 DEF Asks, NoPlan
    <2> QED
        BY <2>2 DEF Confirmed
  <1>3. CASE Finish /\ ~history'.moved
    <2>1. UNCHANGED plan
        BY <1>3 DEF Finish
    <2>2. CASE client.pc = "waiting" /\ request.kind = None
      <3>1. /\ client' = [client EXCEPT !.pc = IF op.done THEN "ok" ELSE "failed"]
            /\ history' = [history EXCEPT !.hit = 0, !.interrupted = FALSE, !.moved = history.moved \/ op.done]
          BY <1>3, <2>2 DEF Finish
      <3>2. history'.moved = (history.moved \/ op.done)
          BY <3>1 DEF Typed, HistoryType
      <3>3. ~history.moved /\ ~op.done
          BY <1>3, <3>2
      <3>4. client'.pc = "failed"
          BY <3>1, <3>3 DEF Typed, AgentType, ClientRecord
      <3> QED
          BY <2>1, <3>3, <3>4 DEF Confirmed
    <2>3. CASE ~(client.pc = "waiting" /\ request.kind = None)
      <3>1. UNCHANGED client /\ history' = [history EXCEPT !.hit = 0, !.interrupted = FALSE]
          BY <1>3, <2>3 DEF Finish
      <3>2. history'.moved = history.moved
          BY <3>1 DEF Typed, HistoryType
      <3> QED
          BY <2>1, <3>1, <3>2 DEF Confirmed
    <2> QED
        BY <2>2, <2>3
  <1>4. CASE Next /\ history'.moved = history.moved /\ ~history.moved
    <2>1. CASE Decides \/ NextManeuver \/ Requeues
        BY <1>4, <2>1, Unconfirmed DEF Confirmed
    <2>2. CASE Serve \/ TimesOut \/ Tick
      <3>1. UNCHANGED plan /\ client'.pc \in {client.pc, "failed"}
        <4>1. CASE Serve
          <5>1. client' = client \/ client' = [client EXCEPT !.pc = "failed"] \/ client' = [client EXCEPT !.pc = client.pc]
              BY <4>1 DEF Serve
          <5> QED
              BY <4>1, <5>1 DEF Serve, Typed, AgentType, ClientRecord
        <4>2. CASE TimesOut
            BY <4>2 DEF TimesOut, Typed, AgentType, ClientRecord
        <4>3. CASE Tick
            BY <4>3 DEF Tick, Typed, AgentType, ClientRecord
        <4> QED
            BY <2>2, <4>1, <4>2, <4>3
      <3> QED
          BY <1>4, <3>1 DEF Confirmed
    <2>3. CASE UNCHANGED <<request, client, plan>>
        BY <1>4, <2>3 DEF Confirmed
    <2> QED
        BY <1>2, <1>3, <1>4, <2>1, <2>2, <2>3, AgentSteps
  <1>5. CASE UNCHANGED vars
      BY <1>5 DEF vars, agent, Confirmed
  <1> QED
      BY <1>1, <1>2, <1>3, <1>4, <1>5, MovedSteps

LEMMA ConfirmedInit == Init => Confirmed
  BY DEF Init, AtRest, NoPlan, Confirmed

\* The goal goes back to Nav2 only after a maneuver of this very recovery that
\* odometry confirmed, whatever answers came late, twice or not at all.
THEOREM MovedForReal == Spec => []RecoveredMeansMoved
  <1>1. Confirmed => RecoveredMeansMoved
      BY DEF Confirmed, RecoveredMeansMoved
  <1> QED
      BY <1>1, TypedInit, TypedStep, ConfirmedInit, ConfirmedStep, PTL DEF Spec
=============================================================================
