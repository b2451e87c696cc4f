---------------------------- MODULE GuardedEscape ----------------------------
(***************************************************************************)
(* How the robot leaves a pose in which Nav2 is blocked: the agent's       *)
(* recovery thread asks the node guarded_reverse for short maneuvers, one  *)
(* after another, and gives each a fixed time; the node moves on live scan *)
(* and odometry, publishes on /cmd_vel_recovery, and knows nothing of the  *)
(* emergency stop, which the base arbiter enforces downstream.             *)
(*                                                                         *)
(* Time is counted in ticks of the maneuver's loop (50 ms).  The node has  *)
(* two threads: one runs the maneuver, the other the sensor callbacks.     *)
(*                                                                         *)
(* A definition D_Fault is D with a seeded fault.                          *)
(***************************************************************************)
EXTENDS Integers

CONSTANTS
  SensorTimeout,  \* sensor_timeout
  Warmup,         \* sensor_warmup_timeout
  TimeLimit,      \* time_limit, arc_time_limit
  Stops,          \* the stops that end every maneuver
  Patience,       \* of the agent with a maneuver (timeout_seconds)
  Delivery,       \* bound: of a request on its way
  Late,           \* bound: of the loop behind its period
  Lease,          \* of a motion, or of a stop, at the arbiter, watchdog included
  MaxEvents       \* bound: emergency stops and crashes of the node

ASSUME EscapeAssumption ==
  /\ {SensorTimeout, Warmup, TimeLimit, Stops, Patience, Lease} \subseteq Nat \ {0}
  /\ {Delivery, Late, MaxEvents} \subseteq Nat

\* The thread waits for longer than a maneuver may move the base: 6 s, against
\* 1.5 s of warm-up, 3 s of motion and a lease of 0.25 s.
ASSUME PatienceAssumption ==
  /\ Patience > Delivery + Warmup + Late + TimeLimit + Late
  /\ Patience > Delivery + Warmup + Late + TimeLimit + Lease

VARIABLES
  op,       \* the maneuver: [phase, kind, spent, due, done]
  scan,     \* the latest scan: its age and what the guard makes of it
  odom,     \* the latest odometry: its age and what it says of the motion
  drive,    \* ticks the arbiter still lets the last motion through
  estop,    \* an emergency stop is latched in the agent
  hold,     \* ticks the arbiter still refuses motion
  request,  \* the request on its way: [kind, age]
  client,   \* the recovery thread: [pc, waited]
  plan,     \* where it is: [backed, round, stage, steps]; backed: it began in reverse
  events,   \* bound: what MaxEvents counts
  history   \* hit: ticks since the scans show an obstacle; unseen: ticks since each
            \* sensor was heard; interrupted: the maneuver saw an emergency stop;
            \* moved: a maneuver of this recovery was completed

node == <<op, scan, odom>>
agent == <<client, plan>>
arbiter == <<drive, hold>>
vars == <<node, arbiter, estop, request, agent, events, history>>

-----------------------------------------------------------------------------
(* Scans: twelve beams, 30 degrees apart, the first one straight behind. *)

Beam == 0..11
Degrees(i) == 30 * i - 180
\* A return is void (0), in reach of the maneuver (1), nearer than the clearance
\* to stop (2), than the clearance to start (3), or far away (4).
Void == 0
Swept == 1
StopBelow == 3
StartBelow == 4

Kind == {"reverse", "forward", "arc"}   \* arc: in reverse, to the left
Abs(n) == IF n < 0 THEN -n ELSE n
Behind(i) == Abs(Degrees(i)) >= 150
Ahead(i) == Abs(Degrees(i)) <= 30
ToTheLeft(i) == 70 <= Degrees(i) /\ Degrees(i) <= 155
Longitudinal(kind) == {i \in Beam : IF kind = "forward" THEN Ahead(i) ELSE Behind(i)}

Larger(a, b) == IF a > b THEN a ELSE b
NoCluster == StartBelow + 1
Smallest(S) == IF S = {} THEN NoCluster ELSE CHOOSE n \in S : \A m \in S : n <= m

\* The nearest pair of neighbouring beams; the last beam neighbours the first.
Heard(r, sector) == {i \in sector : r[i] # Void}
Neighbour(i) == (i + 1) % 12
AdjacentClusterClearance_NoSeam(r, sector) ==
  Smallest({Larger(r[i], r[i + 1]) : i \in {j \in Heard(r, sector) : j + 1 \in Heard(r, sector)}})
AdjacentClusterClearance(r, sector) ==
  Smallest({Larger(r[i], r[Neighbour(i)]) : i \in {j \in Heard(r, sector) : Neighbour(j) \in Heard(r, sector)}})

\* A sector without a cluster counts as no clearance at all.
RobustClearance(r, sector) ==
  LET clearance == AdjacentClusterClearance(r, sector)
  IN IF clearance = NoCluster THEN 0 ELSE clearance
SideClearance(r) == RobustClearance(r, {i \in Beam : ToTheLeft(i)})

\* Two neighbouring beams end inside the swept footprint.
SweptObstacle(r) == AdjacentClusterClearance(r, {i \in Beam : r[i] = Swept}) # NoCluster

StraightClear(kind, r, limit) ==
  RobustClearance(r, Longitudinal(kind)) >= limit /\ ~SweptObstacle(r)
ArcClear(kind, r, limit) ==
  /\ RobustClearance(r, Longitudinal(kind)) >= limit
  /\ SideClearance(r) >= limit
  /\ ~SweptObstacle(r)
Clear(kind, r, limit) ==
  IF kind = "arc" THEN ArcClear(kind, r, limit) ELSE StraightClear(kind, r, limit)

\* What must stop the robot: neighbouring beams, around the seam too, that both
\* end in its way.
InTheWay(kind, r) ==
  \E i \in Beam :
    {r[i], r[Neighbour(i)]} \subseteq {Swept} \cup
      IF {i, Neighbour(i)} \subseteq Longitudinal(kind) THEN {2} ELSE {}

\* The scans that matter: beams about the maneuver's way, the others far.
Watched(kind) == CASE kind = "reverse" -> {10, 11, 0, 1}
                   [] kind = "forward" -> {4, 5, 6, 7}
                   [] kind = "arc" -> {9, 10, 11, 0, 1}
Ranges(kind) ==
  {[i \in Beam |-> IF i \in Watched(kind) THEN f[i] ELSE StartBelow] :
     f \in [Watched(kind) -> {Void, Swept, 2, StopBelow, StartBelow}]}
Verdicts ==
  [kind \in Kind |->
    {[go |-> Clear(kind, r, StartBelow), on |-> Clear(kind, r, StopBelow),
      hit |-> InTheWay(kind, r)] : r \in Ranges(kind)}]

-----------------------------------------------------------------------------
None == "none"
Never == -1  \* the age of a sensor not heard in this maneuver
NoScan == [age |-> Never, go |-> FALSE, on |-> FALSE]
NoOdom == [age |-> Never, says |-> "short"]
Sensor == {"scan", "odom"}
Progress == {"short", "far", "wrong"}   \* below the target, beyond it, turned the other way
NoOp == [phase |-> "idle", kind |-> None, spent |-> 0, due |-> 0, done |-> FALSE]
NoRequest == [kind |-> None, age |-> 0]
AtRest == [pc |-> "idle", waited |-> 0]
NoPlan == [backed |-> FALSE, round |-> "first", stage |-> "arc", steps |-> 0]

Long == SensorTimeout + Lease   \* bound of history.unseen
Init ==
  /\ op = NoOp /\ scan = NoScan /\ odom = NoOdom
  /\ drive = 0 /\ hold = 0 /\ estop = FALSE
  /\ request = NoRequest /\ client = AtRest /\ plan = NoPlan
  /\ events = 0
  /\ history = [hit |-> 0, unseen |-> [x \in Sensor |-> Long],
                interrupted |-> FALSE, moved |-> FALSE]

Streams == op.phase \in {"warmup", "moving"}
Cap(n, limit) == IF n < limit THEN n ELSE limit
Older(age) == IF age = Never THEN Never ELSE Cap(age + 1, SensorTimeout + 1)
Fresh(sensor) == sensor.age # Never /\ sensor.age <= SensorTimeout

ScanCallback ==
  /\ Streams
  /\ \E v \in Verdicts[op.kind] :
       /\ scan' = [age |-> 0, go |-> v.go, on |-> v.on]
       /\ history' = [history EXCEPT !.hit = IF ~v.hit THEN 0 ELSE Larger(@, 1), !.unseen["scan"] = 0]
  /\ UNCHANGED <<op, odom, arbiter, estop, request, agent, events>>

\* Progress counts from the pose at which the first command is given.
Says == CASE op.phase = "warmup" -> {"short"}
          [] op.kind = "arc" -> Progress
          [] OTHER -> {"short", "far"}
OdomCallback ==
  /\ Streams
  /\ \E says \in Says : odom' = [age |-> 0, says |-> says]
  /\ history' = [history EXCEPT !.unseen["odom"] = 0]
  /\ UNCHANGED <<op, scan, arbiter, estop, request, agent, events>>

-----------------------------------------------------------------------------
(* GuardedReverse: the maneuver *)

PublishStop == drive' = 0
PublishMotion == drive' = IF hold = 0 THEN Lease ELSE drive

\* The finally block: the first of the stops, at once.
Ends(done) ==
  op' = [op EXCEPT !.phase = "stopping", !.spent = 0, !.due = 0, !.done = done] /\ PublishStop

\* A service callback.  A second one finds the operation lock taken.
Serve ==
  /\ request.kind # None
  /\ request' = NoRequest
  /\ IF op.phase = "idle"
     THEN /\ op' = [NoOp EXCEPT !.phase = "warmup", !.kind = request.kind]
          /\ scan' = NoScan /\ odom' = NoOdom
          /\ history' = [history EXCEPT !.hit = 0, !.interrupted = estop]
          /\ UNCHANGED client
     ELSE /\ client' = [client EXCEPT !.pc = IF @ = "waiting" THEN "failed" ELSE @]
          /\ UNCHANGED <<node, history>>
  /\ UNCHANGED <<arbiter, estop, plan, events>>

WarmupTimeout ==
  /\ op.phase = "warmup" /\ op.spent >= Warmup
  /\ Ends(FALSE)
  /\ UNCHANGED <<scan, odom, hold, estop, request, agent, events, history>>

\* Both sensors were heard: the checks before the first command.
Begin ==
  /\ op.phase = "warmup"
  /\ scan.age # Never /\ odom.age # Never
  /\ IF Fresh(scan) /\ Fresh(odom) /\ scan.go
     THEN op' = [op EXCEPT !.phase = "moving", !.spent = 0, !.due = 0] /\ UNCHANGED drive
     ELSE Ends(FALSE)
  /\ UNCHANGED <<scan, odom, hold, estop, request, agent, events, history>>

\* One pass of the loop of run_straight or run_arc.
MayGoOn_OldScan == scan.on /\ Fresh(odom) /\ odom.says # "wrong"
MayGoOn == scan.on /\ Fresh(scan) /\ Fresh(odom) /\ odom.says # "wrong"
OutOfTime_FreshDeadline == op.due < 0
OutOfTime == op.spent >= TimeLimit
Loop ==
  /\ op.phase = "moving" /\ op.due <= 0
  /\ IF OutOfTime \/ ~MayGoOn THEN Ends(FALSE)
     ELSE IF odom.says = "far" THEN Ends(TRUE)
     ELSE PublishMotion /\ op' = [op EXCEPT !.due = 1]
  /\ UNCHANGED <<scan, odom, hold, estop, request, agent, events, history>>

\* The last stop is out: the streams end, the lock is free, the answer goes to
\* the thread if it still waits for this maneuver.
Finish ==
  /\ op.phase = "stopping" /\ op.spent >= Stops
  /\ op' = NoOp /\ scan' = NoScan /\ odom' = NoOdom
  /\ IF client.pc = "waiting" /\ request.kind = None
     THEN /\ client' = [client EXCEPT !.pc = IF op.done THEN "ok" ELSE "failed"]
          /\ history' = [history EXCEPT !.hit = 0, !.interrupted = FALSE, !.moved = @ \/ op.done]
     ELSE /\ history' = [history EXCEPT !.hit = 0, !.interrupted = FALSE]
          /\ UNCHANGED client
  /\ UNCHANGED <<arbiter, estop, request, plan, events>>

Node == Serve \/ WarmupTimeout \/ Begin \/ Loop \/ Finish

-----------------------------------------------------------------------------
(* The agent's recovery thread *)

ClientLeaves(pc) == client' = [AtRest EXCEPT !.pc = pc]
Asks(kind) ==
  /\ client' = [pc |-> "waiting", waited |-> 0]
  /\ request' = [kind |-> kind, age |-> 0]

\* maybe_start_blocked_pose_recovery, and the first maneuver.
StartRecovery ==
  /\ client.pc = "idle" /\ ~estop
  /\ \E kind \in Kind : Asks(kind) /\ plan' = [NoPlan EXCEPT !.backed = kind = "reverse"]
  /\ history' = [history EXCEPT !.moved = FALSE]
  /\ UNCHANGED <<node, arbiter, estop, events>>

\* _service_response: no answer in time.
Overdue_Never == FALSE
Overdue == client.waited >= Patience
TimesOut ==
  /\ client.pc = "waiting" /\ Overdue
  /\ client' = [client EXCEPT !.pc = "failed", !.waited = 0]
  /\ UNCHANGED <<node, arbiter, estop, request, plan, events, history>>

GivesUp == ClientLeaves("idle") /\ plan' = NoPlan
Recovered == ClientLeaves("recovered") /\ plan' = NoPlan
GoesTo(stage) == ClientLeaves("plan") /\ plan' = [plan EXCEPT !.stage = stage]
Searches(round) ==
  ClientLeaves("plan") /\ plan' = [plan EXCEPT !.round = round, !.stage = "arc", !.steps = 0]

\* Out of the blocked pose, once Nav2's lifecycle has come back (or not).
Escaped == GivesUp \/ IF plan.backed THEN Searches("extend") ELSE Recovered
Exhausted_Lenient == GivesUp \/ (~estop /\ Recovered)
Exhausted == GivesUp \/ (plan.round = "extend" /\ ~estop /\ Recovered)
NextStep == IF plan.steps < 2 THEN GoesTo("reverse") ELSE Exhausted

\* run_blocked_pose_recovery after its first maneuver.
AfterFirst ==
  /\ plan.round = "first"
  /\ \/ client.pc = "ok" /\ Escaped
     \/ client.pc = "failed" /\ Searches("search")

\* run_alternative_escape_maneuvers, one maneuver later.
AfterTurn ==
  /\ plan.round # "first" /\ plan.stage \in {"arc", "turn1", "turn2"}
  /\ \/ client.pc = "ok" /\ IF plan.round = "search" THEN Escaped ELSE Recovered
     \/ client.pc = "failed" /\ plan.stage = "arc" /\ GoesTo("reverse")
     \/ client.pc = "failed" /\ plan.stage = "turn1" /\ GoesTo("turn2")
     \/ client.pc = "failed" /\ plan.stage = "turn2" /\ NextStep
AfterReverse ==
  /\ plan.round # "first" /\ plan.stage = "reverse"
  /\ \/ client.pc = "ok" /\ (GivesUp \/ (ClientLeaves("plan") /\
          plan' = [plan EXCEPT !.stage = "turn1", !.steps = @ + 1]))
     \/ client.pc = "failed" /\ Exhausted

Decides ==
  /\ AfterFirst \/ AfterTurn \/ AfterReverse
  /\ UNCHANGED <<node, arbiter, estop, request, events, history>>

\* The next maneuver, if the scan offers one and the gates allow it.
NextManeuver ==
  /\ client.pc = "plan"
  /\ \/ /\ ~estop /\ UNCHANGED plan
        /\ Asks(IF plan.stage = "reverse" THEN "reverse" ELSE "arc")
     \/ /\ UNCHANGED request
        /\ \/ GivesUp
           \/ plan.stage = "arc" /\ GoesTo("reverse")
           \/ plan.stage = "reverse" /\ Exhausted
           \/ plan.stage \in {"turn1", "turn2"} /\ NextStep
  /\ UNCHANGED <<node, arbiter, estop, events, history>>

\* The goal is queued again.
Requeues ==
  /\ client.pc = "recovered" /\ GivesUp
  /\ UNCHANGED <<node, arbiter, estop, request, events, history>>

Client == TimesOut \/ Decides \/ NextManeuver \/ Requeues

-----------------------------------------------------------------------------
(* Emergency stops, crashes of the node, and time *)

Occurs == events < MaxEvents /\ events' = events + 1

\* Zero velocity is published at once, and again before the hold ends.
EmergencyStop ==
  /\ ~estop /\ Occurs
  /\ estop' = TRUE /\ drive' = 0 /\ hold' = Lease
  /\ history' = [history EXCEPT !.interrupted = op.phase # "idle"]
  /\ UNCHANGED <<node, request, agent>>

EmergencyStopReset ==
  /\ estop
  /\ estop' = FALSE
  /\ UNCHANGED <<node, arbiter, request, agent, events, history>>

\* launch starts the node again; a request it had taken is never answered.
NodeCrash ==
  /\ op.phase # "idle" /\ Occurs
  /\ op' = NoOp /\ scan' = NoScan /\ odom' = NoOdom
  /\ history' = [history EXCEPT !.interrupted = FALSE]
  /\ UNCHANGED <<arbiter, estop, request, agent>>

Down(n) == IF n = 0 THEN 0 ELSE n - 1
\* Nobody is later than Late allows.
OnTime ==
  /\ request.age < Delivery \/ request.kind = None
  /\ op.phase = "warmup" => op.spent < Warmup + Late
  /\ op.phase = "moving" => op.due > -Late
  /\ op.phase = "stopping" => op.spent < Stops + Late
  /\ client.pc \in {"idle", "recovered"} \/ ~Overdue

Tick ==
  /\ OnTime
  /\ op' = IF op.phase = "idle" THEN op
           ELSE [op EXCEPT !.spent = @ + 1, !.due = IF op.phase = "moving" THEN @ - 1 ELSE 0]
  /\ scan' = [scan EXCEPT !.age = Older(@)] /\ odom' = [odom EXCEPT !.age = Older(@)]
  /\ drive' = Down(drive) /\ hold' = IF estop THEN hold ELSE Down(hold)
  /\ request' = IF request.kind = None THEN request ELSE [request EXCEPT !.age = @ + 1]
  /\ client' = IF client.pc = "waiting" THEN [client EXCEPT !.waited = Cap(@ + 1, Patience)] ELSE client
  /\ history' = [history EXCEPT !.hit = IF @ = 0 THEN 0 ELSE Cap(@ + 1, Lease + 1),
                   !.unseen = [x \in Sensor |->
                     IF op.phase = "idle" /\ drive <= 1 THEN Long ELSE Cap(@[x] + 1, Long)]]
  /\ UNCHANGED <<estop, plan, events>>

Next ==
  \/ ScanCallback \/ OdomCallback \/ Node
  \/ StartRecovery \/ Client
  \/ EmergencyStop \/ EmergencyStopReset \/ NodeCrash \/ Tick

Spec == Init /\ [][Next]_vars

\* Threads and clocks go on; the lifecycle waits of the thread are bounded.
FairSpec == Spec /\ WF_vars(Node) /\ WF_vars(Client) /\ WF_vars(Tick)

-----------------------------------------------------------------------------
(* Properties *)

TypeOK ==
  /\ op \in [phase : {"idle", "warmup", "moving", "stopping"}, kind : Kind \cup {None},
             spent : 0..(Larger(Larger(Warmup, TimeLimit), Stops) + Late),
             due : -Late..1, done : BOOLEAN]
  /\ scan \in [age : Never..(SensorTimeout + 1), go : BOOLEAN, on : BOOLEAN]
  /\ odom \in [age : Never..(SensorTimeout + 1), says : Progress]
  /\ drive \in 0..Lease /\ hold \in 0..Lease /\ estop \in BOOLEAN
  /\ request \in [kind : Kind \cup {None}, age : 0..Delivery]
  /\ client \in [pc : {"idle", "plan", "waiting", "ok", "failed", "recovered"}, waited : 0..Patience]
  /\ plan \in [backed : BOOLEAN, round : {"first", "search", "extend"},
               stage : {"arc", "turn1", "turn2", "reverse"}, steps : 0..2]
  /\ events \in 0..MaxEvents
  /\ history \in [hit : 0..(Lease + 1), unseen : [Sensor -> 0..Long],
                  interrupted : BOOLEAN, moved : BOOLEAN]

\* The base never moves on sensors older than their timeout and one lease, not
\* even when the node dies between two commands.
NoBlindMotion ==
  drive > 0 => \A x \in Sensor : history.unseen[x] < SensorTimeout + Lease

\* Once two neighbouring beams, those on the two sides of the scan's seam
\* included, show an obstacle in the way, the base is stopped within one late
\* pass of the loop, and within the lease even when the node is gone.
ObstacleStops ==
  drive > 0 => /\ history.hit <= Lease
               /\ op.phase = "moving" => history.hit <= Late + 2

\* The base is moved for the recovery thread only while it waits: by the time
\* it asks for the next maneuver, or gives up one, the base stands.
MovesOnRequest == drive > 0 => client.pc = "waiting" /\ request.kind = None

\* The goal is queued again only after a maneuver that odometry confirmed.
RecoveredMeansMoved == client.pc = "recovered" => history.moved

\* The recovery thread comes to an end, whatever the node and the sensors do.
RecoveryEnds == client.pc # "idle" ~> client.pc = "idle"

\* A stop that was released does not give the base back to the maneuver it
\* interrupted.
NoMotionAfterRelease == ~(history.interrupted /\ drive > 0 /\ ~estop)
=============================================================================
