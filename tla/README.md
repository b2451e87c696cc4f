# A verification model of amr-base-driver

TLA+ modules, TLC configurations and TLAPS proofs for the indoor delivery robot of this
repository: the base driver (`amr_base_driver/`, `firmware/`) and the robot agent
(`robot_agent/amr_web_bridge/`). Line numbers refer to the files under `src/`; without a file
name they are lines of `web_bridge_node.py`.

## 1. Inventory

| Component | State it keeps | Operations | Interacts with | Hard behaviour | What makes it correct |
|---|---|---|---|---|---|
| Command arbiter (`cmd_vel_passthrough.py`) | lease deadline per source, owner, last velocity published | `accept`, `expire`, `command` for 4 topics | every velocity source; `serial_bridge` through `/cmd_vel_safe` | late watchdog, any order of sources, stop hold | one owner; a silent source stops in bounded time; a stop revokes leases; hand-over through zero |
| Mission executor (`web_bridge_node.py`, `mission_state.py`) | queue, active command, goal handle, cancel requests, latches, recovery and operation flags | messages of the server, executor callbacks, recovery and worker threads | fleet server (WebSocket), Nav2, guarded maneuvers, arbiter | four kinds of threads, callback chains, stops and cancellations in between | one mission, one result, every command answered, cancellations final, stops reach the goal, bounded recovery |
| Serial bridge (`serial_bridge.py`) | port, armed flag, last command, telemetry, stall guard, odometry | arm, disarm, `command_tick`, telemetry, reset, clear fault | arbiter, firmware (UART), EKF | reader thread, reconnects, MCU restarts, stale telemetry | only a fresh command under fresh telemetry moves an armed base |
| ESP32 firmware (`.ino`) | targets, command clock, fault latch, PID and encoders | STOP, PING, CLEAR, CMD; control, telemetry | serial bridge | silent link, restart, faults | wheels stop 300 ms after the last command |
| Guarded maneuvers (`guarded_reverse.py`) | operation lock, sensor data, streams | reverse, straight, arc | mission executor, arbiter | service timeouts, stale sensors, stops | at most one maneuver; always ends in stops |
| Lifecycle interlock, activation and readiness gates | file lock, gate phase, answers outstanding | acquire/release, validate, repair, start-up | Nav2 lifecycle managers, mapping runtime | two processes, late answers, retries | never two lifecycle transitions at once; a half-started Nav2 is repaired or stopped |
| Mapping runtime (`mapping_runtime.py`) | phase, child processes, what was active before | start, stop, save, discard, shutdown | lifecycle managers, agent | failures in the middle of each step | what was paused is resumed |
| Agent connection, identity, credentials | socket, identity, generation | connect, send, rotate | fleet server | reconnects, lost results, half rotations | no message for another robot; a usable credential |
| Teleop and mapping dead-man | active flag, deadline | velocity, session, enforcement | arbiter (MANUAL source) | two threads | a silent operator stops the robot |
| Localization, maps, preview | active localization/map command | set pose, upload, switch, preview | map server, AMCL, planner | late service answers, switch against a mission | a map never changes under a mission |
| Pure algorithms (`path_utils.py`, `stall_escape.py`, `imu_bias.py`) | none, or a window | simplification, choice of an escape, bias | callers above | boundaries | agree with a reference definition |
| Recorder, camera relay, tools, simulator, validator, deprecated drive supervisor, launch and deployment files | see `PROJECT.json` | | | | not modelled |

How the parts meet: the server's messages reach the agent's asyncio thread; the ROS executor of
the agent turns them into Nav2 goals; Nav2, the recovery maneuvers, the keyboard and the agent's
zero stream publish velocities to the arbiter; its output `/cmd_vel_safe` is what the serial bridge
sends to the firmware over the UART. The lifecycle managers of Nav2 are called by the mapping runtime, the
activation gate, the readiness gates and the agent's localization commands, which meet in a marker file and a file lock.

## 2. Plan

In the order of what the robot is for and what is most dangerous to get wrong:

1. `CommandArbiter` - who may drive. *Done, with proofs.*
2. `NavCommand` - the life of a command. *Done, with proofs.*
3. `DrivePath` - `SerialBridge`, `BaseFirmware` and the link between them, and the abstract
   specification `DriveLease`, "the base only moves on loan", that they implement together. *Done,
   with proofs.*
4. `NavLifecycle` - `MappingRuntime`, the activation gate, the readiness gates, SET_INITIAL_POSE and the
   lifecycle managers, composed over the interlock and the marker. *Done, with proofs.*
5. `GuardedEscape` - the recovery thread, the `guarded_reverse` node and the arbiter's lease, composed. *Done, with proofs.*
6. `AgentSession` - connection, receive loop, executor, map switch, mapping, teleoperation and stops. *Done, with proofs.*

Every safety property that a passing run checks is proved, and so is the refinement of `DriveLease` (section 5). What remains is what
the theorems' assumptions leave open: which weaker promises `NavCommand` keeps under stops, operations and drive stalls, where `OneReport`, `OneMission` and
`ConfirmedCancelIsFinal` fail; and the body of a recovery in `NavCommand`, which is a free choice there and `GuardedEscape` here.

Left for a larger instance: the results a lost connection swallows, and reports under an operator's interference.

## 3. Modules

### CommandArbiter

`deadlines`, `owner` are `CommandArbiter`'s fields; `latched` is the last velocity published;
`heardAt`, `stopAt` remember when a source, or a stop, was last accepted. `now` counts in units of 50 ms
(`Lease` 0.25 s, `Period` 0.1 s); the watchdog may be `Jitter` late. `Command(o)` is the whole of
`CmdVelPassthrough.command` for the source `o`, `Tick` lets time pass, `Expire` is the watchdog.
A velocity is abstracted to the source it came from or zero: every property is about whose it is.

### NavCommand

An action is what one thread does between two points at which another can get in: the end of a locked
region, a queue operation, the wait for a service. The kinds of threads and their actions:

| Thread | Actions |
|---|---|
| asyncio (server messages) | `QueueNavigationCommand`, `Put`, `QueueNavigationCancel`, `EmergencyStop`, `EmergencyStopDrop`, `EmergencyStopReset`, `HandleRobotOperation` |
| ROS executor (one callback at a time) | `LatchPhysicalEstop`, `ReleasePhysicalEstop`, `ProcessCancelQueue`, `DiscardQueue`, `TakeCommand`, `SkipCancelled`, `Activate`, `StartCommand`, `NavigationProfileCallback`, `NavigationSmootherProfileCallback`, `GoalResponseCallback`, `CancelResponseCallback`, `NavigationResultCallback`, `DriveStall` |
| recovery thread | `RecoveryFails`, `RecoveryRetries`, `RecoveryDone` |
| operation and stall workers | `CancelForOperation`, `CancelWaitOver`, `OperationResumes`, `OperationDone`, `StallHandsOver`, `StallGivesUp` |
| Nav2 (external) | `Nav2Answers`, `Nav2Ends`, `Nav2AnswersCancel` |

`ros` and `net` hold what the executor and the asyncio thread have in hand between two such points; while
`ros` is set the executor runs no other callback. A command object is `<<id, n>>`, because a recovery and
an operator's recovery queue a copy of the command they interrupted, with the attempt number carried along.
`at` says how far the callback chain of an object has come; the code keeps that in the closures of its futures.

What is abstracted. The server sends the next stage of a task when the stage before is reported, none of
a task it cancelled, and one cancellation for a task. Nav2 executes one goal, a new one preempts it, it
cancels what it executes, and a result may be lost. The scan, the motor diagnostics,
localization and elapsed time that may refuse a recovery are a free choice, and so is the outcome of each maneuver,
service and parameter call. The acceptance of an aborted goal near its target (`accept_aborted_goal_when_near`) is one of the ways a result is reported. The waits
of a worker end at any time after they began, as a timeout may. The limit of 512 remembered ids, progress
messages, paths and wording are left out.

### DrivePath

| Module | Models | State |
|---|---|---|
| `WheelTargets` | what is asked of the two wheels, and the UART lines that carry it | none |
| `SerialBridge` | `serial_bridge.py`: the callbacks of its executor and its reader thread | the node's fields, under their names or the name in the comment beside each |
| `BaseFirmware` | the functions `loop()` calls, and `setup()` | `request`, `drive`, `fault`, the IMU and the clocks |
| `DriveLease` | the abstract specification: a base in motion has a command of a bounded age, withdrawn a bounded time ago | `moving`, `age`, `void` |
| `DrivePath` | both processors, the UART, time, and the history the properties speak of | `toMcu`, `toHost`; `pendingAge` .. `sustained` |

| Action | Code |
|---|---|
| `Hear`, `Decide` | `cmd_callback`, `command_tick` with `update_stall_guard` up to the call of `write_line` |
| `Serve` | `set_motors_enabled` up to its STOP, and `clear_motor_fault` |
| `EndArm` | the blockers `set_motors_enabled(true)` looks at after the STOP |
| `Write`, `Drop` | `write_line`: the port takes the line; or there is none, or it fails and is closed |
| `Open`, `Receive`, `Disconnect` | the reader thread: `open_serial`, `handle_telemetry_frame`, `close_serial` |
| `Restart` | the process ends, with or without the STOP of `destroy_node`, and comes up again |
| `ReadSerial`, `SampleImu`, `ControlStep`, `PublishTelemetry` | what `loop()` calls |
| `Reset` | `setup()` after a reset or brownout |
| `Noise`, `Tick` | the wire (external); 100 ms pass |

An RPM value keeps what the code tells apart: its sign, whether it is below 0.5 (stopped) and whether it
reaches 20 (the stall guard's threshold). A monotonic stamp is the time since it was taken, capped where no comparison sees
more. The firmware's `drive` is `Zero` exactly when `stopMotors` has the last word; how the wheel controller shapes the PWM
of a driven wheel is left out. `pending` holds the lines that a callback has decided on and not yet
written: there the reader thread and the firmware get in between. `command_tick` reads its
fields at one instant; the model does not let a frame arrive between its read of the telemetry's age and its read of the wheel speeds.

The cause of a line, of the request and of the drive is the age of the command it stems from and the time since that
command was withdrawn (locking, arming and clearing the fault forget it, and so does a restart). The refinement maps `moving` to
`Moving(drive)`, `age` and `void` to the cause of `drive`.

### NavLifecycle

| Actor | State | Actions |
|---|---|---|
| `MappingRuntime`, on the worker thread of a mapping command | `phase`, `step` (where the worker is), `paused`, `was` (the two `_was_active` flags), `tries`, `slam` | `StartSession`, `AcquireInterlock`, `InterlockTimeout`, `ReadActiveNodes`, `PauseManager`, `LaunchSlam`, `UndoPause`, `Undone`; `StopCapture`; `Save`, `WriteOccupancyMap`, `ActivateSavedMap`, `Activated`; `Discard`, `StopSlamProcess`, `EnsureLifecycle`, `Restored` |
| `Nav2ActivationGate` | `gate`, `repaired` | `GateCheck`, `GateAcquire`, `PlannerStateComplete`, `GateStartupComplete`, `LifecycleResetComplete`, `FinishValidation`, `PauseComplete` |
| `LocalizationReadinessGate`, twice | `ready` | `ReadyCheck`, `StateReceived`, `StartupComplete`, `ReadyExit` (the launch file) |
| SET_INITIAL_POSE in the agent | `pose` | `HandleLocalizationCommand`, `ProcessLocalizationCommand`, `LocalizationResumed` |
| lifecycle managers (external) | `state`, and `by`, `late` | `Execute`, `ExecuteLate`, `Lose` |
| processes | `agent`, `marker`, `lock` | `AgentCrash`, `AgentStop` (`destroy_node`), `AgentRestart`, `StackRestart` |

`call` is the request each caller waits for; a caller that gives up, ends or crashes leaves its request in
`late`, and the manager may still execute it. A manager answers success only for a transition it made; on the way it may have
made it and answer otherwise. The property names three things that the code cannot prevent and that are therefore excepted by
name: a request that outlived its caller (`late`, `stray`), the start-up of a readiness gate, and a session that began or failed while something was
already paused (`botched`).

### GuardedEscape

| Part | State | Actions |
|---|---|---|
| `guarded_reverse` node: maneuver thread | `op` | `Serve`, `WarmupTimeout`, `Begin`, `Loop`, `Finish` |
| its sensor thread | `scan`, `odom` | `ScanCallback`, `OdomCallback` |
| the agent's recovery thread | `client`, `plan`, `request` | `StartRecovery`, `TimesOut`, `Decides` (`AfterFirst`, `AfterTurn`, `AfterReverse`), `NextManeuver`, `Requeues` |
| arbiter | `drive`, `hold` | the lease of a motion and of a stop, in ticks |
| environment | `estop`, `events` | `EmergencyStop`, `EmergencyStopReset`, `NodeCrash`, the clock |

A tick is one pass of the maneuver's loop (50 ms). A scan is twelve beams, the first straight behind, so that the sector behind the robot
spans the seam; the code's pass over the sorted beams is stated as what it computes, the nearest pair of neighbours (`Heard`, `Neighbour`) that both return
(`AdjacentClusterClearance`, `RobustClearance`, `SideClearance`). TLC evaluates it on every combination of
five ranges; `InTheWay` is the reference it is checked against, and proved against. The swept footprint is the set of beams that end in it. Odometry says
too short, far enough, or turned the wrong way. One arc stands for the four; the first action of a recovery may also be
a Nav2 spin, which is not this node's and not modelled.

### AgentSession

| Thread | Actions |
|---|---|
| asyncio loop, one message at a time | `Connect`, `Disconnect`, `Refuses`, `QueueNavigationCommand`, `QueueRoutePreview`, `HandleMapCommand` with `LookAtPreviews`, `LookAtSwitches` and `PutMapCommand`, `HandleMapCatalogCommand`, `HandleMappingStart`, `HandleMappingEnd`, `HandleTeleop`, `PublishTeleop`, `HandleLocalizationScan`, `HandleEmergencyStop`, `HandleEmergencyReset`; beside it `RefreshActiveMap` |
| worker of a mapping command, awaited by the loop | `MappingWorks` |
| executor | `ProcessCommandQueue` with `TakeCommand` and `Activate`, `ProcessPreviewQueue`, `PreviewResult`, `TakeSwitch` .. `ReportMapSwitch`, `RunLocalizationScan`, `PublishSpin`, `PhysicalEstopCallback`, `MissionEnds`, `LocalizationChanges` |
| recovery thread | `RecoveryEnds` |
| environment | `Send`, `Lose`, `PressOrRelease`, `TimePasses`, `Reboot` |

`handler` and `ros` say what the loop and the executor have in hand between two points at which the other may get in; while
`ros` is not free (the root helper holds the thread for up to 18 s) the executor serves no callback. `maps` keeps apart what is on the disk, what the
boot link names, what the agent believes (`active_map_id`) and what the map server has loaded. Missions, mapping sessions and the arbiter have modules of
their own; here they are as much as the exclusions between them need, with free outcomes. A message says what it
asks when it is handled. One period is no shorter than the dead-man and a motion's lease.

Missions and map switches are kept apart by looks under different locks, and each look is a step of its own. `handle_map_command` looks at the active
mission, at the previews and at the switches, and then puts the switch into its queue; `process_command_queue` looks for a switch, takes a command and
then activates it. Between any two of these steps the other thread may act, so a switch can be queued behind a mission that
has just become active; `Overtaken`, the executor's second look in `process_map_command_queue`, finds it, and the seeded fault that drops this look
breaks `SwitchExcludesMission` (so does an executor that does not look for a switch). A command in the executor's hand (`taken`) is out of a stop's reach, as in
`NavCommand`. The other handlers of the loop look and act in one step: `QueueRoutePreview`, whose preview no property relates to a switch;
`HandleMapCatalogCommand`, where only the loop itself could queue a switch meanwhile; and `HandleMappingStart`, whose look at the
mission excludes nothing that may not also come about after it.

## 4. Runs

| Run | Instance | Shows |
|---|---|---|
| `arbiter` | lease 5, watchdog 2, jitter 1, 13 units | all six properties of the arbiter |
| `nav_mission` | two commands of two tasks, one recovery each, `FairSpec` | types, bounded recoveries, one result, one mission, final cancellations; every command and every cancellation is answered |
| `nav_races` | one command and its retry, a stop of either kind or an operator's operation, the drive-stall worker and the recovery thread at once | the active command is always being worked on; recoveries exclude operations |
| `nav_replay` | one command and its retry, one stop | **violated**: a goal is sent for a command that a stop, since released, had dropped |
| `drive_faults` | one speed, UART errors, failed opens, IMU failures, MCU resets, bridge restarts; instant wire | types, `HeldBaseStops`, `FaultHoldsDrive`, `WatchdogBound`, and `DrivePath` implements `DriveLease` |
| `drive_stall` | armed base, stall guard, two directions, a line may wait a tick, a reader thread that may die | `HeldBaseStops` when it is the stall guard that forbids |
| `drive_link` | a wire one tick long that loses or garbles lines, two lines in flight | `HeldBaseStops` and the refinement when the STOP itself is lost |
| `lifecycle` | two attempts, three events (sessions, pose commands, lost or late requests, crashes, restarts), `FairSpec` | SLAM is alone while it captures, one transition at a time, a paused broken Nav2 stays paused, a discard restores, and mapping commands end |
| `escape` | sensors 1, warm-up 1, limit 2, stop 1, lease 4, late 1, delivery 1, patience 10 ticks, one stop or crash, `FairSpec` | no blind motion, an obstacle stops it within one late pass (within the lease when the node is gone), no motion once the recovery thread went on, a retry only after a maneuver, and an end |
| `escape_resumes` | the same, lease 2, patience 9 | **violated**: a maneuver goes on after a stop was latched and released |
| `session` | three maps, inbox of 2, four events, `FairSpec` | no mission during a switch, the boot map exists, no motion under a stop, switches end |
| `session_goal_map` | the same | **violated**: a goal is driven on another map than its command was admitted for |

Bounds. Two tasks are enough for a cancellation of one to meet the command of the other, two objects for
one id are the first attempt and its retry (`MaxAttempts = 1` is the shipped profile). `nav_races` bounds stops and
operations together (`MaxInterventions = 1`: either may come, at any moment of the first attempt, the recovery or the retry), so that
the stall worker fits into the same run; that its two properties hold for any number of both is proved. The
arbiter's horizon is two leases and a watchdog period: a stop, its hold, a new lease and its end. In the
drive path the timeouts are small numbers in the order of the real ones (command 0.25 s, telemetry and watchdog 0.3 s, control and
command tick 0.1 s), so that every order of expiry occurs; `Lease`, `Recall` and `HoldBound` are sums of the
constants, so the runs would find them one tick too short. `Transit` and `Preempt` are how long a line may be on
the wire and how long the executor may hang between decision and write; `Latency` is how late the firmware's loop may be (the
theorems are for any, the runs have none). `LineDepth` bounds the lines in flight: the bridge waits while it is reached; with `Transit` ticks of life and one line each
command tick no more can be in flight but for services called in a row. `ReopenDelay` is 0 where ports fail: a reader that
need not wait may still wait, so nothing is lost. `FrameDepth` is the receive
path: one frame waiting, later ones are dropped. `Faults` says what may go wrong in a run.

`MaxEvents` counts what comes from outside. In `lifecycle` three are a session, a crash or a late request, and a second session or a pose command;
the gates' own start-up and repair and a session's steps count nothing. In `escape` the sequence of maneuvers is free of it: one event is one stop or
one crash in a recovery of any length. The order of its times is that of the code (a loop pass, the sensor timeout, the time limit, the stops), and
`PatienceAssumption` says of the times what the shipped values satisfy: `Patience` exceeds warm-up, time limit and lease, late passes and delivery included, as 6 s exceed
1.5 s + 3 s + 0.25 s; with a smaller one `MovesOnRequest` fails. In `session` four events are, for example, a mission, a switch, a stop and a loss; a request stands for
whatever the agent may be asked, so that several meanings share one. The third map is one that a session may save or a renaming may make. Runs that expect a violation
end at it; all states of the others are explored without any further bound. Deadlock is
not checked where the system may rest: in `NavCommand` when the server sends nothing more and nothing is stopped, in `NavLifecycle` and `AgentSession` once
their events are used up.

Fairness. In `nav_mission` (`FairSpec` of `NavCommand`) the asyncio loop, the executor's timers and
callbacks, the recovery thread and the workers are scheduled again and again, and every wait of theirs has a
timeout; Nav2 answers goals and cancel requests and ends goals. Nothing obliges the server, the
operator, a stop or a stall to act. Within the executor the fairness is of the executor as a whole, not of each callback.
In `lifecycle` only the worker of a mapping command is fair: each of its waits has a timeout (30 s for the interlock, 15 s for a manager, 18 s
for the root helper), and the managers owe nothing. The activation gate waits without a timeout, holding the interlock;
that is why `InterlockTimeout` matters. In `escape` the node, the recovery thread and the clock go on, unless the node crashes. In `session` the receive loop, the worker and the executor go on; a switch's steps
get a strong fairness because the executor's one thread is free again and again, and takes its timer's work and the answers in turn. That
LoadMap is answered is assumed: the code gives it no timeout, and without the assumption a switch, and every mission behind it, waits for ever.

What the violations mean. `send_navigation_goal` is reached through two parameter callbacks after the command was activated, and
neither looks at the latches again, so a stop in that window cancels no goal and the goal is sent
after the release ("Emergency Stop reset; previous navigation will not be resumed"). The goal that escapes then
overwrites, or loses to `clear_active_command`, the one handle the agent keeps, so that a second stop may find none.
The guarded maneuvers share the promise and break it in another way: the node never hears of a stop, publishes on, and moves the base again when the stop is released
within its time limit. And `expected_map_revision` is looked at when a command is admitted, not when it is started or queued again by a recovery:
a switch that was accepted in between moves the map under the command.

Seen while modelling, without a run of their own: the stall guard's clock runs on while the telemetry is stale or a fault is reported
(`command_tick` returns before `update_stall_guard`), so that the first fast command after it may be blocked at once; the watchdog of the firmware
stops the motors where `README.md` draws a latched fault; a maps directory that cannot be made leaves a session in SAVING; teleoperation messages
that waited behind a mapping command are published when it ends.

Every property of a passing run is also shown to fail on a seeded fault: a definition `D_Fault` beside `D` is `D`
with one plausible mistake (a dropped guard, a forgotten reset). The faults take no part in the specification.

## 5. Proofs

`CommandArbiterProofs` proves all six properties of the arbiter for every lease, period, jitter and horizon. The
invariant is `TypeOK /\ Bookkeeping /\ LatchedMotionIsOwners`: a deadline is at most a lease
after the source was heard, the watchdog is due within a period and late by at most the jitter, and the owner
was live when the watchdog last looked; the dead-man bound is the sum of these.

`NavCommandProofs` proves four properties of `NavCommand` for every set of commands and tasks and every number of
attempts, copies, stops and operations, from `NavAssumption`:

- `TypeOK`: a retry carries a number of attempts within the bound, because a recovery under way is one that was allowed (`Allowed`);
- `ActiveIsWorking`: not inductive alone. The active object could be moved by another thread that holds it too; `Located` says
  what each thread holds (the asyncio thread an admitted object, the executor a taken or starting one,
  the queue no admitted one) and that whatever exists was admitted, so that a new id is nobody's. Then each handler that closes an object clears the active command of that id;
- `OneRobotOperation`: inductive with the types of the worker's records;
- `RecoveriesBounded`: the number of recoveries of an id is the cardinality of the set of attempts used (`Counted`), a
  subset of `0..MaxAttempts-1`.

`DrivePathProofs` proves of the drive path, for every value of its constants and every set of faults:

- `FirmwareCorrect`: under a host that writes anything at any time `FirmwareInv` holds. `WatchdogBound` is not
  inductive: `DriveIsRecent` says that the command of a driven wheel was at most `Watchdog` old at the last control step, and that there is
  no request without a command; with the punctuality of the loop (`controlAge`) the bound follows;
- `PathUsesFirmware`: `DrivePath`, wire and faults included, implements `FirmwareSpec`. What must be shown is that only lines of `AnyLine`
  are ever in flight (`HostLines`), whatever the bridge decides;
- `FaultHolds` and `WatchdogHolds`: both bounds in the whole path, from the two theorems above.

`DriveTimesProofs` proves the times of the drive path, from the named assumptions on its constants (`BridgeAssumption`, `FirmwareAssumption`, `PathAssumption`)
and the firmware's theorem. Neither `HeldBaseStops` nor the refinement is near inductive: both speak of the wheels, and what decides is far up the path. `Timed` adds

- `Shaped`: the types, among them how long a line may be decided on but unwritten, and on the wire;
- `Aging`: how old the cause of a line, of the request and of the drive may be, by where it is. Each place adds its own delay (`CommandTimeout`, `Preempt`, `Transit`,
  `Watchdog`, `Control`, `Latency`); their sum is `Lease`, the part behind the bridge is `Recall`;
- `Ordering`: nothing overtakes. What is further on is never more recent than what follows, which is what "only turns to a more recent command" needs;
- `Holding`: whatever still moves was decided on before the bridge forbade motion, so that the delays since then bound how long it has been forbidden (`HoldBound`).

`TypesHold` and `HeldStops` follow; `Leased` maps every step of the path to `Obey`, `Halt`, `Withdraw` or `Wait` of `DriveLease`, or to a stutter.

`NavMissionProofs` proves the three promises to the server that need a larger invariant than the four above, for every set of commands and tasks and every number of
recoveries and cancellations:

- `OneResult` (`OneReport`), where no operation is started and the stall guard is off (`Calm`), for every number of stops. `Once` is the reason: commands of a task have at
  most one carrier, an object that is not closed or the recovery of one, and what is carried is not reported yet. `Carriers` sorts all steps into six kinds (an admission, an end, an
  end that a recovery takes over, its failure, its retry, and those that make no carrier), and the invariant is shown for each;
- `OneAtATime` (`OneMission`) and `CancelFinal` (`ConfirmedCancelIsFinal`), where there are no stops either (`Undisturbed`). `Turn` says that the executor takes a command only
  while none is active, `Known` that only cancellations the server asked for are confirmed; a command whose task was confirmed is therefore never offered again, and what
  still waits of it is skipped.

The assumptions say exactly what the code needs: with one operation or with the stall guard on, `OneReport` and `OneMission` have counterexamples on the instance of `nav_mission`,
and with one stop `OneMission` and `ConfirmedCancelIsFinal` have: the stop clears the active command while its object is still on the way to Nav2, the window of `nav_replay`.

`NavLifecycleProofs` proves the five safety properties of `NavLifecycle` for every number of attempts and events. `Typed`, `Asked` (what each caller waits for), `Course` (which steps belong to
which phase, with which nodes paused) and `Guarded` (who holds the interlock where) are common to all; on them build

- `OneAuthor` (`OneTransition`): at once, since who asks a manager holds the interlock;
- `SlamAlone` (`SlamIsSoleAuthority`): `Sole`, what was paused stays aside from the answer to its pause on, but for requests that outlived their callers and the readiness gate;
- `ContractKept` (`BrokenContractStaysPaused`): `Strays`, from the answer to the gate's pause on, also that no session remembers Nav2 as active;
- `DiscardKept` (`DiscardRestores`, an action property): `Owes`, what is owed is among what the worker remembers to restore.

`GuardedEscapeProofs` proves the five invariants of `GuardedEscape` for every timing that `EscapeAssumption` and `PatienceAssumption` allow. In `Typed` the types carry the times: how long a maneuver
may be in each phase. `Watching` relates the motion the arbiter still lets through, the age of each sensor and the time since an obstacle is shown: they add up to a constant, so that motion ends before blindness
does harm (`NotBlind`, `Halts`). `Halts` also needs that two neighbouring beams in the way make every maneuver's guard fail, seam included; that is proved for every scan. `Waiting` bounds how
long the thread has waited by where its maneuver is, and `Patience` exceeds the sum (`OnRequest`). `Confirmed` says that an answer the thread takes for an escape follows a motion (`MovedForReal`).

`AgentSessionProofs` proves the four invariants of `AgentSession` for every set of maps, size of the inbox, length of the hold and number of events. `BootMapExists`
is inductive with the types. `SwitchExcludesMission` is not: `ExclusionInv` adds that no switch is active while the executor, having looked for one, goes on to take and activate a command; with the types, in which
a taken command and a taken switch are the executor's own, the second look does the rest. Nor is `StopHolds`: `StopHoldsInv` adds that a velocity decided on but not yet published meets a base that still
holds, because no period passes between the two.

The proofs are hierarchical, one case per action. In `AgentSessionProofs` and `NavLifecycleProofs`, whose actions are many and each touch little, a lemma per variable (`MissionSteps`, `BaseSteps` and so on) first says which
actions change it, and the invariants are shown for those alone.

Only model-checked: the liveness properties (`EveryCommandAnswered`, `EveryCancelAnswered`, `OperationsEnd`, `RecoveryEnds`, `SwitchEnds`), which are outside the prover's reach, and the violations. The
small instances also show what the proofs cannot: that the interesting states are reached, and that each seeded fault is noticed.

## 6. Not modelled

`PROJECT.json` lists every component with its status. Filters and path simplification compute over real numbers; the recorder, the camera relay and the operator's
tools observe or draw, and command nothing; the simulator is no part of the robot, the drive supervisor no part of the command path; `stall_escape.py` is a
choice that `GuardedEscape` leaves open.

Of the serial bridge and the firmware: odometry, IMU and joint states, diagnostics and status flags, PING, the wheel
controller, a NaN in a velocity message, and noise that turns a line into another valid one (CMD has no checksum). Of
the mission executor: the limits of 512 ids, and the connection over which results go out. Of the lifecycle: the delays between retries and which
parameter of the runtime contract differs. Of the agent: enrolment and the rotation of its credential (files, and a server
that is not in this repository), the telemetry loops, the contents of maps, poses and metadata, and the age of a teleoperation message that
waited in the receive buffer.
