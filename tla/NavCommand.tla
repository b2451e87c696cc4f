----------------------------- MODULE NavCommand -----------------------------
(***************************************************************************)
(* The life of a delivery command in the robot agent (WebBridgeNode,       *)
(* robot_agent/amr_web_bridge): admission from the WebSocket, the local    *)
(* execution queue, the speed profile, the Nav2 goal, cancellation,        *)
(* emergency stop, blocked-pose recovery and robot operations.             *)
(*                                                                         *)
(* Four kinds of threads share the state: the asyncio thread (messages of  *)
(* the fleet server), the ROS executor (one callback at a time), the       *)
(* blocked-pose recovery thread and the worker threads that first cancel   *)
(* the active navigation (an operator's operation, the drive-stall watch). *)
(* An action is what one thread does between two points where another can  *)
(* get in: a lock, a queue, a service call.  Nav2 and the fleet server are *)
(* external.                                                               *)
(*                                                                         *)
(* A command object is <<id, n>>: the n-th object that carries the id,     *)
(* because a recovery queues a copy of the command it interrupted.         *)
(*                                                                         *)
(* A definition D_Fault is D with a seeded fault: the properties are shown *)
(* to tell it from D.                                                      *)
(***************************************************************************)
EXTENDS Naturals, Sequences, FiniteSets

CONSTANTS
  Command,         \* command ids
  Task,            \* delivery tasks
  TaskOf,          \* the task of a command
  None,
  MaxAttempts,     \* max_blocked_pose_recovery_attempts
  MotionRecovery,  \* enable_blocked_pose_motion_recovery
  StallGuard,      \* whether the base reports drive_blocked
  MaxCopies,       \* bound: objects that carry one id
  MaxStops,        \* bound: emergency stops, of both kinds
  MaxOperations,   \* bound: operations the operator starts
  MaxInterventions \* bound: stops and operations together

ASSUME NavAssumption ==
  /\ TaskOf \in [Command -> Task]
  /\ None \notin Command \X (1..MaxCopies)
  /\ None \notin (Command \X (1..MaxCopies)) \X {"maneuver", "done"}
  /\ MaxAttempts \in Nat \ {0} /\ MaxCopies \in Nat \ {0}
  /\ MaxStops \in Nat /\ MaxOperations \in Nat /\ MaxInterventions \in Nat
  /\ MotionRecovery \in BOOLEAN /\ StallGuard \in BOOLEAN

VARIABLES
  command_queue,            \* objects waiting for the executor
  pending_ids,              \* MissionCommandState.pending_ids
  processed_ids,            \* MissionCommandState.processed_ids
  active_command,           \* the object being executed, or None
  active_goal_handle,       \* the object whose Nav2 goal handle is kept, or None
  cancel_queue,             \* tasks with a cancel request not yet looked at
  pending_cancel_requests,  \* tasks whose cancel request waits for Nav2
  cancelled_task_ids,       \* tasks cancelled while nothing was active
  recovery_cancelled,       \* recovery_cancelled_command_ids
  emergency_stop_latched,
  physical_estop_latched,
  stopping,                 \* asyncio thread: between the halves of a stop
  net,                      \* asyncio thread: the object it is about to put, or None
  ros,                      \* executor: the object it is starting, or None
  job,                      \* the workers that cancel the active navigation
  recovery,                 \* blocked-pose recovery thread: its command and phase
  robot_operation_active,
  attempted,                \* blocked_start_recovery_attempted_ids
  at,                       \* where each object is
  attempt,                  \* _blocked_pose_recovery_attempt of each object
  goal,                     \* Nav2: the goal of each object
  asked,                    \* Nav2: the cancel request for the goal of each object
  answer_due,               \* cancel_response_callbacks outstanding: <<goal, task>>
  \* what the server has seen, and history
  reports,                  \* navigation_result messages sent for each id
  requested,                \* tasks the server asked to cancel
  replies,                  \* navigation_cancelled messages: <<task, verdict>>
  recoveries,               \* recovery threads started for each id
  stops, operations,        \* how many so far
  born                      \* number of stops when the id was admitted

queues == <<command_queue, pending_ids, processed_ids, born>>
activity == <<active_command, active_goal_handle>>
cancels == <<cancel_queue, pending_cancel_requests, cancelled_task_ids, requested, replies>>
latches == <<emergency_stop_latched, physical_estop_latched, stopping, stops>>
recovering == <<recovery, attempted, recoveries>>
operating == <<job, robot_operation_active, operations, recovery_cancelled>>
objects == <<at, attempt>>
nav2 == <<goal, asked, answer_due>>
vars == <<queues, activity, cancels, latches, net, ros, recovering, operating,
          objects, nav2, reports>>

-----------------------------------------------------------------------------
Object == Command \X (1..MaxCopies)
Id(o) == o[1]
TaskIs(o) == TaskOf[o[1]]

\* An object is put into the queue (admitted, queued), taken and started
\* (taken, starting), given its speed profile (profiling, smoothing), sent to
\* Nav2 (submitted), runs there, and is closed.
Place == {"absent", "admitted", "queued", "taken", "starting", "profiling",
          "smoothing", "submitted", "running", "closed"}

\* A Nav2 goal ends in one of these ways: "error" is a lost result.
Ended == {"succeeded", "canceled", "aborted", "error"}
GoalState == {"none", "rejected", "executing"} \cup Ended
Verdict == {"confirmed", "mismatch", "denied", "lost"}

Worker == {"operation", "stall"}
Idle == [phase |-> "idle", resume |-> FALSE, cmd |-> None, started |-> FALSE]

motion_stop_latched == emergency_stop_latched \/ physical_estop_latched

\* The bound of stops and operations together.
Intervenes == stops + operations < MaxInterventions

\* The next object that carries the id c (none left: the bound MaxCopies).
Fresh(c) == {o \in Object :
               /\ Id(o) = c /\ at[o] = "absent"
               /\ \A p \in Object : Id(p) = c /\ p[2] < o[2] => at[p] # "absent"}

\* clear_active_command: by id, whichever object carries it.
ClearActive(c) ==
  IF active_command # None /\ Id(active_command) = c
  THEN active_command' = None /\ active_goal_handle' = None
  ELSE UNCHANGED activity

\* The parts of a handler that tell the server something.
Report(c) == reports' = [reports EXCEPT ![c] = @ + 1]
Reply(t, verdict) == replies' = replies \cup {<<t, verdict>>}

\* cancel_goal_async on the handle of o.
AskCancel(o) == asked' = [asked EXCEPT ![o] = "sent"]

\* request_goal_cancellation: the same for the task t, with a callback.
RequestGoalCancellation(o, t) ==
  /\ AskCancel(o)
  /\ answer_due' = answer_due \cup {<<o, t>>}

\* clear_command_queue, and what an emergency stop drops with it.
ClearCommandQueue ==
  /\ command_queue' = <<>>
  /\ pending_ids' = {}
  /\ at' = [o \in Object |-> IF at[o] = "queued" THEN "closed" ELSE at[o]]

DropActive ==
  /\ active_command' = None
  /\ active_goal_handle' = None
  /\ pending_cancel_requests' = {}
  /\ IF active_goal_handle = None THEN UNCHANGED asked ELSE AskCancel(active_goal_handle)

\* Put a copy of the command of o, after `tries` recoveries.
Requeue_CountTwice(o, tries) ==
  \E copy \in Fresh(Id(o)) :
    /\ command_queue' = Append(command_queue, copy)
    /\ at' = [at EXCEPT ![copy] = "queued"]
    /\ attempt' = [attempt EXCEPT ![copy] = tries + 1]
Requeue(o, tries) ==
  \E copy \in Fresh(Id(o)) :
    /\ command_queue' = Append(command_queue, copy)
    /\ at' = [at EXCEPT ![copy] = "queued"]
    /\ attempt' = [attempt EXCEPT ![copy] = tries]

-----------------------------------------------------------------------------
Init ==
  /\ command_queue = <<>> /\ pending_ids = {} /\ processed_ids = {}
  /\ active_command = None /\ active_goal_handle = None
  /\ cancel_queue = {} /\ pending_cancel_requests = {}
  /\ cancelled_task_ids = {} /\ recovery_cancelled = {}
  /\ emergency_stop_latched = FALSE /\ physical_estop_latched = FALSE
  /\ stopping = FALSE /\ net = None /\ ros = None
  /\ job = [w \in Worker |-> Idle]
  /\ recovery = None /\ robot_operation_active = FALSE /\ attempted = {}
  /\ at = [o \in Object |-> "absent"] /\ attempt = [o \in Object |-> 0]
  /\ goal = [o \in Object |-> "none"] /\ asked = [o \in Object |-> "none"]
  /\ answer_due = {}
  /\ reports = [c \in Command |-> 0]
  /\ requested = {} /\ replies = {}
  /\ recoveries = [c \in Command |-> 0]
  /\ stops = 0 /\ operations = 0
  /\ born = [c \in Command |-> 0]

-----------------------------------------------------------------------------
(* The asyncio thread: messages of the fleet server. *)

\* The server, external: it sends a stage of a task it has not cancelled when
\* the task has no other stage under way.
Offered(c) ==
  /\ TaskOf[c] \notin requested
  /\ \A d \in processed_ids : d # c /\ TaskOf[d] = TaskOf[c] => reports[d] > 0

\* MissionCommandState.admit: once for an id.
Admits(c) ==
  /\ c \notin processed_ids \cup pending_ids
  /\ active_command # None => Id(active_command) # c

\* queue_navigation_command: a stop refuses it, a duplicate is only acknowledged.
QueueNavigationCommand(c) ==
  /\ net = None /\ ~stopping
  /\ Offered(c)
  /\ ~motion_stop_latched
  /\ Admits(c)
  /\ pending_ids' = pending_ids \cup {c}
  /\ processed_ids' = processed_ids \cup {c}
  /\ born' = [born EXCEPT ![c] = stops]
  /\ net' = <<c, 1>>
  /\ at' = [at EXCEPT ![<<c, 1>>] = "admitted"]
  /\ UNCHANGED <<command_queue, activity, cancels, latches, ros, recovering,
                 operating, attempt, nav2, reports>>

\* ... and its command_queue.put.
Put ==
  /\ net # None
  /\ command_queue' = Append(command_queue, net)
  /\ at' = [at EXCEPT ![net] = "queued"]
  /\ net' = None
  /\ UNCHANGED <<pending_ids, processed_ids, born, activity, cancels, latches, ros,
                 recovering, operating, attempt, nav2, reports>>

\* queue_navigation_cancel: once for each task.
QueueNavigationCancel(t) ==
  /\ net = None /\ ~stopping
  /\ t \notin requested
  /\ \E c \in processed_ids : TaskOf[c] = t
  /\ requested' = requested \cup {t}
  /\ cancel_queue' = cancel_queue \cup {t}
  /\ UNCHANGED <<queues, activity, pending_cancel_requests, cancelled_task_ids, replies,
                 latches, net, ros, recovering, operating, objects, nav2, reports>>

\* handle_emergency_command, emergency_stop: latch and empty the queue, then
\* drop what is active.
EmergencyStop ==
  /\ net = None /\ ~stopping
  /\ stops < MaxStops /\ Intervenes
  /\ emergency_stop_latched' = TRUE
  /\ stopping' = TRUE
  /\ stops' = stops + 1
  /\ ClearCommandQueue
  /\ UNCHANGED <<processed_ids, born, activity, cancels, physical_estop_latched, net, ros,
                 recovering, operating, attempt, nav2, reports>>

EmergencyStopDrop ==
  /\ stopping
  /\ stopping' = FALSE
  /\ pending_ids' = {}
  /\ DropActive
  /\ UNCHANGED <<command_queue, processed_ids, born, cancel_queue, cancelled_task_ids,
                 requested, replies, emergency_stop_latched, physical_estop_latched,
                 stops, net, ros, recovering, operating, objects, goal, answer_due,
                 reports>>

\* emergency_stop_reset.
EmergencyStopReset ==
  /\ net = None /\ ~stopping
  /\ emergency_stop_latched
  /\ emergency_stop_latched' = FALSE
  /\ UNCHANGED <<queues, activity, cancels, physical_estop_latched, stopping, stops, net,
                 ros, recovering, operating, objects, nav2, reports>>

-----------------------------------------------------------------------------
(* The physical emergency stop: executor callbacks. *)

\* latch_physical_estop, from the topic or from the watchdog of a silent topic;
\* latching again changes nothing.
LatchPhysicalEstop ==
  /\ ros = None
  /\ ~physical_estop_latched
  /\ stops < MaxStops /\ Intervenes
  /\ physical_estop_latched' = TRUE
  /\ stops' = stops + 1
  /\ ClearCommandQueue
  /\ DropActive
  /\ UNCHANGED <<processed_ids, born, cancel_queue, cancelled_task_ids, requested, replies,
                 emergency_stop_latched, stopping, net, ros, recovering, operating,
                 attempt, goal, answer_due, reports>>

\* physical_estop_callback with FALSE.
ReleasePhysicalEstop ==
  /\ ros = None
  /\ physical_estop_latched
  /\ physical_estop_latched' = FALSE
  /\ UNCHANGED <<queues, activity, cancels, emergency_stop_latched, stopping, stops, net,
                 ros, recovering, operating, objects, nav2, reports>>

-----------------------------------------------------------------------------
(* The ROS executor: process_command_queue. *)

\* process_cancel_queue, its three answers and its wait.
ConfirmInactive_Forget(t) ==
  /\ active_command = None
  /\ pending_cancel_requests' = pending_cancel_requests \ {t}
  /\ Reply(t, "confirmed")
  /\ UNCHANGED <<cancelled_task_ids, asked, answer_due>>
ConfirmInactive(t) ==
  /\ active_command = None
  /\ cancelled_task_ids' = cancelled_task_ids \cup {t}
  /\ pending_cancel_requests' = pending_cancel_requests \ {t}
  /\ Reply(t, "confirmed")
  /\ UNCHANGED <<asked, answer_due>>

RefuseMismatch(t) ==
  /\ active_command # None
  /\ TaskIs(active_command) # t
  /\ pending_cancel_requests' = pending_cancel_requests \ {t}
  /\ Reply(t, "mismatch")
  /\ UNCHANGED <<cancelled_task_ids, asked, answer_due>>

AwaitNav2(t) ==
  /\ active_command # None
  /\ TaskIs(active_command) = t
  /\ pending_cancel_requests' = pending_cancel_requests \cup {t}
  /\ IF active_goal_handle = None
     THEN UNCHANGED <<asked, answer_due>>
     ELSE RequestGoalCancellation(active_goal_handle, t)
  /\ UNCHANGED <<cancelled_task_ids, replies>>

ProcessCancelQueue(t) ==
  /\ ros = None
  /\ t \in cancel_queue
  /\ cancel_queue' = cancel_queue \ {t}
  /\ ConfirmInactive(t) \/ RefuseMismatch(t) \/ AwaitNav2(t)
  /\ UNCHANGED <<queues, activity, requested, latches, net, ros, recovering, operating,
                 objects, goal, reports>>

\* A latched stop empties the queue ...
DiscardQueue ==
  /\ ros = None /\ cancel_queue = {}
  /\ motion_stop_latched
  /\ command_queue # <<>>
  /\ ClearCommandQueue
  /\ UNCHANGED <<processed_ids, born, activity, cancels, latches, net, ros, recovering,
                 operating, attempt, nav2, reports>>

\* ... else, when nothing is active, the executor takes the oldest command.
TakeCommand_WhileActive ==
  /\ ros = None /\ cancel_queue = {}
  /\ ~motion_stop_latched
  /\ command_queue # <<>>
  /\ command_queue' = Tail(command_queue)
  /\ ros' = Head(command_queue)
  /\ at' = [at EXCEPT ![Head(command_queue)] = "taken"]
  /\ UNCHANGED <<pending_ids, processed_ids, born, activity, cancels, latches, net,
                 recovering, operating, attempt, nav2, reports>>
TakeCommand ==
  /\ ros = None /\ cancel_queue = {}
  /\ ~motion_stop_latched
  /\ active_command = None
  /\ command_queue # <<>>
  /\ command_queue' = Tail(command_queue)
  /\ ros' = Head(command_queue)
  /\ at' = [at EXCEPT ![Head(command_queue)] = "taken"]
  /\ UNCHANGED <<pending_ids, processed_ids, born, activity, cancels, latches, net,
                 recovering, operating, attempt, nav2, reports>>

\* Under the lock: skip it if its task was cancelled, else it is active.
SkipCancelled ==
  /\ ros # None /\ at[ros] = "taken"
  /\ TaskIs(ros) \in cancelled_task_ids
  /\ cancelled_task_ids' = cancelled_task_ids \ {TaskIs(ros)}
  /\ pending_ids' = pending_ids \ {Id(ros)}
  /\ at' = [at EXCEPT ![ros] = "closed"]
  /\ ros' = None
  /\ UNCHANGED <<command_queue, processed_ids, born, activity, cancel_queue,
                 pending_cancel_requests, requested, replies, latches, net, recovering,
                 operating, attempt, nav2, reports>>

Activate ==
  /\ ros # None /\ at[ros] = "taken"
  /\ TaskIs(ros) \notin cancelled_task_ids
  /\ active_command' = ros
  /\ pending_ids' = pending_ids \ {Id(ros)}
  /\ at' = [at EXCEPT ![ros] = "starting"]
  /\ UNCHANGED <<command_queue, processed_ids, born, active_goal_handle, cancels, latches,
                 net, ros, recovering, operating, attempt, nav2, reports>>

\* The object o fails before it has a goal: the server is told, the command is
\* no longer active.
Abort_KeepActive(o) ==
  /\ at' = [at EXCEPT ![o] = "closed"]
  /\ Report(Id(o))
  /\ UNCHANGED activity
Abort(o) ==
  /\ at' = [at EXCEPT ![o] = "closed"]
  /\ Report(Id(o))
  /\ ClearActive(Id(o))

\* wait_for_server blocks the executor; then the profile is requested.
StartCommand ==
  /\ ros # None /\ at[ros] = "starting"
  /\ ros' = None
  /\ \/ at' = [at EXCEPT ![ros] = "profiling"] /\ UNCHANGED <<activity, reports>>
     \/ Abort(ros)
  /\ UNCHANGED <<queues, cancels, latches, net, recovering, operating, attempt, nav2>>

\* navigation_profile_callback.
NavigationProfileCallback(o) ==
  /\ ros = None
  /\ at[o] = "profiling"
  /\ \/ at' = [at EXCEPT ![o] = "smoothing"] /\ UNCHANGED <<activity, reports>>
     \/ Abort(o)
  /\ UNCHANGED <<queues, cancels, latches, net, ros, recovering, operating, attempt, nav2>>

\* navigation_smoother_profile_callback and send_navigation_goal.
NavigationSmootherProfileCallback(o) ==
  /\ ros = None
  /\ at[o] = "smoothing"
  /\ \/ at' = [at EXCEPT ![o] = "submitted"] /\ UNCHANGED <<activity, reports>>
     \/ Abort(o)
  /\ UNCHANGED <<queues, cancels, latches, net, ros, recovering, operating, attempt, nav2>>

\* goal_response_callback.  A refused goal (or a lost answer) ends the command,
\* as its result or as the answer to a waiting cancel request; an accepted one
\* is kept as the active handle whatever is active now.
GoalRefused_KeepActive(o) ==
  /\ goal[o] = "rejected"
  /\ at' = [at EXCEPT ![o] = "closed"]
  /\ pending_cancel_requests' = pending_cancel_requests \ {TaskIs(o)}
  /\ IF TaskIs(o) \in pending_cancel_requests
     THEN Reply(TaskIs(o), "confirmed") /\ UNCHANGED reports
     ELSE Report(Id(o)) /\ UNCHANGED replies
  /\ UNCHANGED <<activity, asked, answer_due>>
GoalRefused(o) ==
  /\ goal[o] = "rejected"
  /\ at' = [at EXCEPT ![o] = "closed"]
  /\ ClearActive(Id(o))
  /\ pending_cancel_requests' = pending_cancel_requests \ {TaskIs(o)}
  /\ IF TaskIs(o) \in pending_cancel_requests
     THEN Reply(TaskIs(o), "confirmed") /\ UNCHANGED reports
     ELSE Report(Id(o)) /\ UNCHANGED replies
  /\ UNCHANGED <<asked, answer_due>>

GoalAccepted(o) ==
  /\ goal[o] # "rejected"
  /\ at' = [at EXCEPT ![o] = "running"]
  /\ active_goal_handle' = o
  /\ IF TaskIs(o) \in pending_cancel_requests
     THEN RequestGoalCancellation(o, TaskIs(o))
     ELSE UNCHANGED <<asked, answer_due>>
  /\ UNCHANGED <<active_command, pending_cancel_requests, replies, reports>>

GoalResponseCallback(o) ==
  /\ ros = None
  /\ at[o] = "submitted" /\ goal[o] # "none"
  /\ GoalRefused(o) \/ GoalAccepted(o)
  /\ UNCHANGED <<queues, cancel_queue, cancelled_task_ids, requested, latches, net, ros,
                 recovering, operating, attempt, goal>>

\* cancel_response_callback: a refusal is told to the server at once.
CancelResponseCallback(o, t) ==
  /\ ros = None
  /\ <<o, t>> \in answer_due
  /\ asked[o] \in {"granted", "denied"}
  /\ answer_due' = answer_due \ {<<o, t>>}
  /\ IF asked[o] = "granted"
     THEN UNCHANGED <<pending_cancel_requests, replies>>
     ELSE /\ pending_cancel_requests' = pending_cancel_requests \ {t}
          /\ Reply(t, "denied")
  /\ UNCHANGED <<queues, activity, cancel_queue, cancelled_task_ids, requested, latches,
                 net, ros, recovering, operating, objects, goal, asked, reports>>

-----------------------------------------------------------------------------
(* Blocked-pose recovery. *)

\* maybe_start_blocked_pose_recovery, when it starts: the scan, the motor
\* diagnostics, the localization and the elapsed time allow it.
CanRecover_Unlimited(o) ==
  /\ MotionRecovery
  /\ ~motion_stop_latched
  /\ recovery = None
  /\ <<Id(o), attempt[o]>> \notin attempted
  /\ ~robot_operation_active
CanRecover(o) ==
  /\ MotionRecovery
  /\ attempt[o] < MaxAttempts
  /\ ~motion_stop_latched
  /\ recovery = None
  /\ <<Id(o), attempt[o]>> \notin attempted
  /\ ~robot_operation_active

StartRecovery(o) ==
  /\ recovery' = <<o, "maneuver">>
  /\ robot_operation_active' = TRUE
  /\ attempted' = attempted \cup {<<Id(o), attempt[o]>>}
  /\ recoveries' = [recoveries EXCEPT ![Id(o)] = @ + 1]
  /\ ClearActive(Id(o))

\* run_blocked_pose_recovery: every failed step reports, the last step retries.
RecoveryFails ==
  /\ recovery # None /\ recovery[2] = "maneuver"
  /\ recovery' = <<recovery[1], "done">>
  /\ Report(Id(recovery[1]))
  /\ UNCHANGED <<queues, activity, cancels, latches, net, ros, attempted, recoveries,
                 operating, objects, nav2>>

RecoveryRetries ==
  /\ recovery # None /\ recovery[2] = "maneuver"
  /\ recovery' = <<recovery[1], "done">>
  /\ Requeue(recovery[1], attempt[recovery[1]] + 1)
  /\ UNCHANGED <<pending_ids, processed_ids, born, activity, cancels, latches, net, ros,
                 attempted, recoveries, operating, nav2, reports>>

\* ... and its finally.
RecoveryDone ==
  /\ recovery # None /\ recovery[2] = "done"
  /\ recovery' = None
  /\ robot_operation_active' = FALSE
  /\ UNCHANGED <<queues, activity, cancels, latches, net, ros, attempted, recoveries, job,
                 operations, recovery_cancelled, objects, nav2, reports>>

-----------------------------------------------------------------------------
(* navigation_result_callback. *)

\* Cancelled by a worker: the result is swallowed.
ResultSwallowed(o) ==
  /\ Id(o) \in recovery_cancelled
  /\ recovery_cancelled' = recovery_cancelled \ {Id(o)}
  /\ ClearActive(Id(o))
  /\ UNCHANGED <<pending_cancel_requests, replies, reports, recovering,
                 robot_operation_active>>

\* A waiting cancel request is answered instead of the result.
ResultOfCancel_Silent(o) ==
  /\ Id(o) \notin recovery_cancelled
  /\ TaskIs(o) \in pending_cancel_requests
  /\ pending_cancel_requests' = pending_cancel_requests \ {TaskIs(o)}
  /\ ClearActive(Id(o))
  /\ UNCHANGED <<replies, reports, recovering, recovery_cancelled, robot_operation_active>>
ResultOfCancel(o) ==
  /\ Id(o) \notin recovery_cancelled
  /\ TaskIs(o) \in pending_cancel_requests
  /\ pending_cancel_requests' = pending_cancel_requests \ {TaskIs(o)}
  /\ Reply(TaskIs(o), IF goal[o] = "error" THEN "lost" ELSE "confirmed")
  /\ ClearActive(Id(o))
  /\ UNCHANGED <<reports, recovering, recovery_cancelled, robot_operation_active>>

\* An abort may start a recovery, unless the robot is near enough to its goal.
ResultRecovers_NoReturn(o) ==
  /\ Id(o) \notin recovery_cancelled
  /\ TaskIs(o) \notin pending_cancel_requests
  /\ goal[o] = "aborted"
  /\ CanRecover(o)
  /\ StartRecovery(o)
  /\ Report(Id(o))
  /\ UNCHANGED <<pending_cancel_requests, replies, recovery_cancelled>>
ResultRecovers(o) ==
  /\ Id(o) \notin recovery_cancelled
  /\ TaskIs(o) \notin pending_cancel_requests
  /\ goal[o] = "aborted"
  /\ CanRecover(o)
  /\ StartRecovery(o)
  /\ UNCHANGED <<pending_cancel_requests, replies, reports, recovery_cancelled>>

ResultReported(o) ==
  /\ Id(o) \notin recovery_cancelled
  /\ TaskIs(o) \notin pending_cancel_requests
  /\ Report(Id(o))
  /\ ClearActive(Id(o))
  /\ UNCHANGED <<pending_cancel_requests, replies, recovering, recovery_cancelled,
                 robot_operation_active>>

NavigationResultCallback(o) ==
  /\ ros = None
  /\ at[o] = "running" /\ goal[o] \in Ended
  /\ at' = [at EXCEPT ![o] = "closed"]
  /\ ResultSwallowed(o) \/ ResultOfCancel(o) \/ ResultRecovers(o) \/ ResultReported(o)
  /\ UNCHANGED <<queues, cancel_queue, cancelled_task_ids, requested, latches, net, ros,
                 job, operations, attempt, nav2>>

-----------------------------------------------------------------------------
(* The workers: cancel_active_navigation_for_operation and what follows. *)

\* handle_robot_operation accepts one operation at a time; navigation.recover
\* resumes what it interrupts, the others do not.
HandleRobotOperation_WhileBusy ==
  /\ net = None /\ ~stopping
  /\ operations < MaxOperations /\ Intervenes
  /\ robot_operation_active' = TRUE
  /\ operations' = operations + 1
  /\ \E resume \in BOOLEAN :
       job' = [job EXCEPT !["operation"] =
                 [phase |-> "cancel", resume |-> resume, cmd |-> None, started |-> FALSE]]
  /\ UNCHANGED <<queues, activity, cancels, latches, net, ros, recovering,
                 recovery_cancelled, objects, nav2, reports>>
HandleRobotOperation ==
  /\ net = None /\ ~stopping
  /\ operations < MaxOperations /\ Intervenes
  /\ ~robot_operation_active
  /\ robot_operation_active' = TRUE
  /\ operations' = operations + 1
  /\ \E resume \in BOOLEAN :
       job' = [job EXCEPT !["operation"] =
                 [phase |-> "cancel", resume |-> resume, cmd |-> None, started |-> FALSE]]
  /\ UNCHANGED <<queues, activity, cancels, latches, net, ros, recovering,
                 recovery_cancelled, objects, nav2, reports>>

\* maybe_recover_active_drive_stall.
DriveStall ==
  /\ ros = None
  /\ StallGuard
  /\ active_command # None
  /\ job["stall"].phase = "idle"
  /\ recovery = None
  /\ attempt[active_command] < MaxAttempts
  /\ <<Id(active_command), attempt[active_command]>> \notin attempted
  /\ job' = [job EXCEPT !["stall"] =
                [phase |-> "cancel", resume |-> TRUE, cmd |-> None, started |-> FALSE]]
  /\ UNCHANGED <<queues, activity, cancels, latches, net, ros, recovering,
                 robot_operation_active, operations, recovery_cancelled, objects, nav2,
                 reports>>

\* The worker copies the active command and asks Nav2 to cancel the handle it
\* finds; without a handle there is no result to swallow.
CancelForOperation(w) ==
  /\ job[w].phase = "cancel"
  /\ job' = [job EXCEPT ![w].phase = "wait", ![w].cmd = active_command,
                        ![w].started = active_command # None
                                       /\ at[active_command] \in {"submitted", "running"}]
  /\ recovery_cancelled' =
       IF active_command # None /\ job[w].resume
       THEN IF active_goal_handle # None
            THEN recovery_cancelled \cup {Id(active_command)}
            ELSE recovery_cancelled \ {Id(active_command)}
       ELSE IF active_command # None /\ active_goal_handle = None
            THEN recovery_cancelled \ {Id(active_command)}
            ELSE recovery_cancelled
  /\ IF active_goal_handle = None THEN UNCHANGED asked ELSE AskCancel(active_goal_handle)
  /\ UNCHANGED <<queues, activity, cancels, latches, net, ros, recovering,
                 robot_operation_active, operations, objects, goal, answer_due, reports>>

\* Answered, or timed out after four seconds: the command is no longer active.
CancelWaitOver(w) ==
  /\ job[w].phase = "wait"
  /\ job' = [job EXCEPT ![w].phase = "settle"]
  /\ IF job[w].cmd = None THEN UNCHANGED activity ELSE ClearActive(Id(job[w].cmd))
  /\ UNCHANGED <<queues, cancels, latches, net, ros, recovering, robot_operation_active,
                 operations, recovery_cancelled, objects, nav2, reports>>

\* The swallowed result came, or four more seconds passed.  recover_navigation
\* replans and queues the command again, or gives up without a word.
OperationResumes ==
  /\ job["operation"].phase = "settle"
  /\ job["operation"].resume /\ job["operation"].cmd # None
  /\ job' = [job EXCEPT !["operation"].phase = "done"]
  /\ Requeue(job["operation"].cmd, attempt[job["operation"].cmd])
  /\ UNCHANGED <<pending_ids, processed_ids, born, activity, cancels, latches, net, ros,
                 recovering, robot_operation_active, operations, recovery_cancelled, nav2,
                 reports>>

\* run_robot_operation's finally, after a resume, a refused resume or a halt.
OperationDone ==
  /\ job["operation"].phase \in {"settle", "done"}
  /\ job' = [job EXCEPT !["operation"] = Idle]
  /\ robot_operation_active' = FALSE
  /\ UNCHANGED <<queues, activity, cancels, latches, net, ros, recovering, operations,
                 recovery_cancelled, objects, nav2, reports>>

\* run_active_drive_stall_recovery hands the command to the recovery, which
\* starts or is refused; a refusal is only logged.
StallHandsOver ==
  /\ job["stall"].phase = "settle"
  /\ job["stall"].cmd # None /\ job["stall"].started
  /\ CanRecover(job["stall"].cmd)
  /\ StartRecovery(job["stall"].cmd)
  /\ job' = [job EXCEPT !["stall"] = Idle]
  /\ UNCHANGED <<queues, cancels, latches, net, ros, operations, recovery_cancelled, objects,
                 nav2, reports>>

StallGivesUp ==
  /\ job["stall"].phase = "settle"
  /\ job' = [job EXCEPT !["stall"] = Idle]
  /\ UNCHANGED <<queues, activity, cancels, latches, net, ros, recovering,
                 robot_operation_active, operations, recovery_cancelled, objects, nav2,
                 reports>>

-----------------------------------------------------------------------------
(* Nav2, external: one goal executes at a time, a new one preempts it. *)

Nav2Answers(o) ==
  /\ at[o] = "submitted" /\ goal[o] = "none"
  /\ \/ goal' = [goal EXCEPT ![o] = "rejected"]
     \/ goal' = [p \in Object |-> IF p = o THEN "executing"
                                  ELSE IF goal[p] = "executing" THEN "aborted" ELSE goal[p]]
  /\ UNCHANGED <<queues, activity, cancels, latches, net, ros, recovering, operating,
                 objects, asked, answer_due, reports>>

Nav2Ends(o) ==
  /\ goal[o] = "executing"
  /\ \E end \in Ended :
       /\ end = "canceled" => asked[o] = "granted"
       /\ goal' = [goal EXCEPT ![o] = end]
  /\ UNCHANGED <<queues, activity, cancels, latches, net, ros, recovering, operating,
                 objects, asked, answer_due, reports>>

Nav2AnswersCancel(o) ==
  /\ asked[o] = "sent"
  /\ asked' = [asked EXCEPT ![o] = IF goal[o] = "executing" THEN "granted" ELSE "denied"]
  /\ UNCHANGED <<queues, activity, cancels, latches, net, ros, recovering, operating,
                 objects, goal, answer_due, reports>>

-----------------------------------------------------------------------------
Server ==
  \/ \E c \in Command : QueueNavigationCommand(c)
  \/ \E t \in Task : QueueNavigationCancel(t)
  \/ HandleRobotOperation

Stops ==
  \/ EmergencyStop \/ EmergencyStopDrop \/ EmergencyStopReset
  \/ LatchPhysicalEstop \/ ReleasePhysicalEstop

Executor ==
  \/ \E t \in Task : ProcessCancelQueue(t)
  \/ DiscardQueue \/ TakeCommand \/ SkipCancelled \/ Activate \/ StartCommand
  \/ \E o \in Object : \/ NavigationProfileCallback(o)
                       \/ NavigationSmootherProfileCallback(o)
                       \/ GoalResponseCallback(o)
                       \/ NavigationResultCallback(o)
  \/ \E d \in answer_due : CancelResponseCallback(d[1], d[2])

RecoveryThread == RecoveryFails \/ RecoveryRetries \/ RecoveryDone

Workers ==
  \/ \E w \in Worker : CancelForOperation(w) \/ CancelWaitOver(w)
  \/ OperationResumes \/ OperationDone \/ StallHandsOver \/ StallGivesUp

Nav2 == \E o \in Object : Nav2Answers(o) \/ Nav2Ends(o) \/ Nav2AnswersCancel(o)

Next ==
  \/ Server \/ Put \/ Stops
  \/ Executor \/ DriveStall
  \/ RecoveryThread \/ Workers \/ Nav2

Spec == Init /\ [][Next]_vars

\* The asyncio loop, the executor, the threads and Nav2 keep running; the
\* server, the stops and a stall need never act.
Fairness ==
  /\ WF_vars(Put) /\ WF_vars(EmergencyStopDrop)
  /\ WF_vars(Executor) /\ WF_vars(RecoveryThread) /\ WF_vars(Workers) /\ WF_vars(Nav2)

FairSpec == Spec /\ Fairness

-----------------------------------------------------------------------------
\* Every variable keeps its type.
Job == [phase : {"idle", "cancel", "wait", "settle", "done"}, resume : BOOLEAN,
        cmd : Object \cup {None}, started : BOOLEAN]
TypeOK ==
  /\ command_queue \in Seq(Object)
  /\ pending_ids \subseteq Command /\ processed_ids \subseteq Command
  /\ active_command \in Object \cup {None} /\ active_goal_handle \in Object \cup {None}
  /\ cancel_queue \subseteq Task /\ pending_cancel_requests \subseteq Task
  /\ cancelled_task_ids \subseteq Task /\ recovery_cancelled \subseteq Command
  /\ emergency_stop_latched \in BOOLEAN /\ physical_estop_latched \in BOOLEAN
  /\ stopping \in BOOLEAN
  /\ net \in Object \cup {None} /\ ros \in Object \cup {None}
  /\ job \in [Worker -> Job]
  /\ recovery \in {None} \cup (Object \X {"maneuver", "done"})
  /\ robot_operation_active \in BOOLEAN
  /\ attempted \subseteq Command \X Nat
  /\ at \in [Object -> Place] /\ attempt \in [Object -> 0..MaxAttempts]
  /\ goal \in [Object -> GoalState]
  /\ asked \in [Object -> {"none", "sent", "granted", "denied"}]
  /\ answer_due \subseteq Object \X Task
  /\ reports \in [Command -> Nat] /\ recoveries \in [Command -> Nat]
  /\ requested \subseteq Task /\ replies \subseteq Task \X Verdict
  /\ stops \in 0..MaxStops /\ operations \in 0..MaxOperations
  /\ born \in [Command -> 0..MaxStops]

\* A finished recovery is retried at most max_blocked_pose_recovery_attempts
\* times, by whichever of the result callback, the stall watch and the
\* operator's recovery starts it (web_bridge_node.py:4126-4186): the base moves
\* by itself only so often for one command.
RecoveriesBounded == \A c \in Command : recoveries[c] <= MaxAttempts

\* robot_operation_active serves two masters (web_bridge_node.py:3305-3310 and
\* 4174-4186): a guarded maneuver never overlaps an operator's operation, and
\* the flag never stays set when neither runs.
OneRobotOperation ==
  /\ ~(recovery # None /\ job["operation"].phase # "idle")
  /\ robot_operation_active <=> (recovery # None \/ job["operation"].phase # "idle")

\* The server hears one result for a command (web_bridge_node.py:5993-6178 and
\* 4321-4507): the retry of a recovery reports for it, the abort that was
\* recovered does not.
OneReport == \A c \in Command : reports[c] <= 1

\* Without stops and operations the executor works on one command at a time, and
\* the handle it keeps is the handle of that command: a cancellation reaches the
\* goal it was asked for (5448-5468, 5702-5837, 6256).
Working == {"starting", "profiling", "smoothing", "submitted", "running"}
OneMission ==
  /\ \A o \in Object : at[o] \in Working => active_command = o
  /\ active_goal_handle # None => active_goal_handle = active_command
  /\ \A o \in Object : goal[o] = "executing" => active_command = o

\* A cancellation told to the server as confirmed is final: no command of the
\* task is worked on again, not even one that waits in the queue or that a
\* recovery is about to queue (4764-4782, 5481-5510).
ConfirmedCancelIsFinal ==
  \A t \in Task : <<t, "confirmed">> \in replies =>
    \A o \in Object : TaskIs(o) = t =>
      /\ at[o] \notin Working /\ goal[o] # "executing"
      /\ (at[o] \in {"admitted", "queued", "taken"} \/ recovery = <<o, "maneuver">>)
           => t \in cancelled_task_ids

\* Every command the agent admitted is answered: with a result, or with the
\* answer to the cancellation of its task.
Answered(c) ==
  reports[c] > 0 \/ \E v \in {"confirmed", "lost"} : <<TaskOf[c], v>> \in replies
EveryCommandAnswered == \A c \in Command : c \in processed_ids ~> Answered(c)

\* Every cancellation is answered, unless the command it was for has a result.
EveryCancelAnswered ==
  \A t \in Task : t \in requested ~>
    \/ \E v \in Verdict : <<t, v>> \in replies
    \/ \E c \in processed_ids : TaskOf[c] = t /\ reports[c] > 0

\* Whatever is active is being worked on: no handler closes a command and leaves
\* it active, which would keep the executor from ever taking another one
\* (5460-5468, 6256-6266).
ActiveIsWorking == active_command # None => at[active_command] \in Working

\* "Emergency Stop reset; previous navigation will not be resumed" (3247-3250,
\* test_emergency_stop.py:129, test_hardware_contract.py:116): once a stop is
\* released, no goal is sent for a command the stop dropped.
ReplayStep ==
  \A o \in Object :
    (at[o] # "submitted" /\ at'[o] = "submitted" /\ ~motion_stop_latched)
      => born[Id(o)] = stops \/ active_command = o
NeverReplaysOldGoal == [][ReplayStep]_vars
=============================================================================
