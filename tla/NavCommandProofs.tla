-------------------------- MODULE NavCommandProofs --------------------------
(***************************************************************************)
(* What NavCommand guarantees for every set of commands and tasks, every   *)
(* number of recoveries, stops and operations, and every interleaving.     *)
(*                                                                         *)
(* An object never goes back (Forward), so a thread that took one still    *)
(* has it; every handler that closes an object clears the active command   *)
(* by id (Active); a recovery starts only for an attempt not yet used      *)
(* (Count).  TypeOK is proved in the parts listed first.                   *)
(***************************************************************************)
EXTENDS NavCommand, TLAPS, FiniteSetTheorems

QueueType ==
  /\ command_queue \in Seq(Object)
  /\ net \in Object \cup {None} /\ ros \in Object \cup {None}
ActivityType ==
  active_command \in Object \cup {None} /\ active_goal_handle \in Object \cup {None}
WorkerType ==
  /\ job \in [Worker -> Job]
  /\ recovery \in {None} \cup (Object \X {"maneuver", "done"})
PlaceType == at \in [Object -> Place]
AttemptType == attempt \in [Object -> 0..MaxAttempts]
Nav2Type ==
  /\ goal \in [Object -> GoalState]
  /\ asked \in [Object -> {"none", "sent", "granted", "denied"}]
  /\ answer_due \subseteq Object \X Task
ServerType ==
  /\ reports \in [Command -> Nat]
  /\ requested \subseteq Task /\ replies \subseteq Task \X Verdict
CountType == recoveries \in [Command -> Nat] /\ attempted \subseteq Command \X Nat
SetsType ==
  /\ pending_ids \subseteq Command /\ processed_ids \subseteq Command
  /\ cancel_queue \subseteq Task /\ pending_cancel_requests \subseteq Task
  /\ cancelled_task_ids \subseteq Task /\ recovery_cancelled \subseteq Command
FlagsType ==
  /\ emergency_stop_latched \in BOOLEAN /\ physical_estop_latched \in BOOLEAN
  /\ stopping \in BOOLEAN /\ robot_operation_active \in BOOLEAN
  /\ stops \in 0..MaxStops /\ operations \in 0..MaxOperations
  /\ born \in [Command -> 0..MaxStops]

\* Every object that exists was admitted, and the queue and the threads hold
\* objects that are where they left them.
Exists == \A o \in Object : at[o] # "absent" => Id(o) \in processed_ids
Queued == \A i \in 1..Len(command_queue) : at[command_queue[i]] \notin {"absent", "admitted"}
NetHolds == net # None => at[net] = "admitted"
RosHolds == ros # None => at[ros] \in {"taken", "starting"}
JobsHold == \A w \in Worker : job[w].cmd # None => at[job[w].cmd] # "absent"
RecoveryHolds == recovery # None => at[recovery[1]] # "absent"
Located == Exists /\ Queued /\ NetHolds /\ RosHolds /\ JobsHold /\ RecoveryHolds

\* A recovery under way is allowed, and counts for one of the attempts.
Allowed == recovery # None /\ recovery[2] = "maneuver" => attempt[recovery[1]] < MaxAttempts
Tries(c) == {n \in 0..(MaxAttempts - 1) : <<c, n>> \in attempted}
Counted == \A c \in Command : recoveries[c] = Cardinality(Tries(c))

\* The inductive invariant.
IInv == TypeOK /\ Located /\ ActiveIsWorking /\ OneRobotOperation /\ Allowed /\ Counted

-----------------------------------------------------------------------------
\* The parts of the invariant.
LEMMA Parts ==
  ASSUME IInv
  PROVE  /\ QueueType /\ ActivityType /\ WorkerType /\ PlaceType /\ AttemptType
         /\ Nav2Type /\ ServerType /\ CountType /\ SetsType /\ FlagsType
         /\ Exists /\ Queued /\ NetHolds /\ RosHolds /\ JobsHold /\ RecoveryHolds
         /\ TypeOK /\ ActiveIsWorking /\ OneRobotOperation /\ Allowed /\ Counted
BY DEF IInv, Located, TypeOK, QueueType, ActivityType, WorkerType, PlaceType,
       AttemptType, Nav2Type, ServerType, CountType, SetsType, FlagsType

\* What the parts of a handler do to the types.
LEMMA ReportType ==
  ASSUME TypeOK, NEW o \in Object, Report(Id(o))
  PROVE  reports' \in [Command -> Nat]
BY DEF TypeOK, Report, Id, Object

LEMMA AskCancelType ==
  ASSUME TypeOK, NEW o \in Object, AskCancel(o)
  PROVE  asked' \in [Object -> {"none", "sent", "granted", "denied"}]
BY DEF TypeOK, AskCancel

LEMMA StartRecoveryType ==
  ASSUME TypeOK, NEW o \in Object, StartRecovery(o)
  PROVE  /\ CountType'
         /\ recovery' \in Object \X {"maneuver", "done"}
         /\ recovery'[1] = o /\ recovery' # None
BY NavAssumption DEF TypeOK, StartRecovery, CountType, Id, Object

\* The queue and what the threads hold are objects.
LEMMA QueueTypeStep == ASSUME IInv, [Next]_vars PROVE QueueType'
<1> QueueType
  BY Parts
<1> USE NavAssumption DEF queues, activity, cancels, latches, recovering, operating,
      objects, nav2, Object, Id, TaskIs, Worker, QueueType
<1>1. ASSUME NEW c \in Command, QueueNavigationCommand(c) PROVE QueueType'
  BY <1>1 DEF QueueNavigationCommand, Admits
<1>2. ASSUME NEW t \in Task, QueueNavigationCancel(t) PROVE QueueType'
  BY <1>2 DEF QueueNavigationCancel
<1>3. CASE HandleRobotOperation
  BY <1>3 DEF HandleRobotOperation
<1>4. CASE Put
  BY <1>4 DEF Put
<1>5. CASE EmergencyStop
  BY <1>5 DEF EmergencyStop, ClearCommandQueue
<1>6. CASE EmergencyStopDrop
  BY <1>6 DEF EmergencyStopDrop, DropActive, AskCancel
<1>7. CASE EmergencyStopReset
  BY <1>7 DEF EmergencyStopReset
<1>8. CASE LatchPhysicalEstop
  BY <1>8 DEF LatchPhysicalEstop, ClearCommandQueue, DropActive, AskCancel
<1>9. CASE ReleasePhysicalEstop
  BY <1>9 DEF ReleasePhysicalEstop
<1>10. ASSUME NEW t \in Task, ProcessCancelQueue(t) PROVE QueueType'
  BY <1>10 DEF ProcessCancelQueue, ConfirmInactive, RefuseMismatch, AwaitNav2,
     RequestGoalCancellation, AskCancel, Reply
<1>11. CASE DiscardQueue
  BY <1>11 DEF DiscardQueue, ClearCommandQueue
<1>12. CASE TakeCommand
  BY <1>12 DEF TakeCommand
<1>13. CASE SkipCancelled
  BY <1>13 DEF SkipCancelled
<1>14. CASE Activate
  BY <1>14 DEF Activate
<1>15. CASE StartCommand
  BY <1>15 DEF StartCommand, Abort, ClearActive, Report
<1>16. ASSUME NEW o \in Object, NavigationProfileCallback(o) PROVE QueueType'
  BY <1>16 DEF NavigationProfileCallback, Abort, ClearActive, Report
<1>17. ASSUME NEW o \in Object, NavigationSmootherProfileCallback(o) PROVE QueueType'
  BY <1>17 DEF NavigationSmootherProfileCallback, Abort, ClearActive, Report
<1>18. ASSUME NEW o \in Object, GoalResponseCallback(o) PROVE QueueType'
  BY <1>18 DEF GoalResponseCallback, GoalRefused, GoalAccepted,
     RequestGoalCancellation, AskCancel, ClearActive, Report, Reply
<1>19. ASSUME NEW o \in Object, NavigationResultCallback(o) PROVE QueueType'
  BY <1>19 DEF NavigationResultCallback, ResultSwallowed, ResultOfCancel,
     ResultRecovers, ResultReported, CanRecover, StartRecovery, ClearActive, Report,
     Reply
<1>20. ASSUME NEW d \in answer_due, CancelResponseCallback(d[1], d[2]) PROVE QueueType'
  BY <1>20 DEF CancelResponseCallback, Reply
<1>21. CASE DriveStall
  BY <1>21 DEF DriveStall
<1>22. CASE RecoveryFails
  BY <1>22 DEF RecoveryFails, Report
<1>23. CASE RecoveryRetries
  BY <1>23 DEF RecoveryRetries, Requeue, Fresh
<1>24. CASE RecoveryDone
  BY <1>24 DEF RecoveryDone
<1>25. ASSUME NEW w \in Worker, CancelForOperation(w) PROVE QueueType'
  BY <1>25 DEF CancelForOperation, AskCancel
<1>26. ASSUME NEW w \in Worker, CancelWaitOver(w) PROVE QueueType'
  BY <1>26 DEF CancelWaitOver, ClearActive
<1>27. CASE OperationResumes
  BY <1>27 DEF OperationResumes, Requeue, Fresh
<1>28. CASE OperationDone
  BY <1>28 DEF OperationDone
<1>29. CASE StallHandsOver
  BY <1>29 DEF StallHandsOver, CanRecover, StartRecovery, ClearActive
<1>30. CASE StallGivesUp
  BY <1>30 DEF StallGivesUp
<1>31. CASE Nav2
  BY <1>31 DEF Nav2, Nav2Answers, Nav2Ends, Nav2AnswersCancel
<1>32. CASE UNCHANGED vars
  BY <1>32 DEF vars
<1> QED BY <1>1, <1>2, <1>3, <1>4, <1>5, <1>6, <1>7, <1>8, <1>9, <1>10, <1>11,
          <1>12, <1>13, <1>14, <1>15, <1>16, <1>17, <1>18, <1>19, <1>20, <1>21,
          <1>22, <1>23, <1>24, <1>25, <1>26, <1>27, <1>28, <1>29, <1>30, <1>31,
          <1>32
     DEF Next, Server, Stops, Executor, RecoveryThread, Workers

\* What is active is an object.
LEMMA ActivityTypeStep == ASSUME IInv, [Next]_vars PROVE ActivityType'
<1> ActivityType /\ QueueType
  BY Parts
<1> USE NavAssumption DEF queues, activity, cancels, latches, recovering, operating,
      objects, nav2, Object, Id, TaskIs, Worker, ActivityType, QueueType
<1>1. CASE Server
  BY <1>1 DEF Server, QueueNavigationCommand, QueueNavigationCancel,
     HandleRobotOperation, Admits
<1>2. CASE Put
  BY <1>2 DEF Put
<1>3. CASE Stops
  BY <1>3 DEF Stops, EmergencyStop, EmergencyStopDrop, EmergencyStopReset,
     LatchPhysicalEstop, ReleasePhysicalEstop, ClearCommandQueue, DropActive,
     AskCancel
<1>4. ASSUME NEW t \in Task, ProcessCancelQueue(t) PROVE ActivityType'
  BY <1>4 DEF ProcessCancelQueue, ConfirmInactive, RefuseMismatch, AwaitNav2,
     RequestGoalCancellation, AskCancel, Reply
<1>5. CASE DiscardQueue
  BY <1>5 DEF DiscardQueue, ClearCommandQueue
<1>6. CASE TakeCommand
  BY <1>6 DEF TakeCommand
<1>7. CASE SkipCancelled
  BY <1>7 DEF SkipCancelled
<1>8. CASE Activate
  BY <1>8 DEF Activate
<1>9. CASE StartCommand
  BY <1>9 DEF StartCommand, Abort, ClearActive, Report
<1>10. ASSUME NEW o \in Object, NavigationProfileCallback(o) PROVE ActivityType'
  BY <1>10 DEF NavigationProfileCallback, Abort, ClearActive, Report
<1>11. ASSUME NEW o \in Object, NavigationSmootherProfileCallback(o) PROVE ActivityType'
  BY <1>11 DEF NavigationSmootherProfileCallback, Abort, ClearActive, Report
<1>12. ASSUME NEW o \in Object, GoalResponseCallback(o) PROVE ActivityType'
  BY <1>12 DEF GoalResponseCallback, GoalRefused, GoalAccepted,
     RequestGoalCancellation, AskCancel, ClearActive, Report, Reply
<1>13. ASSUME NEW o \in Object, NavigationResultCallback(o) PROVE ActivityType'
  BY <1>13 DEF NavigationResultCallback, ResultSwallowed, ResultOfCancel,
     ResultRecovers, ResultReported, CanRecover, StartRecovery, ClearActive, Report,
     Reply
<1>14. ASSUME NEW d \in answer_due, CancelResponseCallback(d[1], d[2]) PROVE ActivityType'
  BY <1>14 DEF CancelResponseCallback, Reply
<1>15. CASE DriveStall
  BY <1>15 DEF DriveStall
<1>16. CASE RecoveryThread
  BY <1>16 DEF RecoveryThread, RecoveryFails, RecoveryRetries, RecoveryDone, Report,
     Requeue, Fresh
<1>17. CASE Workers
  BY <1>17 DEF Workers, CancelForOperation, CancelWaitOver, OperationResumes,
     OperationDone, StallHandsOver, StallGivesUp, AskCancel, ClearActive, Requeue,
     Fresh, CanRecover, StartRecovery
<1>18. CASE Nav2
  BY <1>18 DEF Nav2, Nav2Answers, Nav2Ends, Nav2AnswersCancel
<1>19. CASE UNCHANGED vars
  BY <1>19 DEF vars
<1> QED BY <1>1, <1>2, <1>3, <1>4, <1>5, <1>6, <1>7, <1>8, <1>9, <1>10, <1>11,
          <1>12, <1>13, <1>14, <1>15, <1>16, <1>17, <1>18, <1>19
     DEF Next, Executor

\* Every object has a place.
LEMMA PlaceTypeStep == ASSUME IInv, [Next]_vars PROVE PlaceType'
<1> PlaceType /\ QueueType
  BY Parts
<1> USE NavAssumption DEF queues, activity, cancels, latches, recovering, operating,
      objects, nav2, Object, Id, TaskIs, Worker, PlaceType, QueueType, Place
<1>1. CASE Server
  BY <1>1 DEF Server, QueueNavigationCommand, QueueNavigationCancel,
     HandleRobotOperation, Admits
<1>2. CASE Put
  BY <1>2 DEF Put
<1>3. CASE Stops
  BY <1>3 DEF Stops, EmergencyStop, EmergencyStopDrop, EmergencyStopReset,
     LatchPhysicalEstop, ReleasePhysicalEstop, ClearCommandQueue, DropActive,
     AskCancel
<1>4. ASSUME NEW t \in Task, ProcessCancelQueue(t) PROVE PlaceType'
  BY <1>4 DEF ProcessCancelQueue, ConfirmInactive, RefuseMismatch, AwaitNav2,
     RequestGoalCancellation, AskCancel, Reply
<1>5. CASE DiscardQueue
  BY <1>5 DEF DiscardQueue, ClearCommandQueue
<1>6. CASE TakeCommand
  BY <1>6 DEF TakeCommand
<1>7. CASE SkipCancelled
  BY <1>7 DEF SkipCancelled
<1>8. CASE Activate
  BY <1>8 DEF Activate
<1>9. CASE StartCommand
  BY <1>9 DEF StartCommand, Abort, ClearActive, Report
<1>10. ASSUME NEW o \in Object, NavigationProfileCallback(o) PROVE PlaceType'
  BY <1>10 DEF NavigationProfileCallback, Abort, ClearActive, Report
<1>11. ASSUME NEW o \in Object, NavigationSmootherProfileCallback(o) PROVE PlaceType'
  BY <1>11 DEF NavigationSmootherProfileCallback, Abort, ClearActive, Report
<1>12. ASSUME NEW o \in Object, GoalResponseCallback(o) PROVE PlaceType'
  BY <1>12 DEF GoalResponseCallback, GoalRefused, GoalAccepted,
     RequestGoalCancellation, AskCancel, ClearActive, Report, Reply
<1>13. ASSUME NEW o \in Object, NavigationResultCallback(o) PROVE PlaceType'
  BY <1>13 DEF NavigationResultCallback, ResultSwallowed, ResultOfCancel,
     ResultRecovers, ResultReported, CanRecover, StartRecovery, ClearActive, Report,
     Reply
<1>14. ASSUME NEW d \in answer_due, CancelResponseCallback(d[1], d[2]) PROVE PlaceType'
  BY <1>14 DEF CancelResponseCallback, Reply
<1>15. CASE DriveStall
  BY <1>15 DEF DriveStall
<1>16. CASE RecoveryThread
  BY <1>16 DEF RecoveryThread, RecoveryFails, RecoveryRetries, RecoveryDone, Report,
     Requeue, Fresh
<1>17. CASE Workers
  BY <1>17 DEF Workers, CancelForOperation, CancelWaitOver, OperationResumes,
     OperationDone, StallHandsOver, StallGivesUp, AskCancel, ClearActive, Requeue,
     Fresh, CanRecover, StartRecovery
<1>18. CASE Nav2
  BY <1>18 DEF Nav2, Nav2Answers, Nav2Ends, Nav2AnswersCancel
<1>19. CASE UNCHANGED vars
  BY <1>19 DEF vars
<1> QED BY <1>1, <1>2, <1>3, <1>4, <1>5, <1>6, <1>7, <1>8, <1>9, <1>10, <1>11,
          <1>12, <1>13, <1>14, <1>15, <1>16, <1>17, <1>18, <1>19
     DEF Next, Executor

\* A retry is an attempt that is still allowed.
LEMMA AttemptTypeStep == ASSUME IInv, [Next]_vars PROVE AttemptType'
<1> AttemptType /\ WorkerType /\ PlaceType /\ Allowed /\ RecoveryHolds
  BY Parts
<1> USE NavAssumption DEF queues, activity, cancels, latches, recovering, operating,
      objects, nav2, Object, Id, TaskIs, Worker, AttemptType, WorkerType, PlaceType,
      Allowed, RecoveryHolds
<1>1. CASE Server
  BY <1>1 DEF Server, QueueNavigationCommand, QueueNavigationCancel,
     HandleRobotOperation, Admits
<1>2. CASE Put
  BY <1>2 DEF Put
<1>3. CASE Stops
  BY <1>3 DEF Stops, EmergencyStop, EmergencyStopDrop, EmergencyStopReset,
     LatchPhysicalEstop, ReleasePhysicalEstop, ClearCommandQueue, DropActive,
     AskCancel
<1>4. CASE Executor
  BY <1>4 DEF Executor, ProcessCancelQueue, DiscardQueue, TakeCommand,
     SkipCancelled, Activate, StartCommand, NavigationProfileCallback,
     NavigationSmootherProfileCallback, GoalResponseCallback,
     NavigationResultCallback, CancelResponseCallback, ConfirmInactive,
     RefuseMismatch, AwaitNav2, RequestGoalCancellation, AskCancel, Reply,
     ClearCommandQueue, Abort, ClearActive, Report, GoalRefused, GoalAccepted,
     ResultSwallowed, ResultOfCancel, ResultRecovers, ResultReported, CanRecover,
     StartRecovery
<1>5. CASE DriveStall
  BY <1>5 DEF DriveStall
<1>6. CASE RecoveryFails
  BY <1>6 DEF RecoveryFails, Report
<1>7. CASE RecoveryRetries
  BY <1>7 DEF RecoveryRetries, Requeue, Fresh
<1>8. CASE RecoveryDone
  BY <1>8 DEF RecoveryDone
<1>9. ASSUME NEW w \in Worker, CancelForOperation(w) PROVE AttemptType'
  BY <1>9 DEF CancelForOperation, AskCancel
<1>10. ASSUME NEW w \in Worker, CancelWaitOver(w) PROVE AttemptType'
  BY <1>10 DEF CancelWaitOver, ClearActive
<1>11. CASE OperationResumes
  <2>1. PICK copy \in Fresh(Id(job["operation"].cmd)) :
          attempt' = [attempt EXCEPT ![copy] = attempt[job["operation"].cmd]]
    BY <1>11 DEF OperationResumes, Requeue
  <2>2. copy \in Object /\ job["operation"].cmd \in Object
    BY <1>11, "operation" \in Worker DEF OperationResumes, Fresh, Job
  <2> QED BY <2>1, <2>2
<1>12. CASE OperationDone
  BY <1>12 DEF OperationDone
<1>13. CASE StallHandsOver
  BY <1>13 DEF StallHandsOver, CanRecover, StartRecovery, ClearActive
<1>14. CASE StallGivesUp
  BY <1>14 DEF StallGivesUp
<1>15. CASE Nav2
  BY <1>15 DEF Nav2, Nav2Answers, Nav2Ends, Nav2AnswersCancel
<1>16. CASE UNCHANGED vars
  BY <1>16 DEF vars
<1> QED BY <1>1, <1>2, <1>3, <1>4, <1>5, <1>6, <1>7, <1>8, <1>9, <1>10, <1>11,
          <1>12, <1>13, <1>14, <1>15, <1>16
     DEF Next, RecoveryThread, Workers

\* The sets of ids stay sets of ids.
LEMMA SetsTypeStep == ASSUME IInv, [Next]_vars PROVE SetsType'
<1> SetsType /\ ActivityType /\ QueueType
  BY Parts
<1> USE NavAssumption DEF queues, activity, cancels, latches, recovering, operating,
      objects, nav2, Object, Id, TaskIs, Worker, SetsType, ActivityType, QueueType
<1>1. ASSUME NEW c \in Command, QueueNavigationCommand(c) PROVE SetsType'
  BY <1>1 DEF QueueNavigationCommand, Admits
<1>2. ASSUME NEW t \in Task, QueueNavigationCancel(t) PROVE SetsType'
  BY <1>2 DEF QueueNavigationCancel
<1>3. CASE HandleRobotOperation
  BY <1>3 DEF HandleRobotOperation
<1>4. CASE Put
  BY <1>4 DEF Put
<1>5. CASE Stops
  BY <1>5 DEF Stops, EmergencyStop, EmergencyStopDrop, EmergencyStopReset,
     LatchPhysicalEstop, ReleasePhysicalEstop, ClearCommandQueue, DropActive,
     AskCancel
<1>6. ASSUME NEW t \in Task, ProcessCancelQueue(t) PROVE SetsType'
  BY <1>6 DEF ProcessCancelQueue, ConfirmInactive, RefuseMismatch, AwaitNav2,
     RequestGoalCancellation, AskCancel, Reply
<1>7. CASE DiscardQueue
  BY <1>7 DEF DiscardQueue, ClearCommandQueue
<1>8. CASE TakeCommand
  BY <1>8 DEF TakeCommand
<1>9. CASE SkipCancelled
  BY <1>9 DEF SkipCancelled
<1>10. CASE Activate
  BY <1>10 DEF Activate
<1>11. CASE StartCommand
  BY <1>11 DEF StartCommand, Abort, ClearActive, Report
<1>12. ASSUME NEW o \in Object, NavigationProfileCallback(o) PROVE SetsType'
  BY <1>12 DEF NavigationProfileCallback, Abort, ClearActive, Report
<1>13. ASSUME NEW o \in Object, NavigationSmootherProfileCallback(o) PROVE SetsType'
  BY <1>13 DEF NavigationSmootherProfileCallback, Abort, ClearActive, Report
<1>14. ASSUME NEW o \in Object, GoalResponseCallback(o) PROVE SetsType'
  BY <1>14 DEF GoalResponseCallback, GoalRefused, GoalAccepted,
     RequestGoalCancellation, AskCancel, ClearActive, Report, Reply
<1>15. ASSUME NEW o \in Object, NavigationResultCallback(o) PROVE SetsType'
  BY <1>15 DEF NavigationResultCallback, ResultSwallowed, ResultOfCancel,
     ResultRecovers, ResultReported, CanRecover, StartRecovery, ClearActive, Report,
     Reply
<1>16. ASSUME NEW d \in answer_due, CancelResponseCallback(d[1], d[2]) PROVE SetsType'
  BY <1>16 DEF CancelResponseCallback, Reply
<1>17. CASE DriveStall
  BY <1>17 DEF DriveStall
<1>18. CASE RecoveryThread
  BY <1>18 DEF RecoveryThread, RecoveryFails, RecoveryRetries, RecoveryDone, Report,
     Requeue, Fresh
<1>19. CASE Workers
  BY <1>19 DEF Workers, CancelForOperation, CancelWaitOver, OperationResumes,
     OperationDone, StallHandsOver, StallGivesUp, AskCancel, ClearActive, Requeue,
     Fresh, CanRecover, StartRecovery
<1>20. CASE Nav2
  BY <1>20 DEF Nav2, Nav2Answers, Nav2Ends, Nav2AnswersCancel
<1>21. CASE UNCHANGED vars
  BY <1>21 DEF vars
<1> QED BY <1>1, <1>2, <1>3, <1>4, <1>5, <1>6, <1>7, <1>8, <1>9, <1>10, <1>11,
          <1>12, <1>13, <1>14, <1>15, <1>16, <1>17, <1>18, <1>19, <1>20, <1>21
     DEF Next, Server, Executor

\* The latches and the counters keep their types.
LEMMA FlagsTypeStep == ASSUME IInv, [Next]_vars PROVE FlagsType'
<1> FlagsType
  BY Parts
<1> USE NavAssumption DEF queues, activity, cancels, latches, recovering, operating,
      objects, nav2, Object, Id, TaskIs, Worker, FlagsType
<1>1. ASSUME NEW c \in Command, QueueNavigationCommand(c) PROVE FlagsType'
  BY <1>1 DEF QueueNavigationCommand, Admits
<1>2. ASSUME NEW t \in Task, QueueNavigationCancel(t) PROVE FlagsType'
  BY <1>2 DEF QueueNavigationCancel
<1>3. CASE HandleRobotOperation
  <2>1. operations' \in 0..MaxOperations
    BY <1>3 DEF HandleRobotOperation
  <2> QED BY <1>3, <2>1 DEF HandleRobotOperation
<1>4. CASE Put
  BY <1>4 DEF Put
<1>5. CASE EmergencyStop
  BY <1>5 DEF EmergencyStop, ClearCommandQueue
<1>6. CASE EmergencyStopDrop
  BY <1>6 DEF EmergencyStopDrop, DropActive, AskCancel
<1>7. CASE EmergencyStopReset
  BY <1>7 DEF EmergencyStopReset
<1>8. CASE LatchPhysicalEstop
  BY <1>8 DEF LatchPhysicalEstop, ClearCommandQueue, DropActive, AskCancel
<1>9. CASE ReleasePhysicalEstop
  BY <1>9 DEF ReleasePhysicalEstop
<1>10. ASSUME NEW t \in Task, ProcessCancelQueue(t) PROVE FlagsType'
  BY <1>10 DEF ProcessCancelQueue, ConfirmInactive, RefuseMismatch, AwaitNav2,
     RequestGoalCancellation, AskCancel, Reply
<1>11. CASE DiscardQueue
  BY <1>11 DEF DiscardQueue, ClearCommandQueue
<1>12. CASE TakeCommand
  BY <1>12 DEF TakeCommand
<1>13. CASE SkipCancelled
  BY <1>13 DEF SkipCancelled
<1>14. CASE Activate
  BY <1>14 DEF Activate
<1>15. CASE StartCommand
  BY <1>15 DEF StartCommand, Abort, ClearActive, Report
<1>16. ASSUME NEW o \in Object, NavigationProfileCallback(o) PROVE FlagsType'
  BY <1>16 DEF NavigationProfileCallback, Abort, ClearActive, Report
<1>17. ASSUME NEW o \in Object, NavigationSmootherProfileCallback(o) PROVE FlagsType'
  BY <1>17 DEF NavigationSmootherProfileCallback, Abort, ClearActive, Report
<1>18. ASSUME NEW o \in Object, GoalResponseCallback(o) PROVE FlagsType'
  BY <1>18 DEF GoalResponseCallback, GoalRefused, GoalAccepted,
     RequestGoalCancellation, AskCancel, ClearActive, Report, Reply
<1>19. ASSUME NEW o \in Object, NavigationResultCallback(o) PROVE FlagsType'
  BY <1>19 DEF NavigationResultCallback, ResultSwallowed, ResultOfCancel,
     ResultRecovers, ResultReported, CanRecover, StartRecovery, ClearActive, Report,
     Reply
<1>20. ASSUME NEW d \in answer_due, CancelResponseCallback(d[1], d[2]) PROVE FlagsType'
  BY <1>20 DEF CancelResponseCallback, Reply
<1>21. CASE DriveStall
  BY <1>21 DEF DriveStall
<1>22. CASE RecoveryThread
  BY <1>22 DEF RecoveryThread, RecoveryFails, RecoveryRetries, RecoveryDone, Report,
     Requeue, Fresh
<1>23. CASE Workers
  BY <1>23 DEF Workers, CancelForOperation, CancelWaitOver, OperationResumes,
     OperationDone, StallHandsOver, StallGivesUp, AskCancel, ClearActive, Requeue,
     Fresh, CanRecover, StartRecovery
<1>24. CASE Nav2
  BY <1>24 DEF Nav2, Nav2Answers, Nav2Ends, Nav2AnswersCancel
<1>25. CASE UNCHANGED vars
  BY <1>25 DEF vars
<1> QED BY <1>1, <1>2, <1>3, <1>4, <1>5, <1>6, <1>7, <1>8, <1>9, <1>10, <1>11,
          <1>12, <1>13, <1>14, <1>15, <1>16, <1>17, <1>18, <1>19, <1>20, <1>21,
          <1>22, <1>23, <1>24, <1>25
     DEF Next, Server, Stops, Executor

\* What Nav2 keeps of each goal.
LEMMA Nav2TypeStep == ASSUME IInv, [Next]_vars PROVE Nav2Type'
<1> TypeOK /\ Nav2Type /\ ActivityType
  BY Parts
<1> USE NavAssumption DEF queues, activity, cancels, latches, recovering, operating,
      objects, nav2, Object, Id, TaskIs, Worker, Nav2Type, ActivityType, GoalState,
      Ended
<1>1. CASE Server
  BY <1>1 DEF Server, QueueNavigationCommand, QueueNavigationCancel,
     HandleRobotOperation, Admits
<1>2. CASE Put
  BY <1>2 DEF Put
<1>3. CASE Stops
  BY <1>3 DEF Stops, EmergencyStop, EmergencyStopDrop, EmergencyStopReset,
     LatchPhysicalEstop, ReleasePhysicalEstop, ClearCommandQueue, DropActive,
     AskCancel
<1>4. ASSUME NEW t \in Task, ProcessCancelQueue(t) PROVE Nav2Type'
  <2>1. goal' = goal
    BY <1>4 DEF ProcessCancelQueue
  <2>2. \/ UNCHANGED <<asked, answer_due>>
        \/ \E p \in Object, s \in Task :
             AskCancel(p) /\ answer_due' = answer_due \cup {<<p, s>>}
    BY <1>4 DEF ProcessCancelQueue, ConfirmInactive, RefuseMismatch, AwaitNav2,
              RequestGoalCancellation
  <2>3. asked' \in [Object -> {"none", "sent", "granted", "denied"}]
    BY <2>2, AskCancelType
  <2>4. answer_due' \subseteq Object \X Task
    BY <2>2
  <2> QED BY <2>1, <2>3, <2>4
<1>5. CASE DiscardQueue
  BY <1>5 DEF DiscardQueue, ClearCommandQueue
<1>6. CASE TakeCommand
  BY <1>6 DEF TakeCommand
<1>7. CASE SkipCancelled
  BY <1>7 DEF SkipCancelled
<1>8. CASE Activate
  BY <1>8 DEF Activate
<1>9. CASE StartCommand
  BY <1>9 DEF StartCommand, Abort, ClearActive, Report
<1>10. ASSUME NEW o \in Object, NavigationProfileCallback(o) PROVE Nav2Type'
  BY <1>10 DEF NavigationProfileCallback, Abort, ClearActive, Report
<1>11. ASSUME NEW o \in Object, NavigationSmootherProfileCallback(o) PROVE Nav2Type'
  BY <1>11 DEF NavigationSmootherProfileCallback, Abort, ClearActive, Report
<1>12. ASSUME NEW o \in Object, GoalResponseCallback(o) PROVE Nav2Type'
  <2>1. goal' = goal
    BY <1>12 DEF GoalResponseCallback
  <2>2. \/ UNCHANGED <<asked, answer_due>>
        \/ \E p \in Object, s \in Task :
             AskCancel(p) /\ answer_due' = answer_due \cup {<<p, s>>}
    BY <1>12 DEF GoalResponseCallback, GoalRefused, GoalAccepted, RequestGoalCancellation
  <2>3. asked' \in [Object -> {"none", "sent", "granted", "denied"}]
    BY <2>2, AskCancelType
  <2>4. answer_due' \subseteq Object \X Task
    BY <2>2
  <2> QED BY <2>1, <2>3, <2>4
<1>13. ASSUME NEW o \in Object, NavigationResultCallback(o) PROVE Nav2Type'
  BY <1>13 DEF NavigationResultCallback, ResultSwallowed, ResultOfCancel,
     ResultRecovers, ResultReported, CanRecover, StartRecovery, ClearActive, Report,
     Reply
<1>14. ASSUME NEW d \in answer_due, CancelResponseCallback(d[1], d[2]) PROVE Nav2Type'
  BY <1>14 DEF CancelResponseCallback, Reply
<1>15. CASE DriveStall
  BY <1>15 DEF DriveStall
<1>16. CASE RecoveryThread
  BY <1>16 DEF RecoveryThread, RecoveryFails, RecoveryRetries, RecoveryDone, Report,
     Requeue, Fresh
<1>17. ASSUME NEW w \in Worker, CancelForOperation(w) PROVE Nav2Type'
  BY <1>17 DEF CancelForOperation, AskCancel
<1>18. ASSUME NEW w \in Worker, CancelWaitOver(w) PROVE Nav2Type'
  BY <1>18 DEF CancelWaitOver, ClearActive
<1>19. CASE OperationResumes
  BY <1>19 DEF OperationResumes, Requeue, Fresh
<1>20. CASE OperationDone
  BY <1>20 DEF OperationDone
<1>21. CASE StallHandsOver
  BY <1>21 DEF StallHandsOver, CanRecover, StartRecovery, ClearActive
<1>22. CASE StallGivesUp
  BY <1>22 DEF StallGivesUp
<1>23. ASSUME NEW o \in Object, Nav2Answers(o) PROVE Nav2Type'
  <2>1. UNCHANGED <<asked, answer_due>>
    BY <1>23 DEF Nav2Answers
  <2>2. CASE goal' = [goal EXCEPT ![o] = "rejected"]
    BY <2>1, <2>2
  <2>3. CASE goal' = [p \in Object |-> IF p = o THEN "executing"
                                       ELSE IF goal[p] = "executing" THEN "aborted"
                                       ELSE goal[p]]
    BY <2>1, <2>3
  <2> QED BY <1>23, <2>2, <2>3 DEF Nav2Answers
<1>24. ASSUME NEW o \in Object, Nav2Ends(o) PROVE Nav2Type'
  BY <1>24 DEF Nav2Ends
<1>25. ASSUME NEW o \in Object, Nav2AnswersCancel(o) PROVE Nav2Type'
  BY <1>25 DEF Nav2AnswersCancel
<1>26. CASE UNCHANGED vars
  BY <1>26 DEF vars
<1> QED BY <1>1, <1>2, <1>3, <1>4, <1>5, <1>6, <1>7, <1>8, <1>9, <1>10, <1>11,
          <1>12, <1>13, <1>14, <1>15, <1>16, <1>17, <1>18, <1>19, <1>20, <1>21,
          <1>22, <1>23, <1>24, <1>25, <1>26
     DEF Next, Executor, Workers, Nav2

\* What the server has seen.
LEMMA ServerTypeStep == ASSUME IInv, [Next]_vars PROVE ServerType'
<1> TypeOK /\ ServerType /\ SetsType /\ QueueType /\ WorkerType /\ Nav2Type
  BY Parts
<1> USE NavAssumption DEF queues, activity, cancels, latches, recovering, operating,
      objects, nav2, Object, Id, TaskIs, Worker, ServerType, SetsType, QueueType,
      WorkerType, Nav2Type, Verdict
<1>1. CASE Server
  BY <1>1 DEF Server, QueueNavigationCommand, QueueNavigationCancel,
     HandleRobotOperation, Admits
<1>2. CASE Put
  BY <1>2 DEF Put
<1>3. CASE Stops
  BY <1>3 DEF Stops, EmergencyStop, EmergencyStopDrop, EmergencyStopReset,
     LatchPhysicalEstop, ReleasePhysicalEstop, ClearCommandQueue, DropActive,
     AskCancel
<1>4. ASSUME NEW t \in Task, ProcessCancelQueue(t) PROVE ServerType'
  BY <1>4 DEF ProcessCancelQueue, ConfirmInactive, RefuseMismatch, AwaitNav2,
     RequestGoalCancellation, AskCancel, Reply
<1>5. CASE DiscardQueue
  BY <1>5 DEF DiscardQueue, ClearCommandQueue
<1>6. CASE TakeCommand
  BY <1>6 DEF TakeCommand
<1>7. CASE SkipCancelled
  BY <1>7 DEF SkipCancelled
<1>8. CASE Activate
  BY <1>8 DEF Activate
<1>9. CASE StartCommand
  <2>1. UNCHANGED <<requested, replies>>
    BY <1>9 DEF StartCommand
  <2>2. UNCHANGED reports \/ (ros \in Object /\ Report(Id(ros)))
    BY <1>9 DEF StartCommand, Abort
  <2> QED BY <2>1, <2>2, ReportType
<1>10. ASSUME NEW o \in Object, NavigationProfileCallback(o) PROVE ServerType'
  <2>1. UNCHANGED <<requested, replies>>
    BY <1>10 DEF NavigationProfileCallback
  <2>2. UNCHANGED reports \/ (o \in Object /\ Report(Id(o)))
    BY <1>10 DEF NavigationProfileCallback, Abort
  <2> QED BY <2>1, <2>2, ReportType
<1>11. ASSUME NEW o \in Object, NavigationSmootherProfileCallback(o) PROVE ServerType'
  <2>1. UNCHANGED <<requested, replies>>
    BY <1>11 DEF NavigationSmootherProfileCallback
  <2>2. UNCHANGED reports \/ (o \in Object /\ Report(Id(o)))
    BY <1>11 DEF NavigationSmootherProfileCallback, Abort
  <2> QED BY <2>1, <2>2, ReportType
<1>12. ASSUME NEW o \in Object, GoalResponseCallback(o) PROVE ServerType'
  <2>1. UNCHANGED requested /\ (UNCHANGED reports \/ Report(Id(o)))
    BY <1>12 DEF GoalResponseCallback, GoalRefused, GoalAccepted
  <2>2. UNCHANGED replies \/ replies' = replies \cup {<<TaskIs(o), "confirmed">>}
    BY <1>12 DEF GoalResponseCallback, GoalRefused, GoalAccepted, Reply
  <2>3. TaskIs(o) \in Task
    OBVIOUS
  <2>4. replies' \subseteq Task \X Verdict
    BY <2>2, <2>3
  <2>5. reports' \in [Command -> Nat]
    BY <2>1, ReportType
  <2> QED BY <2>1, <2>4, <2>5
<1>13. ASSUME NEW o \in Object, NavigationResultCallback(o) PROVE ServerType'
  <2>1. UNCHANGED requested /\ (UNCHANGED reports \/ Report(Id(o)))
    BY <1>13 DEF NavigationResultCallback, ResultSwallowed, ResultOfCancel, ResultRecovers,
              ResultReported
  <2>2. replies' \subseteq replies \cup ({TaskIs(o)} \X Verdict)
    BY <1>13 DEF NavigationResultCallback, ResultSwallowed, ResultOfCancel, ResultRecovers,
              ResultReported, Reply
  <2>3. TaskIs(o) \in Task
    OBVIOUS
  <2>4. replies' \subseteq Task \X Verdict
    BY <2>2, <2>3
  <2>5. reports' \in [Command -> Nat]
    BY <2>1, ReportType
  <2> QED BY <2>1, <2>4, <2>5
<1>14. ASSUME NEW d \in answer_due, CancelResponseCallback(d[1], d[2]) PROVE ServerType'
  BY <1>14 DEF CancelResponseCallback, Reply
<1>15. CASE DriveStall
  BY <1>15 DEF DriveStall
<1>16. CASE RecoveryFails
  BY <1>16 DEF RecoveryFails, Report
<1>17. CASE RecoveryRetries
  BY <1>17 DEF RecoveryRetries, Requeue, Fresh
<1>18. CASE RecoveryDone
  BY <1>18 DEF RecoveryDone
<1>19. CASE Workers
  BY <1>19 DEF Workers, CancelForOperation, CancelWaitOver, OperationResumes,
     OperationDone, StallHandsOver, StallGivesUp, AskCancel, ClearActive, Requeue,
     Fresh, CanRecover, StartRecovery
<1>20. CASE Nav2
  BY <1>20 DEF Nav2, Nav2Answers, Nav2Ends, Nav2AnswersCancel
<1>21. CASE UNCHANGED vars
  BY <1>21 DEF vars
<1> QED BY <1>1, <1>2, <1>3, <1>4, <1>5, <1>6, <1>7, <1>8, <1>9, <1>10, <1>11,
          <1>12, <1>13, <1>14, <1>15, <1>16, <1>17, <1>18, <1>19, <1>20, <1>21
     DEF Next, Executor, RecoveryThread

\* The attempts and their count.
LEMMA CountTypeStep == ASSUME IInv, [Next]_vars PROVE CountType'
<1> TypeOK /\ CountType /\ WorkerType
  BY Parts
<1> USE NavAssumption DEF queues, activity, cancels, latches, recovering, operating,
      objects, nav2, Object, Id, TaskIs, Worker, CountType, WorkerType
<1>1. CASE Server
  BY <1>1 DEF Server, QueueNavigationCommand, QueueNavigationCancel,
     HandleRobotOperation, Admits
<1>2. CASE Put
  BY <1>2 DEF Put
<1>3. CASE Stops
  BY <1>3 DEF Stops, EmergencyStop, EmergencyStopDrop, EmergencyStopReset,
     LatchPhysicalEstop, ReleasePhysicalEstop, ClearCommandQueue, DropActive,
     AskCancel
<1>4. ASSUME NEW t \in Task, ProcessCancelQueue(t) PROVE CountType'
  BY <1>4 DEF ProcessCancelQueue, ConfirmInactive, RefuseMismatch, AwaitNav2,
     RequestGoalCancellation, AskCancel, Reply
<1>5. CASE DiscardQueue
  BY <1>5 DEF DiscardQueue, ClearCommandQueue
<1>6. CASE TakeCommand
  BY <1>6 DEF TakeCommand
<1>7. CASE SkipCancelled
  BY <1>7 DEF SkipCancelled
<1>8. CASE Activate
  BY <1>8 DEF Activate
<1>9. CASE StartCommand
  BY <1>9 DEF StartCommand, Abort, ClearActive, Report
<1>10. ASSUME NEW o \in Object, NavigationProfileCallback(o) PROVE CountType'
  BY <1>10 DEF NavigationProfileCallback, Abort, ClearActive, Report
<1>11. ASSUME NEW o \in Object, NavigationSmootherProfileCallback(o) PROVE CountType'
  BY <1>11 DEF NavigationSmootherProfileCallback, Abort, ClearActive, Report
<1>12. ASSUME NEW o \in Object, GoalResponseCallback(o) PROVE CountType'
  BY <1>12 DEF GoalResponseCallback, GoalRefused, GoalAccepted,
     RequestGoalCancellation, AskCancel, ClearActive, Report, Reply
<1>13. ASSUME NEW o \in Object, NavigationResultCallback(o) PROVE CountType'
  <2>1. UNCHANGED <<attempted, recoveries>> \/ StartRecovery(o)
    BY <1>13 DEF NavigationResultCallback, ResultSwallowed, ResultOfCancel, ResultRecovers,
              ResultReported
  <2> QED BY <2>1, StartRecoveryType
<1>14. ASSUME NEW d \in answer_due, CancelResponseCallback(d[1], d[2]) PROVE CountType'
  BY <1>14 DEF CancelResponseCallback, Reply
<1>15. CASE DriveStall
  BY <1>15 DEF DriveStall
<1>16. CASE RecoveryThread
  BY <1>16 DEF RecoveryThread, RecoveryFails, RecoveryRetries, RecoveryDone, Report,
     Requeue, Fresh
<1>17. ASSUME NEW w \in Worker, CancelForOperation(w) PROVE CountType'
  BY <1>17 DEF CancelForOperation, AskCancel
<1>18. ASSUME NEW w \in Worker, CancelWaitOver(w) PROVE CountType'
  BY <1>18 DEF CancelWaitOver, ClearActive
<1>19. CASE OperationResumes
  BY <1>19 DEF OperationResumes, Requeue, Fresh
<1>20. CASE OperationDone
  BY <1>20 DEF OperationDone
<1>21. CASE StallHandsOver
  <2>1. StartRecovery(job["stall"].cmd) /\ job["stall"].cmd \in Object
    BY <1>21, "stall" \in Worker DEF StallHandsOver, Job
  <2> QED BY <2>1, StartRecoveryType
<1>22. CASE StallGivesUp
  BY <1>22 DEF StallGivesUp
<1>23. CASE Nav2
  BY <1>23 DEF Nav2, Nav2Answers, Nav2Ends, Nav2AnswersCancel
<1>24. CASE UNCHANGED vars
  BY <1>24 DEF vars
<1> QED BY <1>1, <1>2, <1>3, <1>4, <1>5, <1>6, <1>7, <1>8, <1>9, <1>10, <1>11,
          <1>12, <1>13, <1>14, <1>15, <1>16, <1>17, <1>18, <1>19, <1>20, <1>21,
          <1>22, <1>23, <1>24
     DEF Next, Executor, Workers

\* The workers and the recovery thread hold objects.
LEMMA WorkerTypeStep == ASSUME IInv, [Next]_vars PROVE WorkerType'
<1> TypeOK /\ WorkerType /\ ActivityType
  BY Parts
<1> USE NavAssumption DEF queues, activity, cancels, latches, recovering, operating,
      objects, nav2, Object, Id, TaskIs, Worker, WorkerType, ActivityType, Job, Idle
<1>1. ASSUME NEW c \in Command, QueueNavigationCommand(c) PROVE WorkerType'
  BY <1>1 DEF QueueNavigationCommand, Admits
<1>2. ASSUME NEW t \in Task, QueueNavigationCancel(t) PROVE WorkerType'
  BY <1>2 DEF QueueNavigationCancel
<1>3. CASE HandleRobotOperation
  BY <1>3 DEF HandleRobotOperation
<1>4. CASE Put
  BY <1>4 DEF Put
<1>5. CASE Stops
  BY <1>5 DEF Stops, EmergencyStop, EmergencyStopDrop, EmergencyStopReset,
     LatchPhysicalEstop, ReleasePhysicalEstop, ClearCommandQueue, DropActive,
     AskCancel
<1>6. ASSUME NEW t \in Task, ProcessCancelQueue(t) PROVE WorkerType'
  BY <1>6 DEF ProcessCancelQueue, ConfirmInactive, RefuseMismatch, AwaitNav2,
     RequestGoalCancellation, AskCancel, Reply
<1>7. CASE DiscardQueue
  BY <1>7 DEF DiscardQueue, ClearCommandQueue
<1>8. CASE TakeCommand
  BY <1>8 DEF TakeCommand
<1>9. CASE SkipCancelled
  BY <1>9 DEF SkipCancelled
<1>10. CASE Activate
  BY <1>10 DEF Activate
<1>11. CASE StartCommand
  BY <1>11 DEF StartCommand, Abort, ClearActive, Report
<1>12. ASSUME NEW o \in Object, NavigationProfileCallback(o) PROVE WorkerType'
  BY <1>12 DEF NavigationProfileCallback, Abort, ClearActive, Report
<1>13. ASSUME NEW o \in Object, NavigationSmootherProfileCallback(o) PROVE WorkerType'
  BY <1>13 DEF NavigationSmootherProfileCallback, Abort, ClearActive, Report
<1>14. ASSUME NEW o \in Object, GoalResponseCallback(o) PROVE WorkerType'
  BY <1>14 DEF GoalResponseCallback, GoalRefused, GoalAccepted,
     RequestGoalCancellation, AskCancel, ClearActive, Report, Reply
<1>15. ASSUME NEW o \in Object, NavigationResultCallback(o) PROVE WorkerType'
  BY <1>15 DEF NavigationResultCallback, ResultSwallowed, ResultOfCancel,
     ResultRecovers, ResultReported, CanRecover, StartRecovery, ClearActive, Report,
     Reply
<1>16. ASSUME NEW d \in answer_due, CancelResponseCallback(d[1], d[2]) PROVE WorkerType'
  BY <1>16 DEF CancelResponseCallback, Reply
<1>17. CASE DriveStall
  BY <1>17 DEF DriveStall
<1>18. CASE RecoveryThread
  BY <1>18 DEF RecoveryThread, RecoveryFails, RecoveryRetries, RecoveryDone, Report,
     Requeue, Fresh
<1>19. ASSUME NEW w \in Worker, CancelForOperation(w) PROVE WorkerType'
  <2> DEFINE begun == active_command # None /\ at[active_command] \in {"submitted", "running"}
  <2>1. /\ job' = [job EXCEPT ![w] = [job[w] EXCEPT !.phase = "wait", !.cmd = active_command,
                                                     !.started = begun]]
        /\ UNCHANGED recovery
    BY <1>19 DEF CancelForOperation
  <2>2. [job[w] EXCEPT !.phase = "wait", !.cmd = active_command, !.started = begun] \in Job
    BY job[w] \in Job DEF Job
  <2> QED BY <2>1, <2>2
<1>20. ASSUME NEW w \in Worker, CancelWaitOver(w) PROVE WorkerType'
  <2>1. UNCHANGED recovery /\ job' = [job EXCEPT ![w] = [job[w] EXCEPT !.phase = "settle"]]
    BY <1>20 DEF CancelWaitOver
  <2>2. [job[w] EXCEPT !.phase = "settle"] \in Job
    BY job[w] \in Job, w \in Worker DEF Job
  <2> QED BY <2>1, <2>2, w \in Worker
<1>21. CASE OperationResumes
  <2>1. UNCHANGED recovery /\ job' = [job EXCEPT !["operation"] = [job["operation"] EXCEPT !.phase = "done"]]
    BY <1>21 DEF OperationResumes
  <2>2. [job["operation"] EXCEPT !.phase = "done"] \in Job
    BY job["operation"] \in Job, "operation" \in Worker DEF Job
  <2> QED BY <2>1, <2>2, "operation" \in Worker
<1>22. CASE OperationDone
  BY <1>22 DEF OperationDone
<1>23. CASE StallHandsOver
  BY <1>23 DEF StallHandsOver, CanRecover, StartRecovery, ClearActive
<1>24. CASE StallGivesUp
  BY <1>24 DEF StallGivesUp
<1>25. CASE Nav2
  BY <1>25 DEF Nav2, Nav2Answers, Nav2Ends, Nav2AnswersCancel
<1>26. CASE UNCHANGED vars
  BY <1>26 DEF vars
<1> QED BY <1>1, <1>2, <1>3, <1>4, <1>5, <1>6, <1>7, <1>8, <1>9, <1>10, <1>11,
          <1>12, <1>13, <1>14, <1>15, <1>16, <1>17, <1>18, <1>19, <1>20, <1>21,
          <1>22, <1>23, <1>24, <1>25, <1>26
     DEF Next, Server, Executor, Workers

-----------------------------------------------------------------------------
ForwardStep ==
  \A o \in Object :
    /\ at[o] # "absent" => at'[o] # "absent"
    /\ at[o] \notin {"absent", "admitted"} => at'[o] \notin {"absent", "admitted"}

\* No object becomes absent again, and none that was queued is admitted again.
LEMMA Forward == ASSUME IInv, [Next]_vars PROVE ForwardStep
<1> QueueType /\ PlaceType /\ WorkerType /\ SetsType /\ Exists /\ NetHolds /\
    RosHolds /\ RecoveryHolds
  BY Parts
<1> USE NavAssumption DEF queues, activity, cancels, latches, recovering, operating,
      objects, nav2, Object, Id, TaskIs, Worker, QueueType, PlaceType, WorkerType,
      SetsType, Exists, NetHolds, RosHolds, RecoveryHolds, ForwardStep, Place
<1>1. ASSUME NEW c \in Command, QueueNavigationCommand(c) PROVE ForwardStep
  BY <1>1 DEF QueueNavigationCommand, Admits
<1>2. ASSUME NEW t \in Task, QueueNavigationCancel(t) PROVE ForwardStep
  BY <1>2 DEF QueueNavigationCancel
<1>3. CASE HandleRobotOperation
  BY <1>3 DEF HandleRobotOperation
<1>4. CASE Put
  BY <1>4 DEF Put
<1>5. CASE Stops
  BY <1>5 DEF Stops, EmergencyStop, EmergencyStopDrop, EmergencyStopReset,
     LatchPhysicalEstop, ReleasePhysicalEstop, ClearCommandQueue, DropActive,
     AskCancel
<1>6. ASSUME NEW t \in Task, ProcessCancelQueue(t) PROVE ForwardStep
  BY <1>6 DEF ProcessCancelQueue, ConfirmInactive, RefuseMismatch, AwaitNav2,
     RequestGoalCancellation, AskCancel, Reply
<1>7. CASE DiscardQueue
  BY <1>7 DEF DiscardQueue, ClearCommandQueue
<1>8. CASE TakeCommand
  BY <1>8 DEF TakeCommand
<1>9. CASE SkipCancelled
  BY <1>9 DEF SkipCancelled
<1>10. CASE Activate
  BY <1>10 DEF Activate
<1>11. CASE StartCommand
  BY <1>11 DEF StartCommand, Abort, ClearActive, Report
<1>12. ASSUME NEW o \in Object, NavigationProfileCallback(o) PROVE ForwardStep
  BY <1>12 DEF NavigationProfileCallback, Abort, ClearActive, Report
<1>13. ASSUME NEW o \in Object, NavigationSmootherProfileCallback(o) PROVE ForwardStep
  BY <1>13 DEF NavigationSmootherProfileCallback, Abort, ClearActive, Report
<1>14. ASSUME NEW o \in Object, GoalResponseCallback(o) PROVE ForwardStep
  BY <1>14 DEF GoalResponseCallback, GoalRefused, GoalAccepted,
     RequestGoalCancellation, AskCancel, ClearActive, Report, Reply
<1>15. ASSUME NEW o \in Object, NavigationResultCallback(o) PROVE ForwardStep
  BY <1>15 DEF NavigationResultCallback, ResultSwallowed, ResultOfCancel,
     ResultRecovers, ResultReported, CanRecover, StartRecovery, ClearActive, Report,
     Reply
<1>16. ASSUME NEW d \in answer_due, CancelResponseCallback(d[1], d[2]) PROVE ForwardStep
  BY <1>16 DEF CancelResponseCallback, Reply
<1>17. CASE DriveStall
  BY <1>17 DEF DriveStall
<1>18. CASE RecoveryThread
  BY <1>18 DEF RecoveryThread, RecoveryFails, RecoveryRetries, RecoveryDone, Report,
     Requeue, Fresh
<1>19. CASE Workers
  BY <1>19 DEF Workers, CancelForOperation, CancelWaitOver, OperationResumes,
     OperationDone, StallHandsOver, StallGivesUp, AskCancel, ClearActive, Requeue,
     Fresh, CanRecover, StartRecovery
<1>20. CASE Nav2
  BY <1>20 DEF Nav2, Nav2Answers, Nav2Ends, Nav2AnswersCancel
<1>21. CASE UNCHANGED vars
  BY <1>21 DEF vars
<1> QED BY <1>1, <1>2, <1>3, <1>4, <1>5, <1>6, <1>7, <1>8, <1>9, <1>10, <1>11,
          <1>12, <1>13, <1>14, <1>15, <1>16, <1>17, <1>18, <1>19, <1>20, <1>21
     DEF Next, Server, Executor

\* The object the executor takes was queued.
LEMMA HeadOfQueue ==
  ASSUME IInv, command_queue # <<>>
  PROVE  /\ Head(command_queue) \in Object
         /\ at[Head(command_queue)] \notin {"absent", "admitted"}
         /\ Tail(command_queue) \in Seq(Object)
         /\ \A i \in 1..Len(Tail(command_queue)) :
              at[Tail(command_queue)[i]] \notin {"absent", "admitted"}
<1>1. command_queue \in Seq(Object) /\ Queued
  BY DEF IInv, TypeOK, Located
<1>2. /\ Len(command_queue) > 0 /\ Head(command_queue) = command_queue[1]
      /\ Len(Tail(command_queue)) = Len(command_queue) - 1
      /\ \A i \in 1..Len(Tail(command_queue)) : Tail(command_queue)[i] = command_queue[i + 1]
  BY <1>1
<1>3. \A i \in 1..Len(Tail(command_queue)) : i + 1 \in 1..Len(command_queue)
  BY <1>1, <1>2
<1> QED BY <1>1, <1>2, <1>3 DEF Queued

\* Only admission and a retry make objects.
LEMMA ExistsStep == ASSUME IInv, [Next]_vars PROVE Exists'
<1> QueueType /\ PlaceType /\ SetsType /\ WorkerType /\ Exists /\ NetHolds /\
    RosHolds /\ JobsHold /\ RecoveryHolds
  BY Parts
<1> USE NavAssumption DEF queues, activity, cancels, latches, recovering, operating,
      objects, nav2, Object, Id, TaskIs, Worker, QueueType, PlaceType, SetsType,
      WorkerType, Exists, NetHolds, RosHolds, JobsHold, RecoveryHolds, Place
<1>1. ASSUME NEW c \in Command, QueueNavigationCommand(c) PROVE Exists'
  BY <1>1 DEF QueueNavigationCommand, Admits
<1>2. ASSUME NEW t \in Task, QueueNavigationCancel(t) PROVE Exists'
  BY <1>2 DEF QueueNavigationCancel
<1>3. CASE HandleRobotOperation
  BY <1>3 DEF HandleRobotOperation
<1>4. CASE Put
  BY <1>4 DEF Put
<1>5. CASE Stops
  BY <1>5 DEF Stops, EmergencyStop, EmergencyStopDrop, EmergencyStopReset,
     LatchPhysicalEstop, ReleasePhysicalEstop, ClearCommandQueue, DropActive,
     AskCancel
<1>6. ASSUME NEW t \in Task, ProcessCancelQueue(t) PROVE Exists'
  BY <1>6 DEF ProcessCancelQueue, ConfirmInactive, RefuseMismatch, AwaitNav2,
     RequestGoalCancellation, AskCancel, Reply
<1>7. CASE DiscardQueue
  BY <1>7 DEF DiscardQueue, ClearCommandQueue
<1>8. CASE TakeCommand
  BY <1>8, HeadOfQueue DEF TakeCommand
<1>9. CASE SkipCancelled
  BY <1>9 DEF SkipCancelled
<1>10. CASE Activate
  BY <1>10 DEF Activate
<1>11. CASE StartCommand
  BY <1>11 DEF StartCommand, Abort, ClearActive, Report
<1>12. ASSUME NEW o \in Object, NavigationProfileCallback(o) PROVE Exists'
  BY <1>12 DEF NavigationProfileCallback, Abort, ClearActive, Report
<1>13. ASSUME NEW o \in Object, NavigationSmootherProfileCallback(o) PROVE Exists'
  BY <1>13 DEF NavigationSmootherProfileCallback, Abort, ClearActive, Report
<1>14. ASSUME NEW o \in Object, GoalResponseCallback(o) PROVE Exists'
  BY <1>14 DEF GoalResponseCallback, GoalRefused, GoalAccepted,
     RequestGoalCancellation, AskCancel, ClearActive, Report, Reply
<1>15. ASSUME NEW o \in Object, NavigationResultCallback(o) PROVE Exists'
  BY <1>15 DEF NavigationResultCallback, ResultSwallowed, ResultOfCancel,
     ResultRecovers, ResultReported, CanRecover, StartRecovery, ClearActive, Report,
     Reply
<1>16. ASSUME NEW d \in answer_due, CancelResponseCallback(d[1], d[2]) PROVE Exists'
  BY <1>16 DEF CancelResponseCallback, Reply
<1>17. CASE DriveStall
  BY <1>17 DEF DriveStall
<1>18. CASE RecoveryFails
  BY <1>18 DEF RecoveryFails, Report
<1>19. CASE RecoveryRetries
  <2>1. PICK copy \in Fresh(Id(recovery[1])) : at' = [at EXCEPT ![copy] = "queued"]
    BY <1>19 DEF RecoveryRetries, Requeue
  <2>2. /\ copy \in Object /\ Id(copy) = Id(recovery[1])
        /\ recovery[1] \in Object /\ at[recovery[1]] # "absent"
    BY <1>19 DEF RecoveryRetries, Fresh, Job
  <2>3. UNCHANGED processed_ids
    BY <1>19 DEF RecoveryRetries
  <2> QED BY <2>1, <2>2, <2>3
<1>20. CASE RecoveryDone
  BY <1>20 DEF RecoveryDone
<1>21. ASSUME NEW w \in Worker, CancelForOperation(w) PROVE Exists'
  BY <1>21 DEF CancelForOperation, AskCancel
<1>22. ASSUME NEW w \in Worker, CancelWaitOver(w) PROVE Exists'
  BY <1>22 DEF CancelWaitOver, ClearActive
<1>23. CASE OperationResumes
  <2>1. PICK copy \in Fresh(Id(job["operation"].cmd)) : at' = [at EXCEPT ![copy] = "queued"]
    BY <1>23 DEF OperationResumes, Requeue
  <2>2. /\ copy \in Object /\ Id(copy) = Id(job["operation"].cmd)
        /\ job["operation"].cmd \in Object /\ at[job["operation"].cmd] # "absent"
    BY <1>23, "operation" \in Worker DEF OperationResumes, Fresh, Job
  <2>3. UNCHANGED processed_ids
    BY <1>23 DEF OperationResumes
  <2> QED BY <2>1, <2>2, <2>3
<1>24. CASE OperationDone
  BY <1>24 DEF OperationDone
<1>25. CASE StallHandsOver
  BY <1>25 DEF StallHandsOver, CanRecover, StartRecovery, ClearActive
<1>26. CASE StallGivesUp
  BY <1>26 DEF StallGivesUp
<1>27. CASE Nav2
  BY <1>27 DEF Nav2, Nav2Answers, Nav2Ends, Nav2AnswersCancel
<1>28. CASE UNCHANGED vars
  BY <1>28 DEF vars
<1> QED BY <1>1, <1>2, <1>3, <1>4, <1>5, <1>6, <1>7, <1>8, <1>9, <1>10, <1>11,
          <1>12, <1>13, <1>14, <1>15, <1>16, <1>17, <1>18, <1>19, <1>20, <1>21,
          <1>22, <1>23, <1>24, <1>25, <1>26, <1>27, <1>28
     DEF Next, Server, Executor, RecoveryThread, Workers

\* Putting an object at the end of the queue.
LEMMA AppendKeepsQueued ==
  ASSUME TypeOK, Queued, ForwardStep, NEW o \in Object,
         command_queue' = Append(command_queue, o), at' = [at EXCEPT ![o] = "queued"]
  PROVE  Queued'
<1>1. command_queue \in Seq(Object) /\ at \in [Object -> Place]
  BY DEF TypeOK
<1>2. ASSUME NEW i \in 1..Len(command_queue')
      PROVE  at'[command_queue'[i]] \notin {"absent", "admitted"}
  <2>1. CASE i = Len(command_queue) + 1
    BY <1>1, <2>1
  <2>2. CASE i # Len(command_queue) + 1
    <3>1. i \in 1..Len(command_queue) /\ command_queue'[i] = command_queue[i]
          /\ command_queue[i] \in Object
      BY <1>1, <1>2, <2>2
    <3> QED BY <3>1 DEF Queued, ForwardStep
  <2> QED BY <2>1, <2>2
<1> QED BY <1>2 DEF Queued

QueueChangeStep ==
  \/ UNCHANGED command_queue
  \/ command_queue' = <<>>
  \/ command_queue # <<>> /\ command_queue' = Tail(command_queue)
  \/ \E o \in Object : /\ command_queue' = Append(command_queue, o)
                       /\ at' = [at EXCEPT ![o] = "queued"]

\* How the queue changes.
LEMMA QueueChange == ASSUME IInv, [Next]_vars PROVE QueueChangeStep
<1> QueueType /\ WorkerType
  BY Parts
<1> USE NavAssumption DEF queues, activity, cancels, latches, recovering, operating,
      objects, nav2, Object, Id, TaskIs, Worker, QueueType, WorkerType,
      QueueChangeStep
<1>1. CASE Server
  BY <1>1 DEF Server, QueueNavigationCommand, QueueNavigationCancel,
     HandleRobotOperation, Admits
<1>2. CASE Put
  BY <1>2 DEF Put
<1>3. CASE Stops
  BY <1>3 DEF Stops, EmergencyStop, EmergencyStopDrop, EmergencyStopReset,
     LatchPhysicalEstop, ReleasePhysicalEstop, ClearCommandQueue, DropActive,
     AskCancel
<1>4. CASE Executor
  BY <1>4 DEF Executor, ProcessCancelQueue, DiscardQueue, TakeCommand,
     SkipCancelled, Activate, StartCommand, NavigationProfileCallback,
     NavigationSmootherProfileCallback, GoalResponseCallback,
     NavigationResultCallback, CancelResponseCallback, ConfirmInactive,
     RefuseMismatch, AwaitNav2, RequestGoalCancellation, AskCancel, Reply,
     ClearCommandQueue, Abort, ClearActive, Report, GoalRefused, GoalAccepted,
     ResultSwallowed, ResultOfCancel, ResultRecovers, ResultReported, CanRecover,
     StartRecovery
<1>5. CASE DriveStall
  BY <1>5 DEF DriveStall
<1>6. CASE RecoveryFails
  BY <1>6 DEF RecoveryFails, Report
<1>7. CASE RecoveryRetries
  <2>1. PICK copy \in Fresh(Id(recovery[1])) : /\ command_queue' = Append(command_queue, copy)
                                      /\ at' = [at EXCEPT ![copy] = "queued"]
    BY <1>7 DEF RecoveryRetries, Requeue
  <2>2. copy \in Object
    BY DEF Fresh
  <2> QED BY <2>1, <2>2
<1>8. CASE RecoveryDone
  BY <1>8 DEF RecoveryDone
<1>9. ASSUME NEW w \in Worker, CancelForOperation(w) PROVE QueueChangeStep
  BY <1>9 DEF CancelForOperation, AskCancel
<1>10. ASSUME NEW w \in Worker, CancelWaitOver(w) PROVE QueueChangeStep
  BY <1>10 DEF CancelWaitOver, ClearActive
<1>11. CASE OperationResumes
  <2>1. PICK copy \in Fresh(Id(job["operation"].cmd)) : /\ command_queue' = Append(command_queue, copy)
                                      /\ at' = [at EXCEPT ![copy] = "queued"]
    BY <1>11 DEF OperationResumes, Requeue
  <2>2. copy \in Object
    BY DEF Fresh
  <2> QED BY <2>1, <2>2
<1>12. CASE OperationDone
  BY <1>12 DEF OperationDone
<1>13. CASE StallHandsOver
  BY <1>13 DEF StallHandsOver, CanRecover, StartRecovery, ClearActive
<1>14. CASE StallGivesUp
  BY <1>14 DEF StallGivesUp
<1>15. CASE Nav2
  BY <1>15 DEF Nav2, Nav2Answers, Nav2Ends, Nav2AnswersCancel
<1>16. CASE UNCHANGED vars
  BY <1>16 DEF vars
<1> QED BY <1>1, <1>2, <1>3, <1>4, <1>5, <1>6, <1>7, <1>8, <1>9, <1>10, <1>11,
          <1>12, <1>13, <1>14, <1>15, <1>16
     DEF Next, RecoveryThread, Workers

\* The queue holds objects that were put there.
LEMMA QueuedStep == ASSUME IInv, [Next]_vars PROVE Queued'
<1>1. ForwardStep /\ QueueChangeStep /\ TypeOK /\ Queued /\ command_queue \in Seq(Object)
  BY Forward, QueueChange DEF IInv, Located, TypeOK
<1>2. CASE UNCHANGED command_queue
  <2>1. \A i \in 1..Len(command_queue) : command_queue[i] \in Object
    BY <1>1
  <2> QED BY <1>1, <1>2, <2>1 DEF Queued, ForwardStep
<1>3. CASE command_queue' = <<>>
  BY <1>3 DEF Queued
<1>4. CASE command_queue # <<>> /\ command_queue' = Tail(command_queue)
  <2>1. \A i \in 1..Len(command_queue') :
          command_queue'[i] \in Object /\ at[command_queue'[i]] \notin {"absent", "admitted"}
    BY <1>4, HeadOfQueue
  <2> QED BY <1>1, <2>1 DEF Queued, ForwardStep
<1>5. CASE \E o \in Object : /\ command_queue' = Append(command_queue, o)
                             /\ at' = [at EXCEPT ![o] = "queued"]
  BY <1>1, <1>5, AppendKeepsQueued
<1> QED BY <1>1, <1>2, <1>3, <1>4, <1>5 DEF QueueChangeStep

\* The asyncio thread and the executor hold what they took.
LEMMA HeldStep == ASSUME IInv, [Next]_vars PROVE (NetHolds /\ RosHolds)'
<1> QueueType /\ PlaceType /\ WorkerType /\ Exists /\ NetHolds /\ RosHolds
  BY Parts
<1> USE NavAssumption DEF queues, activity, cancels, latches, recovering, operating,
      objects, nav2, Object, Id, TaskIs, Worker, QueueType, PlaceType, WorkerType,
      Exists, NetHolds, RosHolds, Place
<1>1. ASSUME NEW c \in Command, QueueNavigationCommand(c) PROVE (NetHolds /\ RosHolds)'
  <2>1. /\ <<c, 1>> \in Object /\ Id(<<c, 1>>) = c
        /\ net' = <<c, 1>> /\ at' = [at EXCEPT ![<<c, 1>>] = "admitted"]
        /\ UNCHANGED ros /\ c \notin processed_ids
    BY <1>1 DEF QueueNavigationCommand, Admits
  <2>2. at[<<c, 1>>] = "absent"
    BY <2>1
  <2>3. ros # None => ros # <<c, 1>> /\ ros \in Object
    BY <2>2
  <2> QED BY <2>1, <2>3
<1>2. ASSUME NEW t \in Task, QueueNavigationCancel(t) PROVE (NetHolds /\ RosHolds)'
  BY <1>2 DEF QueueNavigationCancel
<1>3. CASE HandleRobotOperation
  BY <1>3 DEF HandleRobotOperation
<1>4. CASE Put
  BY <1>4 DEF Put
<1>5. CASE Stops
  BY <1>5 DEF Stops, EmergencyStop, EmergencyStopDrop, EmergencyStopReset,
     LatchPhysicalEstop, ReleasePhysicalEstop, ClearCommandQueue, DropActive,
     AskCancel
<1>6. ASSUME NEW t \in Task, ProcessCancelQueue(t) PROVE (NetHolds /\ RosHolds)'
  BY <1>6 DEF ProcessCancelQueue, ConfirmInactive, RefuseMismatch, AwaitNav2,
     RequestGoalCancellation, AskCancel, Reply
<1>7. CASE DiscardQueue
  BY <1>7 DEF DiscardQueue, ClearCommandQueue
<1>8. CASE TakeCommand
  BY <1>8, HeadOfQueue DEF TakeCommand
<1>9. CASE SkipCancelled
  BY <1>9 DEF SkipCancelled
<1>10. CASE Activate
  BY <1>10 DEF Activate
<1>11. CASE StartCommand
  BY <1>11 DEF StartCommand, Abort, ClearActive, Report
<1>12. ASSUME NEW o \in Object, NavigationProfileCallback(o) PROVE (NetHolds /\ RosHolds)'
  BY <1>12 DEF NavigationProfileCallback, Abort, ClearActive, Report
<1>13. ASSUME NEW o \in Object, NavigationSmootherProfileCallback(o) PROVE (NetHolds /\ RosHolds)'
  BY <1>13 DEF NavigationSmootherProfileCallback, Abort, ClearActive, Report
<1>14. ASSUME NEW o \in Object, GoalResponseCallback(o) PROVE (NetHolds /\ RosHolds)'
  BY <1>14 DEF GoalResponseCallback, GoalRefused, GoalAccepted,
     RequestGoalCancellation, AskCancel, ClearActive, Report, Reply
<1>15. ASSUME NEW o \in Object, NavigationResultCallback(o) PROVE (NetHolds /\ RosHolds)'
  BY <1>15 DEF NavigationResultCallback, ResultSwallowed, ResultOfCancel,
     ResultRecovers, ResultReported, CanRecover, StartRecovery, ClearActive, Report,
     Reply
<1>16. ASSUME NEW d \in answer_due, CancelResponseCallback(d[1], d[2]) PROVE (NetHolds /\ RosHolds)'
  BY <1>16 DEF CancelResponseCallback, Reply
<1>17. CASE DriveStall
  BY <1>17 DEF DriveStall
<1>18. CASE RecoveryThread
  BY <1>18 DEF RecoveryThread, RecoveryFails, RecoveryRetries, RecoveryDone, Report,
     Requeue, Fresh
<1>19. CASE Workers
  BY <1>19 DEF Workers, CancelForOperation, CancelWaitOver, OperationResumes,
     OperationDone, StallHandsOver, StallGivesUp, AskCancel, ClearActive, Requeue,
     Fresh, CanRecover, StartRecovery
<1>20. CASE Nav2
  BY <1>20 DEF Nav2, Nav2Answers, Nav2Ends, Nav2AnswersCancel
<1>21. CASE UNCHANGED vars
  BY <1>21 DEF vars
<1> QED BY <1>1, <1>2, <1>3, <1>4, <1>5, <1>6, <1>7, <1>8, <1>9, <1>10, <1>11,
          <1>12, <1>13, <1>14, <1>15, <1>16, <1>17, <1>18, <1>19, <1>20, <1>21
     DEF Next, Server, Executor

\* A worker holds a command that was active.
LEMMA JobsHoldStep == ASSUME IInv, [Next]_vars PROVE JobsHold'
<1> WorkerType /\ ActivityType /\ JobsHold /\ ActiveIsWorking
  BY Parts
<1> USE NavAssumption DEF queues, activity, cancels, latches, recovering, operating,
      objects, nav2, Object, Id, TaskIs, Worker, WorkerType, ActivityType, JobsHold,
      ActiveIsWorking, Working, Job, Idle
<1> ForwardStep
  BY Forward
<1> USE DEF ForwardStep
<1>1. ASSUME NEW c \in Command, QueueNavigationCommand(c) PROVE JobsHold'
  BY <1>1 DEF QueueNavigationCommand, Admits
<1>2. ASSUME NEW t \in Task, QueueNavigationCancel(t) PROVE JobsHold'
  BY <1>2 DEF QueueNavigationCancel
<1>3. CASE HandleRobotOperation
  BY <1>3 DEF HandleRobotOperation
<1>4. CASE Put
  BY <1>4 DEF Put
<1>5. CASE Stops
  BY <1>5 DEF Stops, EmergencyStop, EmergencyStopDrop, EmergencyStopReset,
     LatchPhysicalEstop, ReleasePhysicalEstop, ClearCommandQueue, DropActive,
     AskCancel
<1>6. ASSUME NEW t \in Task, ProcessCancelQueue(t) PROVE JobsHold'
  BY <1>6 DEF ProcessCancelQueue, ConfirmInactive, RefuseMismatch, AwaitNav2,
     RequestGoalCancellation, AskCancel, Reply
<1>7. CASE DiscardQueue
  BY <1>7 DEF DiscardQueue, ClearCommandQueue
<1>8. CASE TakeCommand
  BY <1>8 DEF TakeCommand
<1>9. CASE SkipCancelled
  BY <1>9 DEF SkipCancelled
<1>10. CASE Activate
  BY <1>10 DEF Activate
<1>11. CASE StartCommand
  BY <1>11 DEF StartCommand, Abort, ClearActive, Report
<1>12. ASSUME NEW o \in Object, NavigationProfileCallback(o) PROVE JobsHold'
  BY <1>12 DEF NavigationProfileCallback, Abort, ClearActive, Report
<1>13. ASSUME NEW o \in Object, NavigationSmootherProfileCallback(o) PROVE JobsHold'
  BY <1>13 DEF NavigationSmootherProfileCallback, Abort, ClearActive, Report
<1>14. ASSUME NEW o \in Object, GoalResponseCallback(o) PROVE JobsHold'
  BY <1>14 DEF GoalResponseCallback, GoalRefused, GoalAccepted,
     RequestGoalCancellation, AskCancel, ClearActive, Report, Reply
<1>15. ASSUME NEW o \in Object, NavigationResultCallback(o) PROVE JobsHold'
  BY <1>15 DEF NavigationResultCallback, ResultSwallowed, ResultOfCancel,
     ResultRecovers, ResultReported, CanRecover, StartRecovery, ClearActive, Report,
     Reply
<1>16. ASSUME NEW d \in answer_due, CancelResponseCallback(d[1], d[2]) PROVE JobsHold'
  BY <1>16 DEF CancelResponseCallback, Reply
<1>17. CASE DriveStall
  BY <1>17 DEF DriveStall
<1>18. CASE RecoveryThread
  BY <1>18 DEF RecoveryThread, RecoveryFails, RecoveryRetries, RecoveryDone, Report,
     Requeue, Fresh
<1>19. ASSUME NEW w \in Worker, CancelForOperation(w) PROVE JobsHold'
  BY <1>19 DEF CancelForOperation, AskCancel
<1>20. ASSUME NEW w \in Worker, CancelWaitOver(w) PROVE JobsHold'
  BY <1>20 DEF CancelWaitOver, ClearActive
<1>21. CASE OperationResumes
  BY <1>21 DEF OperationResumes, Requeue, Fresh
<1>22. CASE OperationDone
  BY <1>22 DEF OperationDone
<1>23. CASE StallHandsOver
  BY <1>23 DEF StallHandsOver, CanRecover, StartRecovery, ClearActive
<1>24. CASE StallGivesUp
  BY <1>24 DEF StallGivesUp
<1>25. CASE Nav2
  BY <1>25 DEF Nav2, Nav2Answers, Nav2Ends, Nav2AnswersCancel
<1>26. CASE UNCHANGED vars
  BY <1>26 DEF vars
<1> QED BY <1>1, <1>2, <1>3, <1>4, <1>5, <1>6, <1>7, <1>8, <1>9, <1>10, <1>11,
          <1>12, <1>13, <1>14, <1>15, <1>16, <1>17, <1>18, <1>19, <1>20, <1>21,
          <1>22, <1>23, <1>24, <1>25, <1>26
     DEF Next, Server, Executor, Workers

\* So does the recovery thread.
LEMMA RecoveryHoldsStep == ASSUME IInv, [Next]_vars PROVE RecoveryHolds'
<1> WorkerType /\ PlaceType /\ JobsHold /\ RecoveryHolds
  BY Parts
<1> USE NavAssumption DEF queues, activity, cancels, latches, recovering, operating,
      objects, nav2, Object, Id, TaskIs, Worker, WorkerType, PlaceType, JobsHold,
      RecoveryHolds, Job, Place
<1> ForwardStep
  BY Forward
<1> USE DEF ForwardStep
<1>1. CASE Server
  BY <1>1 DEF Server, QueueNavigationCommand, QueueNavigationCancel,
     HandleRobotOperation, Admits
<1>2. CASE Put
  BY <1>2 DEF Put
<1>3. CASE Stops
  BY <1>3 DEF Stops, EmergencyStop, EmergencyStopDrop, EmergencyStopReset,
     LatchPhysicalEstop, ReleasePhysicalEstop, ClearCommandQueue, DropActive,
     AskCancel
<1>4. ASSUME NEW t \in Task, ProcessCancelQueue(t) PROVE RecoveryHolds'
  BY <1>4 DEF ProcessCancelQueue, ConfirmInactive, RefuseMismatch, AwaitNav2,
     RequestGoalCancellation, AskCancel, Reply
<1>5. CASE DiscardQueue
  BY <1>5 DEF DiscardQueue, ClearCommandQueue
<1>6. CASE TakeCommand
  BY <1>6 DEF TakeCommand
<1>7. CASE SkipCancelled
  BY <1>7 DEF SkipCancelled
<1>8. CASE Activate
  BY <1>8 DEF Activate
<1>9. CASE StartCommand
  BY <1>9 DEF StartCommand, Abort, ClearActive, Report
<1>10. ASSUME NEW o \in Object, NavigationProfileCallback(o) PROVE RecoveryHolds'
  BY <1>10 DEF NavigationProfileCallback, Abort, ClearActive, Report
<1>11. ASSUME NEW o \in Object, NavigationSmootherProfileCallback(o) PROVE RecoveryHolds'
  BY <1>11 DEF NavigationSmootherProfileCallback, Abort, ClearActive, Report
<1>12. ASSUME NEW o \in Object, GoalResponseCallback(o) PROVE RecoveryHolds'
  BY <1>12 DEF GoalResponseCallback, GoalRefused, GoalAccepted,
     RequestGoalCancellation, AskCancel, ClearActive, Report, Reply
<1>13. ASSUME NEW o \in Object, NavigationResultCallback(o) PROVE RecoveryHolds'
  BY <1>13 DEF NavigationResultCallback, ResultSwallowed, ResultOfCancel,
     ResultRecovers, ResultReported, CanRecover, StartRecovery, ClearActive, Report,
     Reply
<1>14. ASSUME NEW d \in answer_due, CancelResponseCallback(d[1], d[2]) PROVE RecoveryHolds'
  BY <1>14 DEF CancelResponseCallback, Reply
<1>15. CASE DriveStall
  BY <1>15 DEF DriveStall
<1>16. CASE RecoveryThread
  BY <1>16 DEF RecoveryThread, RecoveryFails, RecoveryRetries, RecoveryDone, Report,
     Requeue, Fresh
<1>17. CASE Workers
  BY <1>17 DEF Workers, CancelForOperation, CancelWaitOver, OperationResumes,
     OperationDone, StallHandsOver, StallGivesUp, AskCancel, ClearActive, Requeue,
     Fresh, CanRecover, StartRecovery
<1>18. CASE Nav2
  BY <1>18 DEF Nav2, Nav2Answers, Nav2Ends, Nav2AnswersCancel
<1>19. CASE UNCHANGED vars
  BY <1>19 DEF vars
<1> QED BY <1>1, <1>2, <1>3, <1>4, <1>5, <1>6, <1>7, <1>8, <1>9, <1>10, <1>11,
          <1>12, <1>13, <1>14, <1>15, <1>16, <1>17, <1>18, <1>19
     DEF Next, Executor

\* Every handler that closes the active command clears it.
LEMMA ActiveIsWorkingStep == ASSUME IInv, [Next]_vars PROVE ActiveIsWorking'
<1> QueueType /\ ActivityType /\ PlaceType /\ NetHolds /\ RosHolds /\
    ActiveIsWorking
  BY Parts
<1> USE NavAssumption DEF queues, activity, cancels, latches, recovering, operating,
      objects, nav2, Object, Id, TaskIs, Worker, QueueType, ActivityType, PlaceType,
      NetHolds, RosHolds, ActiveIsWorking, Working, Place
<1>1. ASSUME NEW c \in Command, QueueNavigationCommand(c) PROVE ActiveIsWorking'
  BY <1>1 DEF QueueNavigationCommand, Admits
<1>2. ASSUME NEW t \in Task, QueueNavigationCancel(t) PROVE ActiveIsWorking'
  BY <1>2 DEF QueueNavigationCancel
<1>3. CASE HandleRobotOperation
  BY <1>3 DEF HandleRobotOperation
<1>4. CASE Put
  BY <1>4 DEF Put
<1>5. CASE Stops
  BY <1>5 DEF Stops, EmergencyStop, EmergencyStopDrop, EmergencyStopReset,
     LatchPhysicalEstop, ReleasePhysicalEstop, ClearCommandQueue, DropActive,
     AskCancel
<1>6. ASSUME NEW t \in Task, ProcessCancelQueue(t) PROVE ActiveIsWorking'
  BY <1>6 DEF ProcessCancelQueue, ConfirmInactive, RefuseMismatch, AwaitNav2,
     RequestGoalCancellation, AskCancel, Reply
<1>7. CASE DiscardQueue
  BY <1>7 DEF DiscardQueue, ClearCommandQueue
<1>8. CASE TakeCommand
  BY <1>8 DEF TakeCommand
<1>9. CASE SkipCancelled
  BY <1>9 DEF SkipCancelled
<1>10. CASE Activate
  BY <1>10 DEF Activate
<1>11. CASE StartCommand
  BY <1>11 DEF StartCommand, Abort, ClearActive, Report
<1>12. ASSUME NEW o \in Object, NavigationProfileCallback(o) PROVE ActiveIsWorking'
  BY <1>12 DEF NavigationProfileCallback, Abort, ClearActive, Report
<1>13. ASSUME NEW o \in Object, NavigationSmootherProfileCallback(o) PROVE ActiveIsWorking'
  BY <1>13 DEF NavigationSmootherProfileCallback, Abort, ClearActive, Report
<1>14. ASSUME NEW o \in Object, GoalResponseCallback(o) PROVE ActiveIsWorking'
  <2>1. CASE GoalRefused(o)
    BY <1>14, <2>1 DEF GoalResponseCallback, GoalRefused, ClearActive
  <2>2. CASE GoalAccepted(o)
    BY <1>14, <2>2 DEF GoalResponseCallback, GoalAccepted
  <2> QED BY <1>14, <2>1, <2>2 DEF GoalResponseCallback
<1>15. ASSUME NEW o \in Object, NavigationResultCallback(o) PROVE ActiveIsWorking'
  <2>1. ClearActive(Id(o)) /\ at' = [at EXCEPT ![o] = "closed"]
    BY <1>15 DEF NavigationResultCallback, ResultSwallowed, ResultOfCancel, ResultRecovers,
              ResultReported, StartRecovery
  <2> QED BY <2>1 DEF ClearActive
<1>16. ASSUME NEW d \in answer_due, CancelResponseCallback(d[1], d[2]) PROVE ActiveIsWorking'
  BY <1>16 DEF CancelResponseCallback, Reply
<1>17. CASE DriveStall
  BY <1>17 DEF DriveStall
<1>18. CASE RecoveryThread
  BY <1>18 DEF RecoveryThread, RecoveryFails, RecoveryRetries, RecoveryDone, Report,
     Requeue, Fresh
<1>19. ASSUME NEW w \in Worker, CancelForOperation(w) PROVE ActiveIsWorking'
  BY <1>19 DEF CancelForOperation, AskCancel
<1>20. ASSUME NEW w \in Worker, CancelWaitOver(w) PROVE ActiveIsWorking'
  BY <1>20 DEF CancelWaitOver, ClearActive
<1>21. CASE OperationResumes
  BY <1>21 DEF OperationResumes, Requeue, Fresh
<1>22. CASE OperationDone
  BY <1>22 DEF OperationDone
<1>23. CASE StallHandsOver
  BY <1>23 DEF StallHandsOver, CanRecover, StartRecovery, ClearActive
<1>24. CASE StallGivesUp
  BY <1>24 DEF StallGivesUp
<1>25. CASE Nav2
  BY <1>25 DEF Nav2, Nav2Answers, Nav2Ends, Nav2AnswersCancel
<1>26. CASE UNCHANGED vars
  BY <1>26 DEF vars
<1> QED BY <1>1, <1>2, <1>3, <1>4, <1>5, <1>6, <1>7, <1>8, <1>9, <1>10, <1>11,
          <1>12, <1>13, <1>14, <1>15, <1>16, <1>17, <1>18, <1>19, <1>20, <1>21,
          <1>22, <1>23, <1>24, <1>25, <1>26
     DEF Next, Server, Executor, Workers

\* A recovery and an operation exclude each other.
LEMMA OneRobotOperationStep == ASSUME IInv, [Next]_vars PROVE OneRobotOperation'
<1> WorkerType /\ OneRobotOperation
  BY Parts
<1> USE NavAssumption DEF queues, activity, cancels, latches, recovering, operating,
      objects, nav2, Object, Id, TaskIs, Worker, WorkerType, OneRobotOperation, Job,
      Idle
<1>1. ASSUME NEW c \in Command, QueueNavigationCommand(c) PROVE OneRobotOperation'
  BY <1>1 DEF QueueNavigationCommand, Admits
<1>2. ASSUME NEW t \in Task, QueueNavigationCancel(t) PROVE OneRobotOperation'
  BY <1>2 DEF QueueNavigationCancel
<1>3. CASE HandleRobotOperation
  BY <1>3 DEF HandleRobotOperation
<1>4. CASE Put
  BY <1>4 DEF Put
<1>5. CASE Stops
  BY <1>5 DEF Stops, EmergencyStop, EmergencyStopDrop, EmergencyStopReset,
     LatchPhysicalEstop, ReleasePhysicalEstop, ClearCommandQueue, DropActive,
     AskCancel
<1>6. ASSUME NEW t \in Task, ProcessCancelQueue(t) PROVE OneRobotOperation'
  BY <1>6 DEF ProcessCancelQueue, ConfirmInactive, RefuseMismatch, AwaitNav2,
     RequestGoalCancellation, AskCancel, Reply
<1>7. CASE DiscardQueue
  BY <1>7 DEF DiscardQueue, ClearCommandQueue
<1>8. CASE TakeCommand
  BY <1>8 DEF TakeCommand
<1>9. CASE SkipCancelled
  BY <1>9 DEF SkipCancelled
<1>10. CASE Activate
  BY <1>10 DEF Activate
<1>11. CASE StartCommand
  BY <1>11 DEF StartCommand, Abort, ClearActive, Report
<1>12. ASSUME NEW o \in Object, NavigationProfileCallback(o) PROVE OneRobotOperation'
  BY <1>12 DEF NavigationProfileCallback, Abort, ClearActive, Report
<1>13. ASSUME NEW o \in Object, NavigationSmootherProfileCallback(o) PROVE OneRobotOperation'
  BY <1>13 DEF NavigationSmootherProfileCallback, Abort, ClearActive, Report
<1>14. ASSUME NEW o \in Object, GoalResponseCallback(o) PROVE OneRobotOperation'
  BY <1>14 DEF GoalResponseCallback, GoalRefused, GoalAccepted,
     RequestGoalCancellation, AskCancel, ClearActive, Report, Reply
<1>15. ASSUME NEW o \in Object, NavigationResultCallback(o) PROVE OneRobotOperation'
  BY <1>15 DEF NavigationResultCallback, ResultSwallowed, ResultOfCancel,
     ResultRecovers, ResultReported, CanRecover, StartRecovery, ClearActive, Report,
     Reply
<1>16. ASSUME NEW d \in answer_due, CancelResponseCallback(d[1], d[2]) PROVE OneRobotOperation'
  BY <1>16 DEF CancelResponseCallback, Reply
<1>17. CASE DriveStall
  BY <1>17 DEF DriveStall
<1>18. CASE RecoveryFails
  BY <1>18 DEF RecoveryFails, Report
<1>19. CASE RecoveryRetries
  <2>1. /\ recovery # None /\ recovery' # None
        /\ UNCHANGED <<job, robot_operation_active>>
    BY <1>19 DEF RecoveryRetries
  <2> QED BY <2>1
<1>20. CASE RecoveryDone
  BY <1>20 DEF RecoveryDone
<1>21. ASSUME NEW w \in Worker, CancelForOperation(w) PROVE OneRobotOperation'
  <2>1. /\ job[w].phase = "cancel"
        /\ \A v \in Worker : job'[v].phase = IF v = w THEN "wait" ELSE job[v].phase
        /\ UNCHANGED <<recovery, robot_operation_active>>
    BY <1>21 DEF CancelForOperation
  <2> QED BY <2>1
<1>22. ASSUME NEW w \in Worker, CancelWaitOver(w) PROVE OneRobotOperation'
  BY <1>22 DEF CancelWaitOver, ClearActive
<1>23. CASE OperationResumes
  BY <1>23 DEF OperationResumes, Requeue, Fresh
<1>24. CASE OperationDone
  BY <1>24 DEF OperationDone
<1>25. CASE StallHandsOver
  BY <1>25 DEF StallHandsOver, CanRecover, StartRecovery, ClearActive
<1>26. CASE StallGivesUp
  BY <1>26 DEF StallGivesUp
<1>27. CASE Nav2
  BY <1>27 DEF Nav2, Nav2Answers, Nav2Ends, Nav2AnswersCancel
<1>28. CASE UNCHANGED vars
  BY <1>28 DEF vars
<1> QED BY <1>1, <1>2, <1>3, <1>4, <1>5, <1>6, <1>7, <1>8, <1>9, <1>10, <1>11,
          <1>12, <1>13, <1>14, <1>15, <1>16, <1>17, <1>18, <1>19, <1>20, <1>21,
          <1>22, <1>23, <1>24, <1>25, <1>26, <1>27, <1>28
     DEF Next, Server, Executor, RecoveryThread, Workers

\* A recovery starts only for an attempt that is allowed.
LEMMA AllowedStep == ASSUME IInv, [Next]_vars PROVE Allowed'
<1> WorkerType /\ AttemptType /\ PlaceType /\ RecoveryHolds /\ Allowed
  BY Parts
<1> USE NavAssumption DEF queues, activity, cancels, latches, recovering, operating,
      objects, nav2, Object, Id, TaskIs, Worker, WorkerType, AttemptType, PlaceType,
      RecoveryHolds, Allowed, Job
<1>1. CASE Server
  BY <1>1 DEF Server, QueueNavigationCommand, QueueNavigationCancel,
     HandleRobotOperation, Admits
<1>2. CASE Put
  BY <1>2 DEF Put
<1>3. CASE Stops
  BY <1>3 DEF Stops, EmergencyStop, EmergencyStopDrop, EmergencyStopReset,
     LatchPhysicalEstop, ReleasePhysicalEstop, ClearCommandQueue, DropActive,
     AskCancel
<1>4. ASSUME NEW t \in Task, ProcessCancelQueue(t) PROVE Allowed'
  BY <1>4 DEF ProcessCancelQueue, ConfirmInactive, RefuseMismatch, AwaitNav2,
     RequestGoalCancellation, AskCancel, Reply
<1>5. CASE DiscardQueue
  BY <1>5 DEF DiscardQueue, ClearCommandQueue
<1>6. CASE TakeCommand
  BY <1>6 DEF TakeCommand
<1>7. CASE SkipCancelled
  BY <1>7 DEF SkipCancelled
<1>8. CASE Activate
  BY <1>8 DEF Activate
<1>9. CASE StartCommand
  BY <1>9 DEF StartCommand, Abort, ClearActive, Report
<1>10. ASSUME NEW o \in Object, NavigationProfileCallback(o) PROVE Allowed'
  BY <1>10 DEF NavigationProfileCallback, Abort, ClearActive, Report
<1>11. ASSUME NEW o \in Object, NavigationSmootherProfileCallback(o) PROVE Allowed'
  BY <1>11 DEF NavigationSmootherProfileCallback, Abort, ClearActive, Report
<1>12. ASSUME NEW o \in Object, GoalResponseCallback(o) PROVE Allowed'
  BY <1>12 DEF GoalResponseCallback, GoalRefused, GoalAccepted,
     RequestGoalCancellation, AskCancel, ClearActive, Report, Reply
<1>13. ASSUME NEW o \in Object, NavigationResultCallback(o) PROVE Allowed'
  BY <1>13 DEF NavigationResultCallback, ResultSwallowed, ResultOfCancel,
     ResultRecovers, ResultReported, CanRecover, StartRecovery, ClearActive, Report,
     Reply
<1>14. ASSUME NEW d \in answer_due, CancelResponseCallback(d[1], d[2]) PROVE Allowed'
  BY <1>14 DEF CancelResponseCallback, Reply
<1>15. CASE DriveStall
  BY <1>15 DEF DriveStall
<1>16. CASE RecoveryThread
  BY <1>16 DEF RecoveryThread, RecoveryFails, RecoveryRetries, RecoveryDone, Report,
     Requeue, Fresh
<1>17. ASSUME NEW w \in Worker, CancelForOperation(w) PROVE Allowed'
  BY <1>17 DEF CancelForOperation, AskCancel
<1>18. ASSUME NEW w \in Worker, CancelWaitOver(w) PROVE Allowed'
  BY <1>18 DEF CancelWaitOver, ClearActive
<1>19. CASE OperationResumes
  BY <1>19 DEF OperationResumes, Requeue, Fresh
<1>20. CASE OperationDone
  BY <1>20 DEF OperationDone
<1>21. CASE StallHandsOver
  BY <1>21 DEF StallHandsOver, CanRecover, StartRecovery, ClearActive
<1>22. CASE StallGivesUp
  BY <1>22 DEF StallGivesUp
<1>23. CASE Nav2
  BY <1>23 DEF Nav2, Nav2Answers, Nav2Ends, Nav2AnswersCancel
<1>24. CASE UNCHANGED vars
  BY <1>24 DEF vars
<1> QED BY <1>1, <1>2, <1>3, <1>4, <1>5, <1>6, <1>7, <1>8, <1>9, <1>10, <1>11,
          <1>12, <1>13, <1>14, <1>15, <1>16, <1>17, <1>18, <1>19, <1>20, <1>21,
          <1>22, <1>23, <1>24
     DEF Next, Executor, Workers

CountChangeStep ==
  \/ UNCHANGED <<attempted, recoveries>>
  \/ \E o \in Object : CanRecover(o) /\ StartRecovery(o)

\* Whoever starts a recovery looks at the attempts used so far.
LEMMA CountChange == ASSUME IInv, [Next]_vars PROVE CountChangeStep
<1> WorkerType
  BY Parts
<1> USE NavAssumption DEF queues, activity, cancels, latches, recovering, operating,
      objects, nav2, Object, Id, TaskIs, Worker, WorkerType, CountChangeStep, Job
<1>1. CASE Server
  BY <1>1 DEF Server, QueueNavigationCommand, QueueNavigationCancel,
     HandleRobotOperation, Admits
<1>2. CASE Put
  BY <1>2 DEF Put
<1>3. CASE Stops
  BY <1>3 DEF Stops, EmergencyStop, EmergencyStopDrop, EmergencyStopReset,
     LatchPhysicalEstop, ReleasePhysicalEstop, ClearCommandQueue, DropActive,
     AskCancel
<1>4. ASSUME NEW t \in Task, ProcessCancelQueue(t) PROVE CountChangeStep
  BY <1>4 DEF ProcessCancelQueue, ConfirmInactive, RefuseMismatch, AwaitNav2,
     RequestGoalCancellation, AskCancel, Reply
<1>5. CASE DiscardQueue
  BY <1>5 DEF DiscardQueue, ClearCommandQueue
<1>6. CASE TakeCommand
  BY <1>6 DEF TakeCommand
<1>7. CASE SkipCancelled
  BY <1>7 DEF SkipCancelled
<1>8. CASE Activate
  BY <1>8 DEF Activate
<1>9. CASE StartCommand
  BY <1>9 DEF StartCommand, Abort, ClearActive, Report
<1>10. ASSUME NEW o \in Object, NavigationProfileCallback(o) PROVE CountChangeStep
  BY <1>10 DEF NavigationProfileCallback, Abort, ClearActive, Report
<1>11. ASSUME NEW o \in Object, NavigationSmootherProfileCallback(o) PROVE CountChangeStep
  BY <1>11 DEF NavigationSmootherProfileCallback, Abort, ClearActive, Report
<1>12. ASSUME NEW o \in Object, GoalResponseCallback(o) PROVE CountChangeStep
  BY <1>12 DEF GoalResponseCallback, GoalRefused, GoalAccepted,
     RequestGoalCancellation, AskCancel, ClearActive, Report, Reply
<1>13. ASSUME NEW o \in Object, NavigationResultCallback(o) PROVE CountChangeStep
  BY <1>13 DEF NavigationResultCallback, ResultSwallowed, ResultOfCancel, ResultRecovers,
              ResultReported
<1>14. ASSUME NEW d \in answer_due, CancelResponseCallback(d[1], d[2]) PROVE CountChangeStep
  BY <1>14 DEF CancelResponseCallback, Reply
<1>15. CASE DriveStall
  BY <1>15 DEF DriveStall
<1>16. CASE RecoveryThread
  BY <1>16 DEF RecoveryThread, RecoveryFails, RecoveryRetries, RecoveryDone, Report,
     Requeue, Fresh
<1>17. ASSUME NEW w \in Worker, CancelForOperation(w) PROVE CountChangeStep
  BY <1>17 DEF CancelForOperation, AskCancel
<1>18. ASSUME NEW w \in Worker, CancelWaitOver(w) PROVE CountChangeStep
  BY <1>18 DEF CancelWaitOver, ClearActive
<1>19. CASE OperationResumes
  BY <1>19 DEF OperationResumes, Requeue, Fresh
<1>20. CASE OperationDone
  BY <1>20 DEF OperationDone
<1>21. CASE StallHandsOver
  BY <1>21, "stall" \in Worker DEF StallHandsOver, Job
<1>22. CASE StallGivesUp
  BY <1>22 DEF StallGivesUp
<1>23. CASE Nav2
  BY <1>23 DEF Nav2, Nav2Answers, Nav2Ends, Nav2AnswersCancel
<1>24. CASE UNCHANGED vars
  BY <1>24 DEF vars
<1> QED BY <1>1, <1>2, <1>3, <1>4, <1>5, <1>6, <1>7, <1>8, <1>9, <1>10, <1>11,
          <1>12, <1>13, <1>14, <1>15, <1>16, <1>17, <1>18, <1>19, <1>20, <1>21,
          <1>22, <1>23, <1>24
     DEF Next, Executor, Workers

\* A recovery that starts uses an attempt not yet used.
LEMMA StartCounts ==
  ASSUME TypeOK, Counted, NEW o \in Object, CanRecover(o), StartRecovery(o)
  PROVE  Counted'
<1>1. /\ Id(o) \in Command /\ attempt[o] \in 0..(MaxAttempts - 1)
      /\ <<Id(o), attempt[o]>> \notin attempted
      /\ attempted' = attempted \cup {<<Id(o), attempt[o]>>}
      /\ recoveries' = [recoveries EXCEPT ![Id(o)] = @ + 1]
      /\ recoveries \in [Command -> Nat]
  BY NavAssumption DEF TypeOK, CanRecover, StartRecovery, Id, Object
<1>2. ASSUME NEW c \in Command
      PROVE  recoveries'[c] = Cardinality(Tries(c)')
  <2>1. IsFiniteSet(Tries(c))
    <3>1. IsFiniteSet(0..(MaxAttempts - 1))
      BY NavAssumption, FS_Interval
    <3>2. Tries(c) \subseteq 0..(MaxAttempts - 1)
      BY DEF Tries
    <3> QED BY <3>1, <3>2, FS_Subset
  <2>2. CASE c = Id(o)
    <3>1. Tries(c)' = Tries(c) \cup {attempt[o]} /\ attempt[o] \notin Tries(c)
      BY <1>1, <2>2 DEF Tries
    <3>2. Cardinality(Tries(c)') = Cardinality(Tries(c)) + 1
      BY <2>1, <3>1, FS_AddElement
    <3> QED BY <1>1, <2>2, <3>2 DEF Counted
  <2>3. CASE c # Id(o)
    <3>1. Tries(c)' = Tries(c)
      BY <1>1, <2>3 DEF Tries
    <3> QED BY <1>1, <2>3, <3>1 DEF Counted
  <2> QED BY <2>2, <2>3
<1> QED BY <1>2 DEF Counted

\* Every attempt was used once.
LEMMA CountedStep == ASSUME IInv, [Next]_vars PROVE Counted'
<1>1. CountChangeStep /\ TypeOK /\ Counted
  BY CountChange DEF IInv
<1>2. CASE UNCHANGED <<attempted, recoveries>>
  BY <1>1, <1>2 DEF Counted, Tries
<1>3. CASE \E o \in Object : CanRecover(o) /\ StartRecovery(o)
  BY <1>1, <1>3, StartCounts
<1> QED BY <1>1, <1>2, <1>3 DEF CountChangeStep

-----------------------------------------------------------------------------
\* The invariant holds initially ...
LEMMA InitIInv == Init => IInv
<1> SUFFICES ASSUME Init PROVE IInv
  OBVIOUS
<1> USE NavAssumption DEF Init
<1>1. TypeOK
  <2>1. job \in [Worker -> Job]
    BY DEF Idle, Job
  <2>2. command_queue \in Seq(Object)
    OBVIOUS
  <2>3. attempt \in [Object -> 0..MaxAttempts] /\ born \in [Command -> 0..MaxStops]
        /\ stops \in 0..MaxStops /\ operations \in 0..MaxOperations
    OBVIOUS
  <2> QED BY <2>1, <2>2, <2>3 DEF TypeOK, Place, GoalState
<1>2. Located /\ ActiveIsWorking /\ OneRobotOperation /\ Allowed
  BY DEF Located, Exists, Queued, NetHolds, RosHolds, JobsHold, RecoveryHolds,
         ActiveIsWorking, OneRobotOperation, Allowed, Idle, Worker
<1>3. Counted
  BY FS_EmptySet DEF Counted, Tries
<1> QED BY <1>1, <1>2, <1>3 DEF IInv

\* ... and every step keeps it.
LEMMA NextIInv == ASSUME IInv, [Next]_vars PROVE IInv'
<1>1. TypeOK'
  BY QueueTypeStep, ActivityTypeStep, WorkerTypeStep, PlaceTypeStep, AttemptTypeStep,
     Nav2TypeStep, ServerTypeStep, CountTypeStep, SetsTypeStep, FlagsTypeStep
  DEF TypeOK, QueueType, ActivityType, WorkerType, PlaceType, AttemptType, Nav2Type,
      ServerType, CountType, SetsType, FlagsType
<1>2. Located'
  BY ExistsStep, QueuedStep, HeldStep, JobsHoldStep, RecoveryHoldsStep DEF Located
<1> QED BY <1>1, <1>2, ActiveIsWorkingStep, OneRobotOperationStep, AllowedStep, CountedStep
        DEF IInv

\* The inductive invariant holds of every behaviour.
THEOREM Inductive == Spec => []IInv
BY InitIInv, NextIInv, PTL DEF Spec

\* Every variable keeps its type, for every number of commands, stops,
\* recoveries and operations.
THEOREM TypeCorrect == Spec => []TypeOK
BY Inductive, PTL DEF IInv

\* Whatever is active is being worked on: no interleaving of the executor, the
\* asyncio thread, the workers and the stops leaves an active command behind
\* (web_bridge_node.py:5442-5552, 6256-6273).
THEOREM ActiveWorks == Spec => []ActiveIsWorking
BY Inductive, PTL DEF IInv

\* A guarded recovery never overlaps an operator's operation, and the flag they
\* share is set exactly while one of them runs (web_bridge_node.py:3305-3310,
\* 4174-4186, 4502-4507).
THEOREM RobotOperationExclusive == Spec => []OneRobotOperation
BY Inductive, PTL DEF IInv

\* The robot moves by itself at most MaxAttempts times for one command, however
\* the result callback, the stall watch and the operator's recovery interleave
\* (web_bridge_node.py:4126-4186).
THEOREM RecoveryBound == Spec => []RecoveriesBounded
<1>1. IInv => RecoveriesBounded
  <2> SUFFICES ASSUME IInv, NEW c \in Command PROVE recoveries[c] <= MaxAttempts
    BY DEF RecoveriesBounded
  <2>1. /\ IsFiniteSet(0..(MaxAttempts - 1))
        /\ Cardinality(0..(MaxAttempts - 1)) = MaxAttempts
    <3>1. /\ 0 \in Int /\ MaxAttempts - 1 \in Int
          /\ ~(0 > MaxAttempts - 1) /\ (MaxAttempts - 1) - 0 + 1 = MaxAttempts
      BY NavAssumption
    <3> QED BY <3>1, FS_Interval
  <2>2. Cardinality(Tries(c)) <= Cardinality(0..(MaxAttempts - 1))
    BY <2>1, FS_Subset DEF Tries
  <2> QED BY <2>1, <2>2 DEF IInv, Counted
<1> QED BY <1>1, Inductive, PTL
=============================================================================
