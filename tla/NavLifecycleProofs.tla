------------------------- MODULE NavLifecycleProofs -------------------------
(***************************************************************************)
(* What NavLifecycle guarantees for every number of attempts, every way in *)
(* which a saved map ends the session, and every number of failures.       *)
(*                                                                         *)
(* The invariants build on one another:                                    *)
(*   Typed    the types, and what each caller can be waiting for           *)
(*   Course   where the mapping worker may be, phase and flags included    *)
(*   Guarded  who holds the interlock where                                *)
(* and on these, each property has an invariant of its own.                *)
(***************************************************************************)
EXTENDS NavLifecycle, TLAPS

NodesType ==
  state \in [Manager -> NodeState] /\ by \in [Manager -> Caller \cup {"nobody", "late"}]
GatesType ==
  /\ marker \in BOOLEAN /\ lock \in {"free", "mapping", "gate"}
  /\ ready \in [{"starter", "watcher"} -> ReadyState]
  /\ gate \in GateState /\ repaired \in BOOLEAN
MappingType ==
  /\ phase \in Phase /\ step \in Step /\ paused \subseteq Manager /\ was \subseteq Manager
  /\ slam \in BOOLEAN /\ agent \in BOOLEAN /\ pose \in BOOLEAN
CountType ==
  /\ tries \in 0..(Attempts - 1) /\ events \in 0..MaxEvents
  /\ history \in [owed : SUBSET Manager, botched : BOOLEAN, stray : BOOLEAN]
CallType ==
  /\ call \in [Caller -> [req : Request \cup {None}, answer : Answer]]
  /\ late \subseteq Request

Typed == NodesType /\ CallType /\ GatesType /\ MappingType /\ CountType

LEMMA TypedIsTypeOK == Typed => TypeOK
  BY DEF Typed, TypeOK, NodesType, CallType, GatesType, MappingType, CountType

\* What each caller asks, while it waits.
Asked ==
  /\ Waits("mapping") => call["mapping"].req = Wanted(step)
  /\ Waits("pose") => pose /\ call["pose"].req = <<"localization", "resume">>
  /\ Waits("starter") => call["starter"].req = <<"localization", "startup">>
  /\ Waits("gate") =>
       gate \in {"startup", "reset", "pause"} /\ call["gate"].req = <<"navigation", gate>>
  /\ ready["watcher"] # "exited" => gate = "absent"  \* which launches the gate

\* The steps of start, of save and of _restore.
StartStep ==
  {"lock", "read", "pauseNav", "pauseLoc", "launch", "undoLoc", "undoNav", "undone"}
SaveStep == {"write", "activate", "activated"}
RestoreStep == {"stopSlam", "startLoc", "resetNav", "startNav", "restored"}

Course ==
  /\ step \in StartStep <=> phase = "STARTING"
  /\ step \in SaveStep => phase = "SAVING"
  /\ step \in RestoreStep => phase \in {"SAVING", "RESTORING"}
  /\ pose => phase = "IDLE"
  /\ paused \subseteq was
  /\ paused # {} => step \in {"pauseNav", "pauseLoc", "launch", "undoLoc", "undoNav"}
  /\ step \in {"pauseNav", "resetNav", "startNav"} => "navigation" \in was
  /\ step \in {"pauseLoc", "startLoc"} => "localization" \in was
  /\ step = "undoNav" => "navigation" \in paused
  /\ step = "undoLoc" => "localization" \in paused
  /\ step = "launch" => paused = was
  /\ step = "restored" => was = {}

\* The steps that ask a manager something hold the interlock, and so does a
\* session, until Nav2 is back; the gate holds it while it works.
Holding ==
  {"read", "pauseNav", "pauseLoc", "launch", "undoLoc", "undoNav",
   "startLoc", "resetNav", "startNav"}
Guarded ==
  /\ gate \in InFlight => lock = "gate"
  /\ step \in Holding \/ was # {} \/ phase \in {"MAPPING", "REVIEW", "SAVING"} =>
       lock = "mapping"

\* A manager that is not active, or that somebody without the interlock activated.
Aside(m) == Active(m) => by[m] \in {"late", "starter"}
Sole ==
  /\ phase \in {"MAPPING", "REVIEW"} \/ step = "write" => \A m \in Manager : Aside(m)
  /\ step \in {"pauseNav", "pauseLoc", "launch"} =>
       \A m \in Manager : m \notin was \/ m \in paused => Aside(m)
  /\ step \in {"pauseNav", "pauseLoc"} /\ Waits("mapping") /\ call["mapping"].answer = "ok" =>
       Aside(Wanted(step)[1])

Paused ==
  gate = "paused" \/ (gate = "pause" /\ call["gate"].answer = "ok")
Strays ==
  /\ Paused /\ Active("navigation") => history.stray
  /\ gate = "paused" /\ "navigation" \in was => history.stray

Owes ==
  /\ history.owed \subseteq was \/ history.botched
  /\ step \in {"lock", "read"} => history.owed = {} \/ history.botched
  /\ step = "activated" => history.owed = {}


-----------------------------------------------------------------------------
(* Who changes what. *)

USE DEF Next, ReadyWorks, PoseWorks, Operator, MappingWorks, Faults, GateWorks,
  nodes, files, gates, mapping, Quiet, Reports, Retries, Leaves, Enters, Undo, RestoreFails,
  TriesAgain, GivesUp, Ensured, Forgets, RestartStack, AgentEnds, Confirmed, Failed, Release, TryAcquire, Becomes,
  Execute, Lose, ExecuteLate, ReadyCheck, StateReceived, ReadyExit, StartupComplete, GateCheck,
  GateAcquire, PlannerStateComplete, GateStartupComplete, LifecycleResetComplete,
  FinishValidation, PauseComplete, HandleLocalizationCommand, ProcessLocalizationCommand,
  LocalizationResumed, StartSession, StopCapture, Save, Discard, MappingAsks, AcquireInterlock,
  InterlockTimeout, ReadActiveNodes, PauseManager, LaunchSlam, UndoPause, Undone,
  WriteOccupancyMap, ActivateSavedMap, Activated, StopSlamProcess, EnsureLifecycle, Restored,
  AgentCrash, AgentStop, AgentRestart, StackRestart

LEMMA CourseSteps ==
  ASSUME Next
  PROVE  \/ Operator
         \/ AcquireInterlock \/ InterlockTimeout \/ ReadActiveNodes \/ PauseManager \/ LaunchSlam
         \/ UndoPause \/ Undone \/ WriteOccupancyMap \/ ActivateSavedMap \/ Activated
         \/ StopSlamProcess \/ EnsureLifecycle \/ Restored \/ AgentCrash \/ AgentStop
         \/ UNCHANGED <<phase, step, paused, was>>
  OBVIOUS

LEMMA GateSteps ==
  ASSUME Next
  PROVE  GateCheck \/ GateWorks \/ ReadyExit \/ RestartStack \/ UNCHANGED gate
  OBVIOUS

LEMMA LockSteps ==
  ASSUME Next
  PROVE  \/ GateWorks \/ AcquireInterlock \/ Undone \/ Activated \/ Restored
         \/ AgentCrash \/ AgentStop \/ RestartStack
         \/ UNCHANGED lock
  OBVIOUS

LEMMA StateSteps ==
  ASSUME Next
  PROVE  \/ \E c \in Caller : Execute(c)
         \/ \E r \in late : ExecuteLate(r)
         \/ ReadyExit \/ RestartStack
         \/ UNCHANGED nodes
  OBVIOUS

LEMMA PoseSteps ==
  ASSUME Next
  PROVE  PoseWorks \/ AgentCrash \/ AgentStop \/ UNCHANGED pose
  OBVIOUS

LEMMA LateSteps ==
  ASSUME Next
  PROVE  \/ late' \subseteq late \cup Orphans({"mapping"})
         \/ AgentCrash \/ AgentStop
  OBVIOUS

LEMMA GatesSteps ==
  ASSUME Next
  PROVE  \/ GateWorks \/ ReadyWorks \/ GateCheck \/ RestartStack
         \/ UNCHANGED <<ready, gate, repaired>>
  OBVIOUS

LEMMA TriesSteps ==
  ASSUME Next
  PROVE  EnsureLifecycle \/ tries' = 0 \/ UNCHANGED tries
  OBVIOUS

LEMMA HistorySteps ==
  ASSUME Next
  PROVE  \/ RestartStack \/ AgentCrash \/ AgentStop \/ (\E r \in late : ExecuteLate(r))
         \/ StartSession \/ PauseManager \/ UndoPause \/ Undone \/ EnsureLifecycle
         \/ UNCHANGED history
  OBVIOUS

LEMMA FlagSteps ==
  ASSUME Next, marker \in BOOLEAN, slam \in BOOLEAN, agent \in BOOLEAN, pose \in BOOLEAN
  PROVE  marker' \in BOOLEAN /\ slam' \in BOOLEAN /\ agent' \in BOOLEAN /\ pose' \in BOOLEAN
  OBVIOUS

LEMMA EventsSteps == ASSUME Next PROVE Occurs \/ UNCHANGED events
  OBVIOUS

HIDE DEF Next, ReadyWorks, PoseWorks, Operator, MappingWorks, Faults, GateWorks,
  nodes, files, gates, mapping, Quiet, Reports, Retries, Leaves, Enters, Undo, RestoreFails,
  TriesAgain, GivesUp, Ensured, Forgets, RestartStack, AgentEnds, Confirmed, Failed, Release, TryAcquire, Becomes,
  Execute, Lose, ExecuteLate, ReadyCheck, StateReceived, ReadyExit, StartupComplete, GateCheck,
  GateAcquire, PlannerStateComplete, GateStartupComplete, LifecycleResetComplete,
  FinishValidation, PauseComplete, HandleLocalizationCommand, ProcessLocalizationCommand,
  LocalizationResumed, StartSession, StopCapture, Save, Discard, MappingAsks, AcquireInterlock,
  InterlockTimeout, ReadActiveNodes, PauseManager, LaunchSlam, UndoPause, Undone,
  WriteOccupancyMap, ActivateSavedMap, Activated, StopSlamProcess, EnsureLifecycle, Restored,
  AgentCrash, AgentStop, AgentRestart, StackRestart

LEMMA CallSteps ==
  ASSUME Next
  PROVE  \/ \E c \in Caller : Execute(c) \/ Lose(c)
         \/ RestartStack \/ AgentCrash \/ AgentStop
         \/ MappingAsks \/ ProcessLocalizationCommand \/ StateReceived("starter") \/ GateWorks
         \/ \E c \in Caller : call' = [call EXCEPT ![c] = Idle]
         \/ UNCHANGED call
  <1> USE DEF Caller
  <1>1. CASE GateCheck \/ GateWorks
      BY <1>1 DEF GateCheck, Reports
  <1>2. CASE ReadyWorks
    <2>1. ASSUME NEW g \in {"starter", "watcher"}, ReadyCheck(g) \/ StateReceived(g)
          PROVE  StateReceived("starter") \/ UNCHANGED call
        BY <2>1 DEF ReadyCheck, StateReceived
    <2> QED
        BY <1>2, <2>1 DEF ReadyWorks, ReadyExit, StartupComplete, Hears
  <1>3. CASE PoseWorks \/ Operator
      BY <1>3
      DEF PoseWorks, HandleLocalizationCommand, LocalizationResumed, Hears, Operator, StartSession,
          StopCapture, Save, Discard
  <1>4. CASE Faults
      BY <1>4 DEF Faults, AgentRestart, StackRestart
  <1>5. CASE MappingWorks
      BY <1>5
      DEF MappingWorks, AcquireInterlock, InterlockTimeout, ReadActiveNodes, PauseManager,
          LaunchSlam, UndoPause, Undone, WriteOccupancyMap, ActivateSavedMap, Activated,
          StopSlamProcess, EnsureLifecycle, Restored, Confirmed, Failed
  <1>6. CASE \E r \in late : ExecuteLate(r)
      BY <1>6 DEF ExecuteLate
  <1> QED
      BY <1>1, <1>2, <1>3, <1>4, <1>5, <1>6 DEF Next

-----------------------------------------------------------------------------
(* Types, and what the callers wait for. *)

LEMMA CallTyped ==
  ASSUME CallType, Next
  PROVE  call' \in [Caller -> [req : Request \cup {None}, answer : Answer]]
  <1> USE DEF CallType, Caller, Answer, Idle, Asks
  <1>1. ASSUME NEW c \in Caller, NEW a \in Answer, call' = [call EXCEPT ![c].answer = a]
        PROVE  call' \in [Caller -> [req : Request \cup {None}, answer : Answer]]
      BY <1>1
  <1>2. ASSUME NEW c \in Caller, NEW r \in Request,
               call' = [call EXCEPT ![c] = [req |-> r, answer |-> "pending"]]
        PROVE  call' \in [Caller -> [req : Request \cup {None}, answer : Answer]]
      BY <1>2
  <1>3. ASSUME NEW c \in Caller, call' = [call EXCEPT ![c] = Idle]
        PROVE  call' \in [Caller -> [req : Request \cup {None}, answer : Answer]]
      BY <1>3
  <1>4. CASE \E c \in Caller : Execute(c) \/ Lose(c)
      BY <1>1, <1>4 DEF Execute, Lose
  <1>5. CASE RestartStack
      BY <1>5 DEF RestartStack
  <1>6. CASE AgentCrash \/ AgentStop
      BY <1>6 DEF AgentCrash, AgentStop, AgentEnds
  <1>7. CASE MappingAsks \/ ProcessLocalizationCommand \/ StateReceived("starter")
      BY <1>2, <1>3, <1>7
      DEF MappingAsks, ProcessLocalizationCommand, StateReceived, Wanted, Request, Manager, Command,
          None
  <1>8. CASE GateWorks
      BY <1>2, <1>3, <1>8
      DEF GateWorks, GateAcquire, PlannerStateComplete, GateStartupComplete, LifecycleResetComplete, FinishValidation, PauseComplete,
        Hears, Request, Manager, Command
  <1> QED
      BY <1>3, <1>4, <1>5, <1>6, <1>7, <1>8, CallSteps

LEMMA LateTyped == ASSUME CallType, Next PROVE late' \subseteq Request
  <1>1. \A cs \in SUBSET Caller : Orphans(cs) \subseteq Request
      BY DEF Orphans, Pending, Waits, CallType
  <1>2. Orphans({"mapping"}) \subseteq Request /\ Orphans({"mapping", "pose"}) \subseteq Request
      BY <1>1 DEF Caller
  <1>3. <<"localization", "resume">> \in Request /\ <<"navigation", "reset">> \in Request
      BY DEF Request, Manager, Command
  <1> QED
      BY <1>2, <1>3, LateSteps DEF CallType, AgentCrash, AgentStop, AgentEnds

LEMMA NodesTyped == ASSUME NodesType, CallType, Next PROVE NodesType'
  <1> USE DEF NodesType, Manager, NodeState
  <1>1. \A r \in Request : r[1] \in Manager /\ r[2] \in Command
      BY DEF Request
  <1>2. \A cmd \in Command : Reached(cmd) \in NodeState
      BY DEF Command, Reached
  <1>3. ASSUME NEW m \in Manager, NEW s \in NodeState, NEW who \in Caller \cup {"late"},
               Moves(m, s, who)
        PROVE  NodesType'
      BY <1>3 DEF Moves
  <1>4. ASSUME NEW c \in Caller, Execute(c) PROVE NodesType'
    <2>1. call[c].req \in Request
        BY <1>4 DEF Execute, Pending, Waits, CallType
    <2>2. state[call[c].req[1]] \in NodeState
        BY <1>1, <2>1
    <2> QED
        BY <1>1, <1>2, <1>3, <1>4, <2>1, <2>2 DEF Execute, nodes
  <1>5. ASSUME NEW r \in late, ExecuteLate(r) PROVE NodesType'
      BY <1>1, <1>2, <1>3, <1>5 DEF ExecuteLate, nodes, CallType
  <1>6. CASE ReadyExit
      BY <1>6 DEF ReadyExit
  <1>7. CASE RestartStack
      BY <1>7 DEF RestartStack
  <1> QED
      BY <1>4, <1>5, <1>6, <1>7, StateSteps DEF nodes

LEMMA GatesTyped == ASSUME GatesType, MappingType, Next PROVE GatesType'
  <1> USE DEF GatesType, ReadyState, GateState, InFlight, GateEnd
  <1>1. marker' \in BOOLEAN
      BY FlagSteps DEF MappingType
  <1>2. lock' \in {"free", "mapping", "gate"}
    <2>1. CASE GateWorks
        BY <2>1
        DEF GateWorks, GateAcquire, PlannerStateComplete, GateStartupComplete,
            LifecycleResetComplete, FinishValidation, PauseComplete, Reports, Retries, Leaves,
            Release, TryAcquire
    <2>2. CASE AcquireInterlock \/ Undone \/ Activated \/ Restored
        BY <2>2 DEF AcquireInterlock, Undone, Activated, Restored, Release, TryAcquire
    <2>3. CASE AgentCrash \/ AgentStop \/ RestartStack
        BY <2>3 DEF AgentCrash, AgentStop, AgentEnds, RestartStack, Release
    <2> QED
        BY <2>1, <2>2, <2>3, LockSteps
  <1>3. /\ ready' \in [{"starter", "watcher"} -> ReadyState]
        /\ gate' \in GateState /\ repaired' \in BOOLEAN
    <2>1. CASE GateWorks
        BY <2>1
        DEF GateWorks, GateAcquire, PlannerStateComplete, GateStartupComplete,
            LifecycleResetComplete, FinishValidation, PauseComplete, Reports, Retries, Leaves
    <2>2. CASE ReadyWorks
        BY <2>2 DEF ReadyWorks, ReadyCheck, StateReceived, ReadyExit, StartupComplete, Becomes
    <2>3. CASE GateCheck \/ RestartStack
        BY <2>3 DEF GateCheck, Reports, RestartStack
    <2> QED
        BY <2>1, <2>2, <2>3, GatesSteps
  <1> QED
      BY <1>1, <1>2, <1>3

LEMMA MappingTyped == ASSUME MappingType, GatesType, Next PROVE MappingType'
  <1> USE DEF MappingType, Phase, Step, Manager, Enters, Undo, AfterUndo, Wanted, Confirmed, Failed
  <1>1. slam' \in BOOLEAN /\ agent' \in BOOLEAN /\ pose' \in BOOLEAN
      BY FlagSteps DEF GatesType
  <1>2. CASE Operator
      BY <1>1, <1>2 DEF Operator, StartSession, StopCapture, Save, Discard
  <1>3. CASE AcquireInterlock \/ InterlockTimeout
      BY <1>1, <1>3 DEF AcquireInterlock, InterlockTimeout
  <1>4. CASE ReadActiveNodes
      BY <1>1, <1>4 DEF ReadActiveNodes, AfterRead
  <1>5. CASE PauseManager
      BY <1>1, <1>5 DEF PauseManager, AfterRead
  <1>6. CASE LaunchSlam \/ Undone
      BY <1>1, <1>6 DEF LaunchSlam, Undone
  <1>7. CASE UndoPause
      BY <1>1, <1>7 DEF UndoPause
  <1>8. CASE WriteOccupancyMap \/ ActivateSavedMap \/ Activated
      BY <1>1, <1>8 DEF WriteOccupancyMap, ActivateSavedMap, Activated
  <1>9. CASE StopSlamProcess
      BY <1>1, <1>9 DEF StopSlamProcess, AfterStop, RestoreFails
  <1>10. CASE EnsureLifecycle
      BY <1>1, <1>10
      DEF EnsureLifecycle, Ensured, TriesAgain, GivesUp, AfterStop, RestoreFails
  <1>11. CASE Restored \/ AgentCrash \/ AgentStop
      BY <1>1, <1>11 DEF Restored, AgentCrash, AgentStop, AgentEnds
  <1> QED
      BY <1>1, <1>2, <1>3, <1>4, <1>5, <1>6, <1>7, <1>8, <1>9, <1>10, <1>11, CourseSteps

LEMMA CountTyped == ASSUME CountType, MappingType, Next PROVE CountType'
  <1> USE LifecycleAssumption DEF CountType
  <1>1. tries' \in 0..(Attempts - 1)
      BY TriesSteps
      DEF EnsureLifecycle, Ensured, TriesAgain, GivesUp, RestoreFails
  <1>2. events' \in 0..MaxEvents
      BY EventsSteps DEF Occurs
  <1>3. history' \in [owed : SUBSET Manager, botched : BOOLEAN, stray : BOOLEAN]
    <2> DEFINE Good == history' \in [owed : SUBSET Manager, botched : BOOLEAN, stray : BOOLEAN]
    <2>1. CASE RestartStack \/ AgentCrash \/ AgentStop
        BY <2>1 DEF RestartStack, AgentCrash, AgentStop, AgentEnds
    <2>2. ASSUME NEW r \in late, ExecuteLate(r) PROVE Good
      <3>1. (history.stray \/ (gate \in {"pause", "paused"} /\ state' # state)) \in BOOLEAN
          OBVIOUS
      <3> QED
          BY <2>2, <3>1 DEF ExecuteLate
    <2>3. CASE StartSession \/ Undone
      <3>1. (history.botched \/ history.owed # {}) \in BOOLEAN
          OBVIOUS
      <3> QED
          BY <2>3, <3>1 DEF StartSession, Undone
    <2>4. CASE PauseManager
      <3>1. Wanted(step)[1] \in Manager
          BY <2>4 DEF PauseManager, Wanted, Manager
      <3> QED
          BY <2>4, <3>1 DEF PauseManager
    <2>5. CASE UndoPause \/ EnsureLifecycle
        BY <2>5 DEF UndoPause, EnsureLifecycle, Ensured, Forgets, TriesAgain, GivesUp
    <2> QED
        BY <2>1, <2>2, <2>3, <2>4, <2>5, HistorySteps
  <1> QED
      BY <1>1, <1>2, <1>3

LEMMA TypedInit == Init => Typed
  <1> SUFFICES ASSUME Init PROVE Typed
      OBVIOUS
  <1> USE DEF Init
  <1>1. NodesType
      BY DEF NodesType, Manager, NodeState, Caller
  <1>2. CallType
      BY DEF CallType, Idle, Caller, Answer
  <1>3. GatesType /\ MappingType
      BY DEF GatesType, MappingType, ReadyState, GateState, Phase, Step
  <1>4. CountType
    <2>1. 0 \in 0..(Attempts - 1) /\ 0 \in 0..MaxEvents
        BY LifecycleAssumption
    <2> QED
        BY <2>1 DEF CountType
  <1> QED
      BY <1>1, <1>2, <1>3, <1>4 DEF Typed

LEMMA TypedStep == ASSUME Typed, [Next]_vars PROVE Typed'
  <1>1. CASE Next
      BY <1>1, CallTyped, LateTyped, NodesTyped, GatesTyped, MappingTyped, CountTyped
      DEF Typed, CallType
  <1>2. CASE UNCHANGED vars
      BY <1>2
      DEF vars, nodes, files, gates, mapping, Typed, NodesType, CallType, GatesType, MappingType,
          CountType
  <1> QED
      BY <1>1, <1>2

LEMMA AlwaysTyped == Spec => []Typed
  BY TypedInit, TypedStep, PTL DEF Spec

\* The types of the lifecycle state: every answer, timeout, crash and restart
\* leaves the mapping worker at a step the code has, within its attempts.
THEOREM TypeCorrect == Spec => []TypeOK
  BY AlwaysTyped, TypedIsTypeOK, PTL

-----------------------------------------------------------------------------
(* The course of the mapping worker. *)

LEMMA CourseStep ==
  ASSUME Typed, Course, Next PROVE Course'
  <1> USE DEF Course, StartStep, SaveStep, RestoreStep, Enters, Undo, AfterUndo
  <1>1. CASE Operator
      BY <1>1
      DEF Operator, StartSession, StopCapture, Save, Discard, Listens, Quiet
  <1>2. CASE AcquireInterlock \/ InterlockTimeout
      BY <1>2 DEF AcquireInterlock, InterlockTimeout, Quiet
  <1>3. CASE ReadActiveNodes
      BY <1>3 DEF ReadActiveNodes, AfterRead, Quiet, Manager
  <1>4. CASE PauseManager
    <2>1. Wanted(step)[1] \in was /\ was \subseteq Manager /\ UNCHANGED <<phase, was, pose>>
        BY <1>4 DEF PauseManager, Wanted, Typed, MappingType, Undo, Quiet
    <2>2. CASE Undo /\ UNCHANGED paused
        BY <1>4, <2>1, <2>2 DEF PauseManager, Manager
    <2>3. CASE /\ paused' = paused \cup {Wanted(step)[1]}
               /\ step' = AfterRead(was \ paused')
      <3>1. CASE step' = "launch"
        <4>1. was \ paused' = {}
            BY <2>1, <2>3, <3>1 DEF AfterRead, Manager
        <4> QED
            BY <1>4, <2>1, <2>3, <3>1, <4>1 DEF PauseManager
      <3>2. CASE step' # "launch"
          BY <1>4, <2>1, <2>3, <3>2 DEF PauseManager, AfterRead
      <3> QED
          BY <3>1, <3>2
    <2> QED
        BY <1>4, <2>2, <2>3 DEF PauseManager, Undo
  <1>5. CASE LaunchSlam
      BY <1>5 DEF LaunchSlam, Quiet, Typed, MappingType, Manager
  <1>12. CASE Undone
      BY <1>12 DEF Undone, Quiet
  <1>6. CASE UndoPause
      BY <1>6 DEF UndoPause, Quiet, Wanted, Typed, MappingType, Manager
  <1>7. CASE WriteOccupancyMap \/ ActivateSavedMap \/ Activated
      BY <1>7 DEF WriteOccupancyMap, ActivateSavedMap, Activated, Quiet
  <1>8. CASE StopSlamProcess
      BY <1>8 DEF StopSlamProcess, AfterStop, RestoreFails, Quiet, Typed, MappingType, Manager
  <1>9. CASE EnsureLifecycle
      BY <1>9
      DEF EnsureLifecycle, Ensured, TriesAgain, GivesUp, AfterStop, RestoreFails, Quiet, Wanted,
          Typed, MappingType, Manager
  <1>10. CASE Restored \/ AgentCrash \/ AgentStop
      BY <1>10 DEF Restored, AgentCrash, AgentStop, AgentEnds, Quiet
  <1>11. CASE UNCHANGED <<phase, step, paused, was>>
    <2>1. pose' => phase = "IDLE"
        BY <1>11, PoseSteps
        DEF PoseWorks, HandleLocalizationCommand, ProcessLocalizationCommand, LocalizationResumed,
            AgentCrash, AgentStop, AgentEnds
    <2> QED
        BY <1>11, <2>1
  <1> QED
      BY <1>1, <1>2, <1>3, <1>4, <1>5, <1>6, <1>7, <1>8, <1>9, <1>10, <1>11, <1>12,
         CourseSteps

\* A step that asks nothing of a manager.
LEMMA WantsNothing ==
  Wanted(step) # None =>
    step \in {"pauseNav", "pauseLoc", "undoLoc", "undoNav", "startLoc", "resetNav", "startNav"}
  BY DEF Wanted

\* A request lasts until its caller hears of it or goes away.
LEMMA Requests ==
  ASSUME CallType, Next
  PROVE  /\ call'["mapping"].req \in {call["mapping"].req, None} \/ MappingAsks
         /\ call'["pose"].req \in {call["pose"].req, None} \/ ProcessLocalizationCommand
         /\ call'["starter"].req \in {call["starter"].req, None} \/ StateReceived("starter")
         /\ call'["gate"].req \in {call["gate"].req, None} \/ GateWorks
  <1> USE DEF CallType, Caller, Idle, Asks
  <1> DEFINE Lasts(c) == call'[c].req \in {call[c].req, None}
  <1>1. ASSUME NEW c \in Caller, Execute(c) \/ Lose(c) PROVE \A d \in Caller : Lasts(d)
    <2>1. PICK a : call' = [call EXCEPT ![c].answer = a]
        BY <1>1 DEF Execute, Lose
    <2> QED
        BY <2>1
  <1>2. CASE RestartStack
      BY <1>2 DEF RestartStack
  <1>3. CASE AgentCrash \/ AgentStop
      BY <1>3 DEF AgentCrash, AgentStop, AgentEnds
  <1>4. ASSUME NEW c \in Caller, call' = [call EXCEPT ![c] = Idle] PROVE \A d \in Caller : Lasts(d)
      BY <1>4
  <1>5. CASE MappingAsks
      BY <1>5 DEF MappingAsks
  <1>6. CASE ProcessLocalizationCommand
      BY <1>6 DEF ProcessLocalizationCommand
  <1>7. CASE StateReceived("starter")
      BY <1>7 DEF StateReceived
  <1>8. CASE GateWorks
      BY <1>8
      DEF GateWorks, GateAcquire, PlannerStateComplete, GateStartupComplete,
          LifecycleResetComplete, FinishValidation, PauseComplete, Hears
  <1> QED
      BY <1>1, <1>2, <1>3, <1>4, <1>5, <1>6, <1>7, <1>8, CallSteps

\* Whoever moves the worker on has its answer, or asked nothing.
LEMMA AskedStep ==
  ASSUME Typed, Asked, Course, Next PROVE Asked'
  <1> USE DEF Caller, Waits, Idle
  <1> USE DEF Asked
  <1>1. Waits("mapping")' => call'["mapping"].req = Wanted(step)'
    <2>1. CASE MappingAsks
      <3>1. Wanted(step) = <<Wanted(step)[1], Wanted(step)[2]>> /\ UNCHANGED step
          BY <2>1 DEF MappingAsks, Wanted, None, mapping
      <3>2. call'["mapping"].req = <<Wanted(step)[1], Wanted(step)[2]>>
          BY <2>1 DEF MappingAsks, Asks, Typed, CallType
      <3> QED
          BY <3>1, <3>2
    <2>2. CASE UNCHANGED step /\ ~MappingAsks
        BY <2>2, Requests DEF Typed
    <2>3. CASE step' # step
      <3>1. Operator => step = "none"
          BY DEF Operator, StartSession, StopCapture, Save, Discard, Listens
      <3>2. CASE Wanted(step) = None
        <4>1. ~MappingAsks /\ call["mapping"].req = None
            BY <3>2 DEF MappingAsks
        <4> QED
            BY <4>1, Requests DEF Typed
      <3>3. CASE call'["mapping"] = Idle
          BY <3>3
      <3>4. Wanted(step) = None \/ call'["mapping"] = Idle
        <4>1. CASE PauseManager \/ UndoPause \/ EnsureLifecycle
            BY <4>1
            DEF PauseManager, UndoPause, EnsureLifecycle, Confirmed, Failed, Typed, CallType
        <4>2. CASE AgentCrash \/ AgentStop
            BY <4>2 DEF AgentCrash, AgentStop, AgentEnds, Typed, CallType
        <4>3. CASE Operator \/ AcquireInterlock \/ InterlockTimeout \/ ReadActiveNodes \/ LaunchSlam
                   \/ Undone \/ WriteOccupancyMap \/ ActivateSavedMap \/ Activated
                   \/ StopSlamProcess \/ Restored
            BY <3>1, <4>3, WantsNothing
            DEF AcquireInterlock, InterlockTimeout, ReadActiveNodes, LaunchSlam, Undone,
                WriteOccupancyMap, ActivateSavedMap, Activated, StopSlamProcess, Restored
        <4> QED
            BY <2>3, <4>1, <4>2, <4>3, CourseSteps
      <3> QED
          BY <3>2, <3>3, <3>4
    <2> QED
        BY <2>1, <2>2, <2>3
  <1>2. Waits("pose")' => pose' /\ call'["pose"].req = <<"localization", "resume">>
    <2>1. CASE ProcessLocalizationCommand
      <3>1. CASE UNCHANGED call
          BY <2>1, <3>1 DEF ProcessLocalizationCommand
      <3>2. CASE pose' = pose /\ Asks("pose", "localization", "resume")
          BY <2>1, <3>2 DEF ProcessLocalizationCommand, Asks, Typed, CallType
      <3> QED
          BY <2>1, <3>1, <3>2 DEF ProcessLocalizationCommand
    <2>2. CASE AgentCrash \/ AgentStop
        BY <2>2 DEF AgentCrash, AgentStop, AgentEnds, Typed, CallType
    <2>3. CASE LocalizationResumed
        BY <2>3 DEF LocalizationResumed, Hears, Typed, CallType
    <2>4. CASE HandleLocalizationCommand \/ UNCHANGED pose
        BY <2>1, <2>4, Requests DEF Typed, HandleLocalizationCommand
    <2> QED
        BY <2>1, <2>2, <2>3, <2>4, PoseSteps DEF PoseWorks
  <1>3. Waits("starter")' => call'["starter"].req = <<"localization", "startup">>
      BY Requests DEF StateReceived, Asks, Typed, CallType
  <1>4. Waits("gate")' =>
          gate' \in {"startup", "reset", "pause"} /\ call'["gate"].req = <<"navigation", gate'>>
    <2>1. CASE GateWorks
      <3>1. CASE GateAcquire
          BY <3>1 DEF GateAcquire, Reports
      <3>2. CASE PlannerStateComplete
          BY <3>2 DEF PlannerStateComplete, Retries, Reports, Asks, Typed, CallType
      <3>3. CASE GateStartupComplete
          BY <3>3 DEF GateStartupComplete, Retries, Leaves, Reports, Asks, Hears, Typed, CallType
      <3>4. CASE LifecycleResetComplete \/ PauseComplete
          BY <3>4 DEF LifecycleResetComplete, PauseComplete, Hears, Typed, CallType
      <3>5. CASE FinishValidation
          BY <3>5 DEF FinishValidation, Leaves, Reports, Asks, Typed, CallType
      <3> QED
          BY <2>1, <3>1, <3>2, <3>3, <3>4, <3>5 DEF GateWorks
    <2>2. CASE GateCheck \/ ReadyExit
        BY <2>2 DEF GateCheck, ReadyExit, Reports
    <2>3. CASE RestartStack
        BY <2>3 DEF RestartStack
    <2>4. CASE UNCHANGED gate /\ ~GateWorks
        BY <2>4, Requests DEF Typed
    <2> QED
        BY <2>1, <2>2, <2>3, <2>4, GateSteps
  <1>5. ready'["watcher"] # "exited" => gate' = "absent"
    <2>1. CASE GateWorks
        BY <2>1
        DEF GateWorks, GateAcquire, PlannerStateComplete, GateStartupComplete,
            LifecycleResetComplete, FinishValidation, PauseComplete, Reports, Retries, Leaves
    <2>2. CASE GateCheck \/ RestartStack
        BY <2>2 DEF GateCheck, Reports, RestartStack
    <2>3. CASE ReadyWorks
        BY <2>3
        DEF ReadyWorks, ReadyCheck, StateReceived, ReadyExit, StartupComplete, Becomes, Typed,
            GatesType
    <2> QED
        BY <2>1, <2>2, <2>3, GatesSteps
  <1> QED
      BY <1>1, <1>2, <1>3, <1>4, <1>5 DEF Asked

-----------------------------------------------------------------------------
(* The interlock. *)

\* The gate works only with the interlock, and no step of the mapping worker
\* takes it away.
LEMMA GateHoldsStep ==
  ASSUME Guarded, Next PROVE gate' \in InFlight => lock' = "gate"
  <1> USE DEF Guarded, InFlight
  <1>1. CASE GateWorks
      BY <1>1
      DEF GateWorks, GateAcquire, PlannerStateComplete, GateStartupComplete,
          LifecycleResetComplete, FinishValidation, PauseComplete, Reports, Retries, Leaves,
          Release, TryAcquire
  <1>2. CASE GateCheck \/ ReadyExit \/ RestartStack
      BY <1>2 DEF GateCheck, ReadyExit, RestartStack, Reports
  <1>3. CASE UNCHANGED gate /\ ~GateWorks
    <2>1. CASE AcquireInterlock \/ Undone \/ Activated \/ Restored
        BY <1>3, <2>1
        DEF AcquireInterlock, Undone, Activated, Restored, Release, TryAcquire
    <2>2. CASE AgentCrash \/ AgentStop \/ RestartStack
        BY <1>3, <2>2 DEF AgentCrash, AgentStop, AgentEnds, RestartStack, Release
    <2> QED
        BY <1>3, <2>1, <2>2, LockSteps
  <1> QED
      BY <1>1, <1>2, <1>3, GateSteps

LEMMA SessionHoldsStep ==
  ASSUME Typed, Course, Guarded, Next
  PROVE  step' \in Holding \/ was' # {} \/ phase' \in {"MAPPING", "REVIEW", "SAVING"} =>
           lock' = "mapping"
  <1> USE DEF Guarded, Holding, Course, StartStep, SaveStep, RestoreStep, Enters, Undo, AfterUndo
  <1>1. CASE Operator
      BY <1>1 DEF Operator, StartSession, StopCapture, Save, Discard, files, Listens
  <1>2. CASE AcquireInterlock \/ InterlockTimeout
      BY <1>2 DEF AcquireInterlock, InterlockTimeout, TryAcquire
  <1>3. CASE ReadActiveNodes \/ PauseManager \/ LaunchSlam \/ UndoPause
      BY <1>3 DEF ReadActiveNodes, PauseManager, LaunchSlam, UndoPause, files
  <1>4. CASE Undone \/ Activated \/ Restored
      BY <1>4 DEF Undone, Activated, Restored, Release
  <1>5. CASE WriteOccupancyMap
      BY <1>5 DEF WriteOccupancyMap, files
  <1>6. CASE ActivateSavedMap
      BY <1>6 DEF ActivateSavedMap, RestartStack, Release
  <1>7. CASE StopSlamProcess
      BY <1>7 DEF StopSlamProcess, AfterStop, RestoreFails, files
  <1>8. CASE EnsureLifecycle
      BY <1>8 DEF EnsureLifecycle, files
  <1>9. CASE AgentCrash \/ AgentStop
      BY <1>9 DEF AgentCrash, AgentStop, AgentEnds
  <1>10. CASE UNCHANGED <<phase, step, paused, was>>
    <2>1. CASE GateWorks
        BY <1>10, <2>1
        DEF GateWorks, GateAcquire, PlannerStateComplete, GateStartupComplete,
            LifecycleResetComplete, FinishValidation, PauseComplete, Reports, Retries, Leaves,
            Release, TryAcquire
    <2>2. CASE RestartStack \/ UNCHANGED lock
        BY <1>10, <2>2 DEF RestartStack, Release
    <2> QED
        BY <1>2, <1>4, <1>9, <1>10, <2>1, <2>2, LockSteps
  <1> QED
      BY <1>1, <1>2, <1>3, <1>4, <1>5, <1>6, <1>7, <1>8, <1>9, <1>10, CourseSteps

Sound == Typed /\ Asked /\ Course /\ Guarded

LEMMA SoundInit == Init => Sound
  <1> SUFFICES ASSUME Init PROVE Sound
      OBVIOUS
  <1>1. Typed
      BY TypedInit
  <1>2. Asked /\ Course /\ Guarded
      BY DEF Init, Asked, Course, Guarded, Waits, Idle, Caller, StartStep, SaveStep, RestoreStep,
             Holding, InFlight
  <1> QED
      BY <1>1, <1>2 DEF Sound

LEMMA SoundStep == ASSUME Sound, [Next]_vars PROVE Sound'
  <1>1. CASE Next
      BY <1>1, TypedStep, AskedStep, CourseStep, GateHoldsStep, SessionHoldsStep
      DEF Sound, Guarded
  <1>2. CASE UNCHANGED vars
    <2>1. Typed'
        BY <1>2, TypedStep DEF Sound
    <2> QED
        BY <1>2, <2>1
        DEF Sound, Asked, Course, Guarded, Waits, vars, nodes, files, gates, mapping
  <1> QED
      BY <1>1, <1>2

LEMMA AlwaysSound == Spec => []Sound
  BY SoundInit, SoundStep, PTL DEF Spec

LEMMA SoundIsOne == Sound => OneTransition
  <1> SUFFICES ASSUME Sound, Waits("gate"), Waits("mapping") PROVE FALSE
      BY DEF OneTransition
  <1>1. gate \in InFlight
      BY DEF Sound, Asked, InFlight
  <1>2. step \in Holding
      BY WantsNothing DEF Sound, Asked, Waits, Holding
  <1> QED
      BY <1>1, <1>2 DEF Sound, Guarded

\* A pause or a start of Nav2 has one author at a time: the mapping runtime and
\* the activation gate never both wait for a lifecycle manager, since whoever
\* asks holds the interlock, on every return, failure, crash and restart.
THEOREM OneAuthor == Spec => []OneTransition
  BY AlwaysSound, SoundIsOne, PTL

-----------------------------------------------------------------------------
(* What SLAM finds of Nav2 and AMCL. *)

\* While a session is being set up or captures, only a request that outlived its
\* caller and the readiness gate can activate a manager.
LEMMA AsideLasts ==
  ASSUME Sound, Next, NEW m \in Manager, Aside(m),
         step \in {"pauseNav", "pauseLoc", "launch", "write"} \/ phase \in {"MAPPING", "REVIEW"}
  PROVE  Aside(m)'
  <1> USE DEF Aside, Active, Manager
  <1>1. phase # "IDLE" /\ lock = "mapping"
      BY DEF Sound, Course, Guarded, StartStep, SaveStep, Holding
  <1>2. ASSUME NEW n \in Manager, NEW s \in NodeState, NEW who \in {"late", "starter"},
               Moves(n, s, who)
        PROVE  Aside(m)'
      BY <1>2 DEF Moves, Sound, Typed, NodesType
  <1>3. ASSUME NEW n \in Manager, NEW s \in NodeState, NEW who, Moves(n, s, who),
               s # "active" \/ Active(n)
        PROVE  Aside(m)'
      BY <1>3 DEF Moves, Sound, Typed, NodesType
  <1>4. ASSUME NEW c \in Caller, Execute(c) PROVE Aside(m)'
    <2>1. call[c].req \in Request /\ call[c].req[1] \in Manager /\ call[c].req[2] \in Command
        BY <1>4 DEF Execute, Pending, Waits, Sound, Typed, CallType, Request
    <2>2. Reached(call[c].req[2]) \in NodeState /\ state[call[c].req[1]] \in NodeState
        BY <2>1 DEF Reached, Command, NodeState, Sound, Typed, NodesType
    <2>3. CASE c = "starter"
        BY <1>2, <1>4, <2>1, <2>2, <2>3 DEF Execute, nodes
    <2>4. CASE c = "mapping"
      <3>1. call[c].req[2] = "pause"
        <4>1. Wanted(step) = call[c].req /\ Wanted(step) # None
            BY <1>4, <2>4 DEF Execute, Pending, Waits, Sound, Asked
        <4> QED
            BY <4>1, WantsNothing
            DEF Wanted, Sound, Course, StartStep, SaveStep, RestoreStep
      <3>2. Reached("pause") = "inactive" /\ (Applies("pause", state[call[c].req[1]]) =>
              state[call[c].req[1]] = "active")
          BY DEF Reached, Applies
      <3> QED
          BY <1>3, <1>4, <2>1, <2>2, <3>1, <3>2 DEF Execute, nodes
    <2>5. c \notin {"gate", "pose"}
        BY <1>1, <1>4 DEF Execute, Pending, Sound, Asked, Guarded, Course, InFlight
    <2> QED
        BY <2>3, <2>4, <2>5 DEF Caller
  <1>5. ASSUME NEW r \in late, ExecuteLate(r) PROVE Aside(m)'
    <2>1. r[1] \in Manager /\ Reached(r[2]) \in NodeState
        BY DEF Sound, Typed, CallType, Request, Reached, Command, NodeState
    <2> QED
        BY <1>2, <1>5, <2>1 DEF ExecuteLate, nodes
  <1>6. CASE ReadyExit \/ RestartStack
      BY <1>6 DEF ReadyExit, RestartStack, Sound, Typed, NodesType
  <1> QED
      BY <1>4, <1>5, <1>6, StateSteps DEF nodes

\* A success the mapping worker has not heard of yet was there before, or is new.
LEMMA MappingAnswer ==
  ASSUME CallType, Next, Waits("mapping")', call'["mapping"].answer = "ok"
  PROVE  Execute("mapping") \/ call'["mapping"] = call["mapping"]
  <1> USE DEF CallType, Caller, Idle, Asks, Waits
  <1>1. ASSUME NEW c \in Caller, Execute(c) \/ Lose(c), c # "mapping"
        PROVE  call'["mapping"] = call["mapping"]
      BY <1>1 DEF Execute, Lose
  <1>2. ~Lose("mapping")
      BY DEF Lose
  <1>3. CASE RestartStack
      BY <1>3 DEF RestartStack
  <1>4. CASE AgentCrash \/ AgentStop
      BY <1>4 DEF AgentCrash, AgentStop, AgentEnds
  <1>5. CASE MappingAsks \/ ProcessLocalizationCommand \/ StateReceived("starter")
      BY <1>5 DEF MappingAsks, ProcessLocalizationCommand, StateReceived
  <1>6. CASE GateWorks
      BY <1>6
      DEF GateWorks, GateAcquire, PlannerStateComplete, GateStartupComplete,
          LifecycleResetComplete, FinishValidation, PauseComplete, Hears
  <1>7. ASSUME NEW c \in Caller, call' = [call EXCEPT ![c] = Idle]
        PROVE  call'["mapping"] = call["mapping"]
      BY <1>7
  <1> QED
      BY <1>1, <1>2, <1>3, <1>4, <1>5, <1>6, <1>7, CallSteps

\* A pause that succeeded left the manager inactive.
LEMMA PauseWorks ==
  ASSUME Sound, Execute("mapping"), step \in {"pauseNav", "pauseLoc"},
         call'["mapping"].answer = "ok"
  PROVE  Aside(Wanted(step)[1])'
  <1> DEFINE n == Wanted(step)[1]
  <1>1. call["mapping"].req[1] = n /\ call["mapping"].req[2] = "pause" /\ n \in Manager
      BY DEF Execute, Pending, Sound, Asked, Wanted, Manager
  <1>2. UNCHANGED step
      BY DEF Execute, mapping
  <1>3. PICK answer \in {"ok", "rejected"} :
          /\ call' = [call EXCEPT !["mapping"].answer = answer]
          /\ IF Applies("pause", state[n])
             THEN \E s \in {state[n], Reached("pause")} :
                    (answer = "ok" => s = Reached("pause")) /\ Moves(n, s, "mapping")
             ELSE answer = "rejected" /\ UNCHANGED nodes
      BY <1>1 DEF Execute
  <1>4. answer = "ok"
      BY <1>3 DEF Sound, Typed, CallType, Caller
  <1>5. Moves(n, "inactive", "mapping")
      BY <1>3, <1>4 DEF Reached
  <1>6. state'[n] = "inactive"
      BY <1>1, <1>5 DEF Moves, Sound, Typed, NodesType
  <1> QED
      BY <1>2, <1>6 DEF Aside, Active

LEMMA SoleStep == ASSUME Sound, Sole, Next PROVE Sole'
  <1> USE DEF Sole, Sound
  <1>1. CASE UNCHANGED <<phase, step, paused, was>>
    <2>1. /\ phase' \in {"MAPPING", "REVIEW"} \/ step' = "write" => \A m \in Manager : Aside(m)'
          /\ step' \in {"pauseNav", "pauseLoc", "launch"} =>
               \A m \in Manager : m \notin was' \/ m \in paused' => Aside(m)'
        BY <1>1, AsideLasts
    <2>2. step' \in {"pauseNav", "pauseLoc"} /\ Waits("mapping")' /\ call'["mapping"].answer = "ok"
            => Aside(Wanted(step)[1])'
      <3> SUFFICES ASSUME step' \in {"pauseNav", "pauseLoc"}, Waits("mapping")',
                          call'["mapping"].answer = "ok"
                   PROVE  Aside(Wanted(step)[1])'
          OBVIOUS
      <3>1. CASE Execute("mapping")
          BY <1>1, <3>1, PauseWorks
      <3>2. CASE call'["mapping"] = call["mapping"]
        <4>1. Wanted(step)[1] \in Manager /\ Wanted(step)' = Wanted(step)
            BY <1>1 DEF Wanted, Manager
        <4>2. Aside(Wanted(step)[1])
            BY <1>1, <3>2 DEF Waits
        <4> DEFINE n == Wanted(step)[1]
        <4>3. \A k \in Manager : Aside(k) => Aside(k)'
            BY <1>1, AsideLasts
        <4> QED
            BY <1>1, <4>1, <4>2, <4>3 DEF Aside, Active
      <3> QED
          BY <3>1, <3>2, MappingAnswer DEF Typed
    <2> QED
        BY <2>1, <2>2
  <1>2. CASE Operator
      BY <1>2
      DEF Operator, StartSession, StopCapture, Save, Discard, Quiet, nodes, Enters, Aside, Active,
          Listens
  <1>3. CASE ReadActiveNodes
    <2>1. ~Waits("mapping") /\ paused = {} /\ UNCHANGED <<state, by, call>> /\ phase = "STARTING"
        BY <1>3
        DEF ReadActiveNodes, Quiet, nodes, Asked, Wanted, Waits, Course, StartStep
    <2>2. CASE was' = {m \in Manager : Active(m)} /\ UNCHANGED <<phase, paused>>
        BY <2>1, <2>2, <1>3 DEF ReadActiveNodes, AfterRead, Undo, AfterUndo, Aside, Active, Waits
    <2>3. CASE Undo
        BY <2>1, <2>3 DEF Undo, AfterUndo
    <2> QED
        BY <1>3, <2>2, <2>3 DEF ReadActiveNodes
  <1>4. CASE PauseManager
    <2>1. ~Waits("mapping")' /\ phase' = "STARTING" /\ UNCHANGED <<state, by, was>>
        BY <1>4
        DEF PauseManager, Confirmed, Failed, Typed, CallType, Caller, Idle, Waits, Quiet, nodes,
            Course, StartStep, Undo
    <2>2. CASE Undo
        BY <2>1, <2>2 DEF Undo, AfterUndo
    <2>3. CASE Confirmed /\ paused' = paused \cup {Wanted(step)[1]}
                /\ step' = AfterRead(was \ paused')
        BY <1>4, <2>1, <2>3
        DEF PauseManager, AfterRead, Aside, Active, Confirmed, Answered
    <2> QED
        BY <1>4, <2>2, <2>3 DEF PauseManager
  <1>5. CASE LaunchSlam
      BY <1>5
      DEF LaunchSlam, Undo, AfterUndo, Quiet, nodes, Enters, Course, StartStep, Aside, Active
  <1>6. CASE WriteOccupancyMap
      BY <1>6 DEF WriteOccupancyMap, Quiet, nodes, Enters, Aside, Active
  <1>7. CASE AcquireInterlock \/ InterlockTimeout \/ UndoPause \/ Undone
      BY <1>7
      DEF AcquireInterlock, InterlockTimeout, UndoPause, Undone, Undo, AfterUndo, Enters, Course,
          StartStep
  <1>8. CASE ActivateSavedMap \/ Activated \/ StopSlamProcess \/ EnsureLifecycle \/ Restored
      BY <1>8
      DEF ActivateSavedMap, Activated, StopSlamProcess, EnsureLifecycle, Restored, Enters, Course,
          SaveStep, RestoreStep, AfterStop, RestoreFails, Ensured, TriesAgain, GivesUp
  <1>9. CASE AgentCrash \/ AgentStop
      BY <1>9 DEF AgentCrash, AgentStop, AgentEnds, Enters
  <1> QED
      BY <1>1, <1>2, <1>3, <1>4, <1>5, <1>6, <1>7, <1>8, <1>9, CourseSteps

LEMMA AlwaysSole == Spec => [](Sound /\ Sole)
  <1>1. Init => Sole
      BY DEF Init, Sole
  <1>2. ASSUME Sound, Sole, [Next]_vars PROVE Sole'
    <2>1. CASE UNCHANGED vars
        BY <1>2, <2>1
        DEF Sole, Aside, Active, Waits, vars, nodes, mapping
    <2> QED
        BY <1>2, <2>1, SoleStep
  <1> QED
      BY <1>1, <1>2, SoundInit, SoundStep, PTL DEF Spec

\* While SLAM captures a map Nav2 does not navigate and AMCL does not localize:
\* whatever is active was activated by a request that outlived its caller, or by
\* the readiness gate, which takes no interlock.
THEOREM SlamAlone == Spec => []SlamIsSoleAuthority
  <1>1. Sole => SlamIsSoleAuthority
      BY DEF Sole, Aside, SlamIsSoleAuthority
  <1> QED
      BY <1>1, AlwaysSole, PTL

-----------------------------------------------------------------------------
(* Nav2 that broke its runtime contract. *)

\* Only a restart of the stack forgets that a stray request moved the nodes.
LEMMA StrayLasts ==
  ASSUME CountType, Next, history.stray PROVE history'.stray \/ gate' = "absent"
  <1> USE DEF CountType
  <1>1. CASE RestartStack
      BY <1>1 DEF RestartStack
  <1>2. CASE AgentCrash \/ AgentStop
      BY <1>2 DEF AgentCrash, AgentStop, AgentEnds
  <1>3. ASSUME NEW r \in late, ExecuteLate(r) PROVE history'.stray
    <2>1. (history.stray \/ (gate \in {"pause", "paused"} /\ state' # state)) = TRUE
        OBVIOUS
    <2> QED
        BY <1>3, <2>1 DEF ExecuteLate
  <1>4. CASE StartSession \/ Undone
      BY <1>4 DEF StartSession, Undone
  <1>5. CASE PauseManager \/ UndoPause \/ EnsureLifecycle
      BY <1>5 DEF PauseManager, UndoPause, EnsureLifecycle, Ensured, Forgets, TriesAgain, GivesUp
  <1> QED
      BY <1>1, <1>2, <1>3, <1>4, <1>5, HistorySteps

\* The gate counts Nav2 as paused from the manager's answer on.
LEMMA PausedSteps ==
  ASSUME Typed, Next, Paused' PROVE Paused \/ (gate = "pause" /\ Execute("gate"))
  <1> USE DEF Paused, Caller, Idle, Typed, CallType
  <1>1. CASE GateWorks
    <2>1. CASE GateAcquire \/ PlannerStateComplete \/ GateStartupComplete \/ LifecycleResetComplete
        BY <2>1
        DEF GateAcquire, PlannerStateComplete, GateStartupComplete, LifecycleResetComplete,
            Retries, Leaves, Reports
    <2>2. CASE FinishValidation
        BY <2>2 DEF FinishValidation, Asks, Leaves, Reports
    <2>3. CASE PauseComplete
        BY <2>3 DEF PauseComplete, Leaves, Reports
    <2> QED
        BY <1>1, <2>1, <2>2, <2>3 DEF GateWorks
  <1>2. CASE GateCheck \/ ReadyExit \/ RestartStack
      BY <1>2 DEF GateCheck, ReadyExit, RestartStack, Reports
  <1>3. CASE UNCHANGED gate /\ ~GateWorks /\ ~RestartStack
    <2>1. ASSUME NEW c \in Caller, Execute(c) \/ Lose(c), c # "gate"
          PROVE  call'["gate"] = call["gate"]
        BY <2>1 DEF Execute, Lose
    <2>2. Lose("gate") => call'["gate"].answer = "error"
        BY DEF Lose
    <2>3. CASE AgentCrash \/ AgentStop
        BY <1>3, <2>3 DEF AgentCrash, AgentStop, AgentEnds
    <2>4. CASE MappingAsks \/ ProcessLocalizationCommand \/ StateReceived("starter")
        BY <1>3, <2>4 DEF MappingAsks, ProcessLocalizationCommand, StateReceived, Asks
    <2>5. ASSUME NEW c \in Caller, call' = [call EXCEPT ![c] = Idle]
          PROVE  call'["gate"].answer \in {call["gate"].answer, "pending"}
        BY <2>5
    <2> QED
        BY <1>3, <2>1, <2>2, <2>3, <2>4, <2>5, CallSteps
  <1> QED
      BY <1>1, <1>2, <1>3, GateSteps

\* The gate's pause leaves Nav2 inactive.
LEMMA GatePauseWorks ==
  ASSUME Sound, gate = "pause", Execute("gate"), call'["gate"].answer = "ok"
  PROVE  ~Active("navigation")'
  <1>1. call["gate"].req[1] = "navigation" /\ call["gate"].req[2] = "pause"
      BY DEF Execute, Pending, Sound, Asked
  <1>2. PICK answer \in {"ok", "rejected"} :
          /\ call' = [call EXCEPT !["gate"].answer = answer]
          /\ IF Applies("pause", state["navigation"])
             THEN \E s \in {state["navigation"], Reached("pause")} :
                    (answer = "ok" => s = Reached("pause")) /\ Moves("navigation", s, "gate")
             ELSE answer = "rejected" /\ UNCHANGED nodes
      BY <1>1 DEF Execute
  <1>3. answer = "ok"
      BY <1>2 DEF Sound, Typed, CallType, Caller
  <1>4. Moves("navigation", "inactive", "gate")
      BY <1>2, <1>3 DEF Reached
  <1> QED
      BY <1>4 DEF Moves, Sound, Typed, NodesType, Manager, Active

\* While Nav2 is paused for its contract, whoever activates it is a stray request,
\* or saw it active after one.
LEMMA NavigationStaysPaused ==
  ASSUME Sound, Strays, Next, Paused, Active("navigation")', gate' # "absent"
  PROVE  history'.stray
  <1> USE DEF Active, Manager
  <1>1. CASE history.stray
      BY <1>1, StrayLasts DEF Sound, Typed
  <1>2. CASE ~history.stray
    <2>1. state["navigation"] # "active" /\ (gate = "paused" => "navigation" \notin was)
        BY <1>2 DEF Strays
    <2>2. ASSUME NEW c \in Caller, Execute(c) PROVE FALSE
      <3>1. PICK s \in {state[call[c].req[1]], Reached(call[c].req[2])} :
              Applies(call[c].req[2], state[call[c].req[1]]) /\ Moves(call[c].req[1], s, c)
          BY <2>1, <2>2 DEF Execute, nodes
      <3>2. /\ call[c].req[1] = "navigation" /\ s = "active"
            /\ Reached(call[c].req[2]) = "active"
          BY <2>1, <3>1 DEF Moves, Sound, Typed, NodesType
      <3>3. CASE c = "mapping"
        <4>1. call[c].req = Wanted(step) /\ Wanted(step) # None
            BY <2>2, <3>3 DEF Execute, Pending, Waits, Sound, Asked
        <4>2. step \in {"pauseNav", "undoNav", "resetNav", "startNav"}
            BY <3>2, <4>1, WantsNothing DEF Wanted
        <4>3. gate = "paused" => step = "pauseNav"
          <5>1. "navigation" \in was
              BY <4>2 DEF Sound, Course
          <5> QED
              BY <2>1, <5>1
        <4>4. gate # "pause"
            BY <4>2 DEF Sound, Guarded, InFlight, Holding
        <4>5. step = "pauseNav"
            BY <4>3, <4>4 DEF Paused
        <4>6. call[c].req[2] = "pause"
            BY <4>1, <4>5 DEF Wanted
        <4> QED
            BY <3>2, <4>6 DEF Reached
      <3>4. c # "gate"
        <4>1. c = "gate" => gate = "pause" /\ call[c].req[2] = "pause"
            BY <2>2 DEF Execute, Pending, Sound, Asked, Paused
        <4> QED
            BY <3>2, <4>1 DEF Reached
      <3>5. c \notin {"pose", "starter"}
          BY <2>2, <3>2 DEF Execute, Pending, Sound, Asked
      <3> QED
          BY <3>3, <3>4, <3>5 DEF Caller
    <2>3. ASSUME NEW r \in late, ExecuteLate(r) PROVE history'.stray
      <3>1. state' # state /\ gate \in {"pause", "paused"}
          BY <2>1 DEF Paused
      <3>2. (history.stray \/ (gate \in {"pause", "paused"} /\ state' # state)) = TRUE
          BY <3>1
      <3> QED
          BY <2>3, <3>2 DEF ExecuteLate, Sound, Typed, CountType
    <2>4. ~ReadyExit
        BY DEF ReadyExit, Sound, Asked, Paused
    <2>5. ~RestartStack
        BY DEF RestartStack
    <2> QED
        BY <2>1, <2>2, <2>3, <2>4, <2>5, StateSteps DEF nodes
  <1> QED
      BY <1>1, <1>2

LEMMA StraysStep == ASSUME Sound, Strays, Next PROVE Strays'
  <1>1. Paused' /\ Active("navigation")' => history'.stray
    <2>1. CASE Paused /\ gate' # "absent"
        BY <2>1, NavigationStaysPaused
    <2>2. CASE gate = "pause" /\ Execute("gate") /\ ~Paused
        BY <2>2, GatePauseWorks DEF Paused, Execute, gates
    <2> QED
        BY <2>1, <2>2, PausedSteps DEF Paused, Sound
  <1>2. gate' = "paused" /\ "navigation" \in was' => history'.stray
    <2> SUFFICES ASSUME gate' = "paused", "navigation" \in was' PROVE history'.stray
        OBVIOUS
    <2>1. Paused
        BY PausedSteps DEF Paused, Sound, Execute, gates
    <2>2. CASE history.stray
        BY <2>2, StrayLasts DEF Sound, Typed
    <2>3. CASE "navigation" \in was
      <3>1. gate # "pause"
          BY <2>3 DEF Sound, Guarded, InFlight
      <3> QED
          BY <2>1, <2>2, <2>3, <3>1 DEF Strays, Paused
    <2>4. CASE "navigation" \notin was
      <3>1. ReadActiveNodes
          BY <2>4, CourseSteps
          DEF Operator, StartSession, StopCapture, Save, Discard, AcquireInterlock,
              InterlockTimeout, PauseManager, LaunchSlam, UndoPause, Undone, WriteOccupancyMap,
              ActivateSavedMap, Activated, StopSlamProcess, EnsureLifecycle, Restored, AgentCrash,
              AgentStop, AgentEnds, RestoreFails, Ensured, TriesAgain, GivesUp
      <3>2. Active("navigation")
          BY <2>4, <3>1 DEF ReadActiveNodes
      <3> QED
          BY <2>1, <2>2, <3>2 DEF Strays
    <2> QED
        BY <2>3, <2>4
  <1> QED
      BY <1>1, <1>2 DEF Strays

LEMMA AlwaysStrays == Spec => [](Sound /\ Strays)
  <1>1. Init => Strays
      BY DEF Init, Strays, Paused
  <1>2. ASSUME Sound, Strays, [Next]_vars PROVE Strays'
    <2>1. CASE UNCHANGED vars
        BY <1>2, <2>1 DEF Strays, Paused, Active, vars, nodes, gates, mapping
    <2> QED
        BY <1>2, <2>1, StraysStep
  <1> QED
      BY <1>1, <1>2, SoundInit, SoundStep, PTL DEF Spec

\* Nav2 that failed its runtime contract and was paused stays paused: no session
\* of the mapping runtime, no gate and no operator's command brings it back
\* unless a request that outlived its caller moved the nodes before.
THEOREM ContractKept == Spec => []BrokenContractStaysPaused
  <1>1. Strays => BrokenContractStaysPaused
      BY DEF Strays, Paused, BrokenContractStaysPaused
  <1> QED
      BY <1>1, AlwaysStrays, PTL

-----------------------------------------------------------------------------
(* What a session owes to Nav2. *)

LEMMA OwesStep == ASSUME Sound, Owes, Next PROVE Owes'
  <1> USE DEF Owes, Sound, Typed, CountType
  <1>1. CASE UNCHANGED <<step, was>> /\ UNCHANGED <<phase, paused>>
    <2>1. CASE RestartStack
        BY <1>1, <2>1 DEF RestartStack
    <2>2. CASE AgentCrash \/ AgentStop
        BY <2>2 DEF AgentCrash, AgentStop, AgentEnds, Enters
    <2>3. ASSUME NEW r \in late, ExecuteLate(r)
          PROVE  history'.owed = history.owed /\ history'.botched = history.botched
        BY <2>3 DEF ExecuteLate
    <2>4. CASE StartSession \/ Undone
        BY <1>1, <2>4 DEF StartSession, Undone, Enters, Course, StartStep
    <2>5. CASE PauseManager \/ UndoPause \/ EnsureLifecycle
      <3>1. CASE PauseManager
        <4>1. Wanted(step)[1] \in was
            BY <3>1 DEF PauseManager, Wanted, Course
        <4> QED
            BY <1>1, <3>1, <4>1 DEF PauseManager
      <3>2. CASE UndoPause
          BY <1>1, <3>2 DEF UndoPause, Forgets
      <3>3. CASE EnsureLifecycle
          BY <1>1, <3>3
          DEF EnsureLifecycle, Ensured, Forgets, TriesAgain, GivesUp, RestoreFails, Enters
      <3> QED
          BY <2>5, <3>1, <3>2, <3>3
    <2> QED
        BY <1>1, <2>1, <2>2, <2>3, <2>4, <2>5, HistorySteps
  <1>2. CASE Operator
    <2>1. CASE StartSession
      <3>1. history'.owed = history.owed /\ history'.botched = (history.botched \/ history.owed # {})
          BY <2>1 DEF StartSession
      <3> QED
          BY <2>1, <3>1 DEF StartSession, Enters
    <2> QED
        BY <1>2, <2>1 DEF Operator, StopCapture, Save, Discard, Listens, Enters
  <1>3. CASE AcquireInterlock \/ InterlockTimeout
      BY <1>3 DEF AcquireInterlock, InterlockTimeout, Undo, AfterUndo
  <1>4. CASE ReadActiveNodes
      BY <1>4 DEF ReadActiveNodes, Undo, AfterUndo, AfterRead
  <1>5. CASE PauseManager
    <2>1. Wanted(step)[1] \in was
        BY <1>5 DEF PauseManager, Wanted, Course
    <2>2. /\ history'.owed \subseteq history.owed \cup {Wanted(step)[1]}
          /\ history'.botched = history.botched /\ UNCHANGED was
        BY <1>5 DEF PauseManager
    <2>3. step' \notin {"lock", "read", "activated"}
        BY <1>5 DEF PauseManager, Undo, AfterUndo, AfterRead
    <2> QED
        BY <2>1, <2>2, <2>3
  <1>6. CASE LaunchSlam \/ WriteOccupancyMap \/ StopSlamProcess \/ Restored
      BY <1>6
      DEF LaunchSlam, Undo, AfterUndo, WriteOccupancyMap, StopSlamProcess, AfterStop, RestoreFails,
          Restored, Enters
  <1>7. CASE UndoPause
      BY <1>7 DEF UndoPause, Forgets, AfterUndo
  <1>8. CASE Undone
    <2>1. history'.owed = history.owed /\ history'.botched = (history.botched \/ history.owed # {})
        BY <1>8 DEF Undone
    <2> QED
        BY <1>8, <2>1 DEF Undone, Enters
  <1>9. CASE ActivateSavedMap
      BY <1>9 DEF ActivateSavedMap, RestartStack, Enters
  <1>10. CASE Activated
      BY <1>10 DEF Activated, Enters
  <1>11. CASE EnsureLifecycle
      BY <1>11
      DEF EnsureLifecycle, Ensured, Forgets, TriesAgain, GivesUp, RestoreFails, Enters, AfterStop
  <1>12. CASE AgentCrash \/ AgentStop
      BY <1>12 DEF AgentCrash, AgentStop, AgentEnds, Enters
  <1> QED
      BY <1>1, <1>2, <1>3, <1>4, <1>5, <1>6, <1>7, <1>8, <1>9, <1>10, <1>11, <1>12, CourseSteps

LEMMA AlwaysOwes == Spec => [](Sound /\ Owes)
  <1>1. Init => Owes
      BY DEF Init, Owes
  <1>2. ASSUME Sound, Owes, [Next]_vars PROVE Owes'
    <2>1. CASE UNCHANGED vars
        BY <1>2, <2>1 DEF Owes, vars, mapping
    <2> QED
        BY <1>2, <2>1, OwesStep
  <1> QED
      BY <1>1, <1>2, SoundInit, SoundStep, PTL DEF Spec

\* A discard that reports Nav2 restored has activated all that the session
\* paused, whatever was refused, lost or tried again on the way, unless a start
\* failed, or began from FAILED, while something was paused.
THEOREM DiscardKept == Spec => DiscardRestores
  <1>1. ASSUME Sound, Owes, Next, phase = "RESTORING", phase' = "IDLE", agent'
        PROVE  history.owed = {} \/ history.botched
    <2>1. ~(AgentCrash \/ AgentStop)
        BY <1>1 DEF AgentCrash, AgentStop, AgentEnds
    <2>2. Restored
        BY <1>1, <2>1, CourseSteps
        DEF Sound, Course, StartStep, SaveStep, RestoreStep, Operator, StartSession, StopCapture,
            Save, Discard, AcquireInterlock, InterlockTimeout, ReadActiveNodes, PauseManager,
            LaunchSlam, UndoPause, Undone, WriteOccupancyMap, ActivateSavedMap, Activated,
            StopSlamProcess, EnsureLifecycle, Enters, Undo, RestoreFails, Ensured, TriesAgain,
            GivesUp
    <2>3. was = {}
        BY <1>1, <2>2 DEF Restored, Sound, Course
    <2> QED
        BY <1>1, <2>3 DEF Owes
  <1>2. ASSUME Sound, Owes, [Next]_vars
        PROVE  [phase = "RESTORING" /\ phase' = "IDLE" /\ agent' =>
                  history.owed = {} \/ history.botched]_vars
      BY <1>1, <1>2
  <1> QED
      BY <1>2, AlwaysOwes, PTL DEF Spec, DiscardRestores
=============================================================================
