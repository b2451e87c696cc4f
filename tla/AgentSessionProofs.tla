------------------------- MODULE AgentSessionProofs -------------------------
(***************************************************************************)
(* What AgentSession guarantees for every set of maps, every length of the *)
(* inbox, every hold and every number of events.                           *)
(*                                                                         *)
(* Which actions change a variable is said once for each variable, in the  *)
(* lemmas named ...Steps; the invariants follow from the few actions that  *)
(* remain.                                                                 *)
(***************************************************************************)
EXTENDS AgentSession, TLAPS

Kinds == {"request", "teleop", "emergency"}
LinkType ==
  conn \in {"up", "lost", "down"} /\ inbox \in Seq(Kinds) /\ Len(inbox) <= MaxInbox
HandlerType ==
  /\ handler \in [pc : {"idle", "checked", "previews", "switches", "put", "work"},
                  work : {"none"} \cup DOMAIN Outcome, map : Map \cup {None}]
  /\ mapping \in {"IDLE", "BUSY", "MAPPING", "REVIEW", "FAILED"}
  /\ mapping = "BUSY" <=> handler.pc = "work"
  /\ handler.pc = "work" => handler.work \in DOMAIN Outcome  \* the worker has a command
MissionType ==
  /\ mission \in [at : {"none", "queued", "taken", "active", "recovering"}, map : Map \cup {None}]
  /\ mission.at = "taken" <=> ros = "start"
PreviewType == preview \in [queued : BOOLEAN, leg : 0..2]
SwitchType ==
  /\ switch \in [queued : Map \cup {None}, taken : Map \cup {None}, active : Map \cup {None}]
  /\ switch.taken # None <=> ros = "switch"
  /\ ros \in {"free", "switch", "activating", "link", "finish", "report", "spin", "command",
             "start"}
MapsType ==
  maps \in [disk : SUBSET Map, link : Map \cup {None}, believed : Map \cup {None},
            loaded : Map \cup {None}]
MotionType ==
  /\ stops \in [server : BOOLEAN, physical : BOOLEAN, pressed : BOOLEAN]
  /\ spin \in [wanted : BOOLEAN, active : BOOLEAN, left : 0..SpinLimit]
  /\ base \in [moves : BOOLEAN, hold : 0..Hold, watched : BOOLEAN]
EventsType == events \in 0..MaxEvents

\* The type invariant, with the worker's command.
Typed ==
  /\ LinkType /\ HandlerType /\ MissionType /\ PreviewType /\ SwitchType /\ MapsType
  /\ MotionType /\ EventsType

LEMMA TypedIsTypeOK == Typed => TypeOK
  BY DEF Typed, TypeOK, LinkType, HandlerType, MissionType, PreviewType, SwitchType, MapsType,
         MotionType, EventsType, Kinds

LEMMA TypedInit == Init => Typed
  BY SessionAssumption
  DEF Init, NoHandler, NoMission, NoPreview, NoSwitch, NoSpin, NoMotion, Typed, LinkType,
      HandlerType, MissionType, PreviewType, SwitchType, MapsType, MotionType, EventsType

-----------------------------------------------------------------------------
(* Who changes what. *)

USE DEF Next, Loop, Executor, SwitchStep, link, work, motion, Answered,
  Connect, Send, Lose, Disconnect, RefreshActiveMap, MappingWorks, MissionEnds, RecoveryEnds,
  LocalizationChanges, PressOrRelease, TimePasses, Reboot,
  Refuses, QueueNavigationCommand, QueueRoutePreview, HandleMapCommand, Looks, LookAtPreviews,
  LookAtSwitches, PutMapCommand, HandleMapCatalogCommand, HandleMappingStart, HandleMappingEnd, HandleTeleop, PublishTeleop, HandleLocalizationScan,
  HandleEmergencyStop, HandleEmergencyReset, ProcessCommandQueue, TakeCommand, Activate,
  ProcessPreviewQueue, PreviewResult, RunLocalizationScan, PublishSpin, PhysicalEstopCallback, TakeSwitch,
  SwitchTooLate, BeginSwitch, ActivateMap, MapSwitchResult, SetActiveMapLink, FinishMapSwitch,
  ReportMapSwitch

LEMMA LinkSteps ==
  ASSUME Next
  PROVE  \/ Connect \/ (\E kind \in Kinds : Send(kind)) \/ Lose \/ Disconnect \/ Reboot
         \/ inbox # <<>> /\ Replies
         \/ inbox # <<>> /\ inbox' = Tail(inbox) /\ UNCHANGED conn
         \/ conn' = "down" /\ inbox' = <<>>
         \/ UNCHANGED link
  BY DEF Kinds, Takes

LEMMA HandlerSteps ==
  ASSUME Next
  PROVE  \/ HandleMapCommand \/ LookAtPreviews \/ LookAtSwitches \/ PutMapCommand
         \/ HandleMappingStart \/ HandleMappingEnd \/ HandleTeleop \/ PublishTeleop
         \/ MappingWorks \/ Disconnect \/ Reboot
         \/ UNCHANGED <<handler, mapping>>
  OBVIOUS

LEMMA MissionSteps ==
  ASSUME Next
  PROVE  \/ DropMission /\ UNCHANGED ros
         \/ QueueNavigationCommand \/ TakeCommand \/ Activate \/ MissionEnds \/ RecoveryEnds
         \/ Reboot
         \/ UNCHANGED mission /\ (ros' = "start" <=> ros = "start")
  BY DEF Free

LEMMA PreviewSteps ==
  ASSUME Next
  PROVE  QueueRoutePreview \/ ProcessPreviewQueue \/ PreviewResult \/ Reboot \/ UNCHANGED preview
  OBVIOUS

LEMMA SwitchSteps ==
  ASSUME Next
  PROVE  \/ PutMapCommand \/ SwitchStep \/ Reboot
         \/ /\ UNCHANGED switch
            /\ \/ RunLocalizationScan \/ PublishSpin
               \/ ProcessCommandQueue \/ TakeCommand \/ Activate
         \/ UNCHANGED <<switch, ros>>
  OBVIOUS

LEMMA MapsSteps ==
  ASSUME Next
  PROVE  \/ RefreshActiveMap \/ HandleMapCatalogCommand \/ MappingWorks \/ ActivateMap
         \/ MapSwitchResult \/ SetActiveMapLink \/ ReportMapSwitch \/ Reboot
         \/ UNCHANGED maps
  OBVIOUS

LEMMA StopsSteps ==
  ASSUME Next
  PROVE  \/ HandleEmergencyStop \/ HandleEmergencyReset \/ PhysicalEstopCallback
         \/ PressOrRelease \/ Reboot
         \/ UNCHANGED stops
  OBVIOUS

LEMMA SpinSteps ==
  ASSUME Next
  PROVE  \/ HandleLocalizationScan \/ RunLocalizationScan \/ LocalizationChanges \/ TimePasses
         \/ Reboot
         \/ UNCHANGED spin
  OBVIOUS

LEMMA BaseSteps ==
  ASSUME Next
  PROVE  \/ Zero \/ PublishTeleop \/ PublishSpin \/ TimePasses \/ Reboot
         \/ UNCHANGED base
  OBVIOUS

LEMMA EventsSteps == ASSUME Next PROVE Occurs \/ UNCHANGED events
  OBVIOUS

HIDE DEF Next, Loop, Executor, SwitchStep, link, work, motion, Answered,
  Connect, Send, Lose, Disconnect, RefreshActiveMap, MappingWorks, MissionEnds, RecoveryEnds,
  LocalizationChanges, PressOrRelease, TimePasses, Reboot,
  Refuses, QueueNavigationCommand, QueueRoutePreview, HandleMapCommand, Looks, LookAtPreviews,
  LookAtSwitches, PutMapCommand, HandleMapCatalogCommand, HandleMappingStart, HandleMappingEnd, HandleTeleop, PublishTeleop, HandleLocalizationScan,
  HandleEmergencyStop, HandleEmergencyReset, ProcessCommandQueue, TakeCommand, Activate,
  ProcessPreviewQueue, PreviewResult, RunLocalizationScan, PublishSpin, PhysicalEstopCallback, TakeSwitch,
  SwitchTooLate, BeginSwitch, ActivateMap, MapSwitchResult, SetActiveMapLink, FinishMapSwitch,
  ReportMapSwitch

-----------------------------------------------------------------------------
(* Types. *)

LEMMA LinkTyped == ASSUME LinkType, Next PROVE LinkType'
  <1> USE SessionAssumption DEF LinkType, Kinds
  <1>1. CASE Connect
      BY <1>1 DEF Connect
  <1>2. ASSUME NEW kind \in Kinds, Send(kind) PROVE LinkType'
      BY <1>2 DEF Send
  <1>3. CASE Lose \/ Disconnect
      BY <1>3 DEF Lose, Disconnect
  <1>4. CASE Reboot \/ (conn' = "down" /\ inbox' = <<>>)
    <2>1. conn' = "down" /\ inbox' = <<>>
        BY <1>4 DEF Reboot
    <2>2. Len(inbox') = 0 /\ inbox' \in Seq(Kinds)
        BY <2>1
    <2> QED
        BY <2>1, <2>2
  <1>5. CASE inbox # <<>> /\ inbox' = Tail(inbox) /\ UNCHANGED conn
      BY <1>5
  <1>6. CASE inbox # <<>> /\ Replies
      BY <1>4, <1>5, <1>6 DEF Replies
  <1>7. CASE UNCHANGED link
      BY <1>7 DEF link
  <1> QED
      BY <1>1, <1>2, <1>3, <1>4, <1>5, <1>6, <1>7, LinkSteps

LEMMA HandlerTyped == ASSUME HandlerType, MapsType, Next PROVE HandlerType'
  <1> USE DEF HandlerType, Outcome, NoHandler
  <1>1. CASE HandleMappingStart
      BY <1>1 DEF HandleMappingStart, Awaits
  <1>2. CASE HandleMappingEnd
      BY <1>2 DEF HandleMappingEnd, Awaits, Ends
  <1>3. CASE HandleTeleop
      BY <1>3 DEF HandleTeleop, Takes, work
  <1>4. CASE PublishTeleop
      BY <1>4 DEF PublishTeleop, work
  <1>5. CASE MappingWorks
      BY <1>5 DEF MappingWorks
  <1>6. CASE Disconnect
      BY <1>6 DEF Disconnect, Drained, work
  <1>7. CASE Reboot
      BY <1>7 DEF Reboot
  <1>8. CASE HandleMapCommand
      BY <1>8 DEF HandleMapCommand, Takes, work, MapsType
  <1>9. CASE LookAtPreviews \/ LookAtSwitches
      BY <1>9 DEF LookAtPreviews, LookAtSwitches, Looks, work
  <1>10. CASE PutMapCommand
      BY <1>10 DEF PutMapCommand
  <1> QED
      BY <1>1, <1>2, <1>3, <1>4, <1>5, <1>6, <1>7, <1>8, <1>9, <1>10, HandlerSteps

LEMMA MissionTyped == ASSUME MissionType, MapsType, Next PROVE MissionType'
  <1> USE DEF MissionType, NoMission
  <1>1. CASE DropMission /\ UNCHANGED ros
      BY <1>1 DEF DropMission
  <1>2. CASE QueueNavigationCommand
      BY <1>2 DEF QueueNavigationCommand, Answered, MapsType
  <1>3. CASE TakeCommand
      BY <1>3 DEF TakeCommand
  <1>4. CASE Activate
      BY <1>4 DEF Activate
  <1>5. CASE MissionEnds \/ RecoveryEnds
      BY <1>5 DEF MissionEnds, RecoveryEnds
  <1>6. CASE Reboot
      BY <1>6 DEF Reboot
  <1>7. CASE UNCHANGED mission /\ (ros' = "start" <=> ros = "start")
      BY <1>7
  <1> QED
      BY <1>1, <1>2, <1>3, <1>4, <1>5, <1>6, <1>7, MissionSteps

LEMMA PreviewTyped == ASSUME PreviewType, Next PROVE PreviewType'
  <1> USE DEF PreviewType
  <1>1. CASE QueueRoutePreview
      BY <1>1 DEF QueueRoutePreview
  <1>2. CASE ProcessPreviewQueue
      BY <1>2 DEF ProcessPreviewQueue
  <1>3. CASE PreviewResult
      BY <1>3 DEF PreviewResult
  <1>4. CASE Reboot
      BY <1>4 DEF Reboot, NoPreview
  <1> QED
      BY <1>1, <1>2, <1>3, <1>4, PreviewSteps

LEMMA SwitchTyped == ASSUME SwitchType, HandlerType, Next PROVE SwitchType'
  <1> USE SessionAssumption DEF SwitchType
  <1>1. CASE PutMapCommand
      BY <1>1 DEF PutMapCommand, HandlerType
  <1>2. CASE SwitchStep
    <2>1. CASE TakeSwitch
        BY <2>1 DEF TakeSwitch, Free
    <2>2. CASE SwitchTooLate
        BY <2>2 DEF SwitchTooLate, Fails, FinishSwitch
    <2>3. CASE BeginSwitch
        BY <2>3 DEF BeginSwitch
    <2>4. CASE ActivateMap
        BY <2>4 DEF ActivateMap, Fails, FinishSwitch
    <2>5. CASE MapSwitchResult
        BY <2>5 DEF MapSwitchResult, Fails, FinishSwitch, Free
    <2>6. CASE SetActiveMapLink \/ ReportMapSwitch
        BY <2>6 DEF SetActiveMapLink, ReportMapSwitch
    <2>7. CASE FinishMapSwitch
        BY <2>7 DEF FinishMapSwitch, FinishSwitch
    <2> QED
        BY <1>2, <2>1, <2>2, <2>3, <2>4, <2>5, <2>6, <2>7 DEF SwitchStep
  <1>3. CASE UNCHANGED switch /\ (RunLocalizationScan \/ PublishSpin)
      BY <1>3 DEF RunLocalizationScan, PublishSpin, Free
  <1>4. CASE UNCHANGED switch /\ (ProcessCommandQueue \/ TakeCommand \/ Activate)
      BY <1>4 DEF ProcessCommandQueue, TakeCommand, Activate, Free
  <1>5. CASE Reboot
      BY <1>5 DEF Reboot, NoSwitch
  <1> QED
      BY <1>1, <1>2, <1>3, <1>4, <1>5, SwitchSteps

LEMMA MapsTyped == ASSUME MapsType, SwitchType, Next PROVE MapsType'
  <1> USE SessionAssumption DEF MapsType, SwitchType
  <1>1. CASE RefreshActiveMap \/ ReportMapSwitch \/ Reboot
      BY <1>1 DEF RefreshActiveMap, ReportMapSwitch, Reboot, Linked
  <1>2. CASE HandleMapCatalogCommand
    <2>1. PICK m \in Map, new \in SUBSET (Map \ maps.disk) :
            maps' = [maps EXCEPT !.disk = (@ \ {m}) \cup new, !.believed = Linked]
        BY <1>2 DEF HandleMapCatalogCommand
    <2>2. (maps.disk \ {m}) \cup new \in SUBSET Map /\ Linked \in Map \cup {None}
        BY DEF Linked
    <2> QED
        BY <2>1, <2>2
  <1>3. CASE MappingWorks
    <2>1. CASE UNCHANGED maps
        BY <2>1
    <2>2. ASSUME NEW m \in Map,
                 maps' = [maps EXCEPT !.disk = @ \cup {m}]
          PROVE  MapsType'
        BY <2>2
    <2>3. ASSUME NEW m \in Map, NEW b \in {m, maps.believed},
                 maps' = [maps EXCEPT !.disk = @ \cup {m}, !.link = m, !.loaded = m, !.believed = b]
          PROVE  MapsType'
        BY <2>3
    <2> QED
        BY <1>3, <2>1, <2>2, <2>3 DEF MappingWorks, Saves
  <1>4. CASE ActivateMap
      BY <1>4 DEF ActivateMap
  <1>5. CASE MapSwitchResult \/ SetActiveMapLink
      BY <1>5 DEF MapSwitchResult, SetActiveMapLink
  <1> QED
      BY <1>1, <1>2, <1>3, <1>4, <1>5, MapsSteps

LEMMA MotionTyped == ASSUME MotionType, Next PROVE MotionType'
  <1> USE DEF MotionType
  <1> Hold \in 0..Hold /\ Hold \in Nat /\ {0, SpinLimit} \subseteq 0..SpinLimit /\ SpinLimit \in Nat
      BY SessionAssumption
  <1>1. stops' \in [server : BOOLEAN, physical : BOOLEAN, pressed : BOOLEAN]
    <2>1. CASE HandleEmergencyStop \/ HandleEmergencyReset
        BY <2>1 DEF HandleEmergencyStop, HandleEmergencyReset
    <2>2. CASE PhysicalEstopCallback
        BY <2>2 DEF PhysicalEstopCallback
    <2>3. CASE PressOrRelease
        BY <2>3 DEF PressOrRelease
    <2>4. CASE Reboot
        BY <2>4 DEF Reboot
    <2> QED
        BY <2>1, <2>2, <2>3, <2>4, StopsSteps
  <1>2. spin' \in [wanted : BOOLEAN, active : BOOLEAN, left : 0..SpinLimit]
    <2>1. CASE HandleLocalizationScan \/ RunLocalizationScan
      <3>1. \/ spin' = [spin EXCEPT !.active = TRUE, !.left = SpinLimit]
            \/ spin' = [spin EXCEPT !.active = FALSE, !.left = 0]
            \/ UNCHANGED spin
          BY <2>1 DEF HandleLocalizationScan, RunLocalizationScan
      <3>2. CASE spin' = [spin EXCEPT !.active = TRUE, !.left = SpinLimit]
          BY <3>2
      <3>3. CASE spin' = [spin EXCEPT !.active = FALSE, !.left = 0]
        <4>1. 0 \in 0..SpinLimit
            OBVIOUS
        <4> QED
            BY <3>3, <4>1
      <3> QED
          BY <3>1, <3>2, <3>3
    <2>2. CASE LocalizationChanges
        BY <2>2 DEF LocalizationChanges
    <2>3. CASE TimePasses
        BY <2>3 DEF TimePasses
    <2>4. CASE Reboot
        BY <2>4 DEF Reboot, NoSpin
    <2> QED
        BY <2>1, <2>2, <2>3, <2>4, SpinSteps
  <1>3. base' \in [moves : BOOLEAN, hold : 0..Hold, watched : BOOLEAN]
    <2>1. CASE Zero
        BY <2>1 DEF Zero
    <2>2. CASE Moves
      <3>1. (base.moves \/ Accepts) \in BOOLEAN
          BY DEF Accepts
      <3> QED
          BY <2>2, <3>1 DEF Moves
    <2>3. CASE TimePasses
        BY <2>3 DEF TimePasses
    <2>4. CASE Reboot
        BY <2>4 DEF Reboot, NoMotion
    <2> QED
        BY <2>1, <2>2, <2>3, <2>4, BaseSteps DEF PublishTeleop, PublishSpin
  <1> QED
      BY <1>1, <1>2, <1>3

LEMMA TypedStep == ASSUME Typed, [Next]_vars PROVE Typed'
  <1>1. CASE Next
    <2>1. EventsType'
        BY <1>1, EventsSteps, SessionAssumption DEF Typed, EventsType, Occurs
    <2> QED
        BY <1>1, <2>1, LinkTyped, HandlerTyped, MissionTyped, PreviewTyped, SwitchTyped, MapsTyped,
           MotionTyped
        DEF Typed
  <1>2. CASE UNCHANGED vars
      BY <1>2
      DEF vars, link, work, motion, Typed, LinkType, HandlerType, MissionType, PreviewType,
          SwitchType, MapsType, MotionType, EventsType
  <1> QED
      BY <1>1, <1>2

LEMMA AlwaysTyped == Spec => []Typed
  BY TypedInit, TypedStep, PTL DEF Spec

\* The types of the agent's state: what a reconnect, a failure or a reboot at
\* any moment leaves behind is a state the handlers know.
THEOREM TypeCorrect == Spec => []TypeOK
  BY AlwaysTyped, TypedIsTypeOK, PTL

-----------------------------------------------------------------------------
(* Missions and map switches exclude each other. *)

\* Not inductive alone: the executor looks for a switch before it takes a
\* command, and what it saw must still be so when it activates it.
ExclusionInv ==
  mission.at = "active" \/ ros \in {"command", "start"} => switch.active = None

LEMMA ExclusionStep ==
  ASSUME Typed, ExclusionInv, [Next]_vars PROVE ExclusionInv'
  <1> USE DEF MissionType, SwitchType, NoMission, NoSwitch
  <1>1. CASE Next
    <2>1. mission'.at = "active" => mission.at = "active" \/ ros = "start"
        BY <1>1, MissionSteps
        DEF Typed, DropMission, QueueNavigationCommand, TakeCommand, Activate, MissionEnds,
            RecoveryEnds, Reboot
    <2>2. ros' \in {"command", "start"} =>
            ros \in {"command", "start"} \/ (~SwitchActive /\ UNCHANGED switch)
        BY <1>1, SwitchSteps
        DEF PutMapCommand, SwitchStep, TakeSwitch, SwitchTooLate, BeginSwitch, ActivateMap,
            MapSwitchResult, SetActiveMapLink, FinishMapSwitch, ReportMapSwitch, Reboot,
            RunLocalizationScan, PublishSpin, ProcessCommandQueue, TakeCommand, Activate
    <2>3. switch'.active # None =>
            \/ switch.active # None
            \/ mission.at # "active" /\ UNCHANGED mission /\ ros' \in {"free", "activating"}
      <3>1. CASE PutMapCommand \/ TakeSwitch
          BY <3>1 DEF Typed, PutMapCommand, TakeSwitch
      <3>2. CASE SwitchTooLate \/ ActivateMap \/ MapSwitchResult \/ FinishMapSwitch
          BY <3>2
          DEF Typed, SwitchTooLate, ActivateMap, MapSwitchResult, FinishMapSwitch, Fails,
              FinishSwitch
      <3>3. CASE BeginSwitch
          BY <3>3 DEF BeginSwitch, Overtaken
      <3>4. CASE UNCHANGED switch \/ Reboot
          BY <3>4 DEF Reboot
      <3> QED
          BY <1>1, <3>1, <3>2, <3>3, <3>4, SwitchSteps
          DEF SwitchStep, SetActiveMapLink, ReportMapSwitch
    <2> QED
        BY <2>1, <2>2, <2>3 DEF ExclusionInv, SwitchActive
  <1>2. CASE UNCHANGED vars
      BY <1>2 DEF vars, work, ExclusionInv
  <1> QED
      BY <1>1, <1>2

\* No mission drives while a map switch is under way, although neither thread
\* looks and acts in one step: a switch may be queued behind a mission that the
\* executor is about to activate, or that it activates between the loop's look
\* and its put.  The executor alone begins either: it looks at the missions
\* again when it takes a switch, and then holds no command that it took.
THEOREM Exclusion == Spec => []SwitchExcludesMission
  <1>1. Init => ExclusionInv
      BY DEF Init, ExclusionInv, NoMission
  <1>2. ExclusionInv => SwitchExcludesMission
      BY DEF ExclusionInv, SwitchExcludesMission
  <1> QED
      BY <1>1, <1>2, ExclusionStep, AlwaysTyped, PTL DEF Spec

-----------------------------------------------------------------------------
(* The map the robot boots with. *)

\* A delete or a rename spares the map the link names, whatever the agent
\* believes; the link itself moves only to a map that is on the disk by then.
THEOREM BootMapStays == Spec => []BootMapExists
  <1>1. Init => BootMapExists
      BY SessionAssumption DEF Init, BootMapExists
  <1>2. ASSUME Typed, BootMapExists, [Next]_vars PROVE BootMapExists'
    <2> USE DEF MapsType, BootMapExists
    <2>1. CASE Next
      <3>1. CASE RefreshActiveMap \/ ReportMapSwitch \/ MapSwitchResult \/ Reboot
          BY <1>2, <3>1 DEF Typed, RefreshActiveMap, ReportMapSwitch, MapSwitchResult, Reboot
      <3>2. CASE HandleMapCatalogCommand
        <4>1. PICK m \in Map, new \in SUBSET (Map \ maps.disk) :
                /\ Removable(m)
                /\ maps' = [maps EXCEPT !.disk = (@ \ {m}) \cup new, !.believed = Linked]
            BY <3>2 DEF HandleMapCatalogCommand
        <4>2. maps.link # m
            BY <1>2, <4>1 DEF Removable, Linked
        <4> QED
            BY <1>2, <4>1, <4>2 DEF Typed
      <3>3. CASE MappingWorks
          BY <1>2, <3>3 DEF Typed, MappingWorks, Saves
      <3>4. CASE ActivateMap \/ SetActiveMapLink
          BY <1>2, <3>4 DEF Typed, ActivateMap, SetActiveMapLink
      <3> QED
          BY <1>2, <2>1, <3>1, <3>2, <3>3, <3>4, MapsSteps
    <2>2. CASE UNCHANGED vars
        BY <1>2, <2>2 DEF vars, work
    <2> QED
        BY <1>2, <2>1, <2>2
  <1> QED
      BY <1>1, <1>2, AlwaysTyped, PTL DEF Spec

-----------------------------------------------------------------------------
(* A latched stop. *)

\* Not inductive alone: a motion decided on before the stop is still to be
\* published, and the base refuses it only while it holds.  It does so until
\* then, because no period passes between a decision and its publication.
StopHoldsInv ==
  motion_stop_latched =>
    /\ ~base.moves
    /\ handler.pc = "checked" \/ ros = "spin" => base.hold > 0

LEMMA StopHoldsStep ==
  ASSUME Typed, StopHoldsInv, [Next]_vars PROVE StopHoldsInv'
  <1> USE DEF StopHoldsInv, motion_stop_latched
  <1> Hold > 0
      BY SessionAssumption
  <1>1. CASE UNCHANGED vars
      BY <1>1 DEF vars, motion
  <1>2. CASE Zero
    <2>1. ~base'.moves /\ base'.hold = Hold
        BY <1>2 DEF Zero, Typed, MotionType
    <2> QED
        BY <2>1
  <1>3. CASE Reboot
      BY <1>3 DEF Reboot, Typed, MotionType
  <1>4. CASE Next /\ UNCHANGED base
    <2>1. stops' = stops \/ PressOrRelease \/ Zero \/ Reboot
        BY <1>4, StopsSteps DEF HandleEmergencyStop, HandleEmergencyReset, PhysicalEstopCallback
    <2>2. CASE Zero \/ Reboot
        BY <1>2, <1>3, <2>2
    <2>3. motion_stop_latched' = motion_stop_latched \/ Zero \/ Reboot
        BY <2>1 DEF PressOrRelease, Typed, MotionType
    <2>4. handler'.pc = "checked" => handler.pc = "checked" \/ ~motion_stop_latched
        BY <1>4, HandlerSteps
        DEF HandleMapCommand, LookAtPreviews, LookAtSwitches, Looks, PutMapCommand, HandlerType,
            Typed, HandleMappingStart, HandleMappingEnd, Awaits, HandleTeleop, TeleopAllowed, NoHandler,
            PublishTeleop, MappingWorks, Disconnect, Reboot
    <2>5. ros' = "spin" => ros = "spin" \/ ~motion_stop_latched
        BY <1>4, SwitchSteps
        DEF SwitchStep, TakeSwitch, SwitchTooLate, BeginSwitch, ActivateMap, MapSwitchResult,
            SetActiveMapLink, FinishMapSwitch, ReportMapSwitch, PutMapCommand, ProcessCommandQueue,
            TakeCommand, Activate, RunLocalizationScan, SpinForbidden, PublishSpin, Reboot
    <2> QED
        BY <1>4, <2>2, <2>3, <2>4, <2>5
  <1>5. CASE PublishTeleop \/ PublishSpin
    <2>1. UNCHANGED stops /\ Moves
        BY <1>5 DEF PublishTeleop, PublishSpin
    <2>2. motion_stop_latched => ~Accepts
        BY <1>5 DEF PublishTeleop, PublishSpin, Accepts
    <2>3. motion_stop_latched => ~base'.moves /\ base'.hold = base.hold
        BY <2>1, <2>2 DEF Moves, Typed, MotionType
    <2> QED
        BY <1>5, <2>1, <2>3 DEF PublishTeleop, PublishSpin, NoHandler
  <1>6. CASE TimePasses
    <2>1. ~base'.moves /\ UNCHANGED <<handler, ros>>
        BY <1>6 DEF TimePasses, Typed, MotionType
    <2>2. handler.pc # "checked" /\ ros # "spin"
        BY <1>6 DEF TimePasses
    <2> QED
        BY <2>1, <2>2
  <1> QED
      BY <1>1, <1>2, <1>3, <1>4, <1>5, <1>6, BaseSteps

\* While a stop of either kind is latched the base is not moved: whatever was
\* decided before the stop meets the hold of the arbiter, which the stop
\* itself began.
THEOREM StopKeepsHold == Spec => []StopHolds
  <1>1. Init => StopHoldsInv
      BY DEF Init, StopHoldsInv, motion_stop_latched
  <1>2. StopHoldsInv => StopHolds
      BY DEF StopHoldsInv, StopHolds
  <1> QED
      BY <1>1, <1>2, StopHoldsStep, AlwaysTyped, PTL DEF Spec
=============================================================================
