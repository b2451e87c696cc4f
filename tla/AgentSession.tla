---------------------------- MODULE AgentSession ----------------------------
(***************************************************************************)
(* The agent as the fleet server sees it: one WebSocket, whose messages    *)
(* the receive loop handles one at a time, and the operations it starts.   *)
(* Four threads meet here: the asyncio loop (the handlers), the single     *)
(* thread of the ROS executor (queues, spin, answers of Nav2), the worker  *)
(* of a mapping command, for which the receive loop waits, and the         *)
(* recovery of a mission, which owns no thread of its own in this module.  *)
(*                                                                         *)
(* A message says what it asks when it is handled, not before: the inbox   *)
(* tells apart only what a property does.  Time is one action, a period no *)
(* shorter than the dead-man and the lease of a motion at the base.        *)
(* Missions, the mapping runtime and the base arbiter have modules of      *)
(* their own; here they are as much as the exclusions between them need.   *)
(*                                                                         *)
(* Missions and map switches are looked at under different locks.  What a  *)
(* thread saw of one when it goes on with the other is in handler.pc and   *)
(* ros: the other thread may act between any two of these steps.           *)
(*                                                                         *)
(* A definition D_Fault is D with a seeded fault.                          *)
(***************************************************************************)
EXTENDS Naturals, Sequences

CONSTANTS
  Map,       \* map ids
  None,      \* no map
  BootMap,   \* the map the robot was set up with
  Stored,    \* the maps on its disk at first
  Hold,      \* periods for which the base refuses motion after a zero velocity
  SpinLimit, \* periods of a localization scan
  MaxInbox,  \* bound: messages received and not handled
  MaxEvents  \* bound: messages, losses, presses and reboots

ASSUME SessionAssumption ==
  /\ BootMap \in Stored /\ Stored \subseteq Map /\ None \notin Map
  /\ {Hold, SpinLimit} \subseteq Nat \ {0} /\ {MaxInbox, MaxEvents} \subseteq Nat

VARIABLES
  conn,     \* "up", "lost" (the agent does not know yet), "down"
  inbox,    \* messages received, by their kind
  handler,  \* of the message being handled: [pc, work, map]
  mapping,  \* phase of the mapping runtime
  mission,  \* [at, map]: where it is, and the map it was accepted on
  preview,  \* [queued, leg]
  switch,   \* the map switch: [queued, taken, active]
  maps,     \* [disk, link, believed, loaded]
  stops,    \* [server, physical, pressed]
  spin,     \* the localization scan: [wanted, active, left]
  base,     \* [moves, hold, watched]: what the arbiter lets through
  ros,      \* what the executor's thread is in the middle of
  events    \* bound: what MaxEvents counts

link == <<conn, inbox>>
work == <<mission, preview, switch, maps, mapping>>
motion == <<spin, base, stops>>
vars == <<link, handler, work, motion, ros, events>>

NoHandler == [pc |-> "idle", work |-> "none", map |-> None]
NoMission == [at |-> "none", map |-> None]
NoPreview == [queued |-> FALSE, leg |-> 0]
NoSwitch == [queued |-> None, taken |-> None, active |-> None]
NoSpin == [wanted |-> FALSE, active |-> FALSE, left |-> 0]
NoMotion == [moves |-> FALSE, hold |-> 0, watched |-> FALSE]

Init ==
  /\ conn = "down" /\ inbox = <<>> /\ handler = NoHandler
  /\ mapping = "IDLE" /\ mission = NoMission /\ preview = NoPreview /\ switch = NoSwitch
  /\ maps = [disk |-> Stored, link |-> BootMap, believed |-> BootMap, loaded |-> BootMap]
  /\ stops = [server |-> FALSE, physical |-> FALSE, pressed |-> FALSE]
  /\ spin = NoSpin /\ base = NoMotion
  /\ ros = "free" /\ events = 0

Occurs == events < MaxEvents /\ events' = events + 1
motion_stop_latched == stops.server \/ stops.physical

\* Zero velocity on the emergency topic: the arbiter stops and holds.
Zero == base' = [base EXCEPT !.moves = FALSE, !.hold = Hold]
Accepts_DuringHold == TRUE
Accepts == base.hold = 0
Moves == base' = [base EXCEPT !.moves = @ \/ Accepts, !.watched = TRUE]

\* active_map_id_from_link
Linked == IF maps.link \in maps.disk THEN maps.link ELSE None
Free == ros = "free"

SwitchActive == switch.active # None \/ switch.queued # None
PreviewActive == preview.queued \/ preview.leg # 0

-----------------------------------------------------------------------------
(* The connection *)

Connect ==
  /\ conn = "down" /\ handler.pc = "idle"
  /\ conn' = "up" /\ inbox' = <<>>
  /\ UNCHANGED <<handler, work, motion, ros, events>>

\* The server sends, the network breaks.
Send(kind) ==
  /\ conn = "up" /\ Len(inbox) < MaxInbox /\ Occurs
  /\ inbox' = Append(inbox, kind)
  /\ UNCHANGED <<conn, handler, work, motion, ros>>
Lose ==
  /\ conn = "up" /\ Occurs
  /\ conn' = "lost"
  /\ UNCHANGED <<inbox, handler, work, motion, ros>>

\* What was received before the loss is handled first.
Drained_NotAwaited == inbox = <<>>
Drained == inbox = <<>> /\ handler.pc = "idle"
Disconnect ==
  /\ conn = "lost" /\ Drained
  /\ conn' = "down" /\ handler' = NoHandler
  /\ UNCHANGED <<inbox, work, motion, ros, events>>

\* The catalogue and readiness loops of a connection.
RefreshActiveMap ==
  /\ conn = "up"
  /\ maps' = [maps EXCEPT !.believed = Linked]
  /\ UNCHANGED <<link, handler, mission, preview, switch, mapping, motion, ros, events>>

-----------------------------------------------------------------------------
(* receive_loop: one message at a time *)

Takes(kind) ==
  /\ handler.pc = "idle" /\ conn # "down"
  /\ inbox # <<>> /\ inbox[1] = kind

\* A reply over a lost connection may raise, and end the loop.
Replies ==
  \/ inbox' = Tail(inbox) /\ UNCHANGED conn
  \/ conn = "lost" /\ conn' = "down" /\ inbox' = <<>>
Answered == Replies /\ UNCHANGED <<handler, ros, events>>

\* Invalid, refused, or not ready.
Refuses ==
  /\ Takes("request") /\ Answered
  /\ UNCHANGED <<work, motion>>

QueueNavigationCommand ==
  /\ Takes("request") /\ Answered
  /\ mission = NoMission /\ ~motion_stop_latched /\ mapping = "IDLE"
  /\ mission' = [at |-> "queued", map |-> maps.loaded]
  /\ UNCHANGED <<preview, switch, maps, mapping, motion>>

QueueRoutePreview ==
  /\ Takes("request") /\ Answered
  /\ ~SwitchActive /\ ~preview.queued
  /\ preview' = [preview EXCEPT !.queued = TRUE]
  /\ UNCHANGED <<mission, switch, maps, mapping, motion>>

\* A map switch: looks at the mission, at the previews and at the switches, each
\* under its own lock, and then puts the command into the queue.
Looks(from, to, blocked) ==
  /\ handler.pc = from
  /\ IF blocked
     THEN /\ handler' = NoHandler
          /\ \/ UNCHANGED link
             \/ conn = "lost" /\ conn' = "down" /\ inbox' = <<>>
     ELSE handler' = [handler EXCEPT !.pc = to] /\ UNCHANGED link
  /\ UNCHANGED <<work, motion, ros, events>>
HandleMapCommand ==
  /\ Takes("request") /\ inbox' = Tail(inbox)
  /\ mission.at # "active"
  /\ \E m \in maps.disk : handler' = [pc |-> "previews", work |-> "none", map |-> m]
  /\ UNCHANGED <<conn, work, motion, ros, events>>
LookAtPreviews == Looks("previews", "switches", PreviewActive)
LookAtSwitches == Looks("switches", "put", SwitchActive)
PutMapCommand ==
  /\ handler.pc = "put" /\ handler' = NoHandler
  /\ switch' = [switch EXCEPT !.queued = handler.map]
  /\ UNCHANGED <<link, mission, preview, maps, mapping, motion, ros, events>>

\* DELETE, and RENAME to a new id.  The files are changed within one handler,
\* sooner than the map server answers a request sent meanwhile.
Removable_Believed(m) == m \in maps.disk /\ m # maps.believed
Removable(m) == m \in maps.disk /\ m # maps.believed /\ m # Linked
HandleMapCatalogCommand ==
  /\ Takes("request") /\ Answered
  /\ ~SwitchActive /\ mission.at # "active" /\ ~PreviewActive
  /\ \E m \in Map : Removable(m) /\
       \E new \in SUBSET (Map \ maps.disk) :
         /\ \A a, b \in new : a = b
         /\ maps' = [maps EXCEPT !.disk = (@ \ {m}) \cup new, !.believed = Linked]
  /\ UNCHANGED <<mission, preview, switch, mapping, motion>>

\* The receive loop waits for the worker thread of a mapping command.
Awaits(action) == handler' = [pc |-> "work", work |-> action, map |-> None]
HandleMappingStart ==
  /\ Takes("request")
  /\ mapping \in {"IDLE", "FAILED"} /\ ~motion_stop_latched
  /\ mission.at # "active" /\ ~PreviewActive /\ ~SwitchActive
  /\ Awaits("START") /\ inbox' = Tail(inbox)
  /\ mapping' = "BUSY"
  /\ UNCHANGED <<conn, mission, preview, switch, maps, motion, ros, events>>

Ends == [STOP |-> {"MAPPING"}, SAVE |-> {"REVIEW"}, DISCARD |-> {"MAPPING", "REVIEW", "FAILED"}]
HandleMappingEnd ==
  /\ Takes("request")
  /\ \E action \in DOMAIN Ends : mapping \in Ends[action] /\ Awaits(action)
  /\ inbox' = Tail(inbox)
  /\ Zero /\ mapping' = "BUSY"
  /\ UNCHANGED <<conn, mission, preview, switch, maps, spin, stops, ros, events>>

\* The worker is through, and the handler replies.
Outcome == [START |-> {"MAPPING", "FAILED"}, STOP |-> {"REVIEW"},
            SAVE |-> {"IDLE", "REVIEW", "FAILED"}, DISCARD |-> {"IDLE", "FAILED"}]
\* A saved map is written, then activated: the root helper moves the link and
\* restarts the stack, which loads what the link names.
Saves ==
  \/ UNCHANGED maps
  \/ \E m \in Map \ maps.disk :
       \/ mapping' # "IDLE" /\ maps' = [maps EXCEPT !.disk = @ \cup {m}]
       \/ maps' = [maps EXCEPT !.disk = @ \cup {m}, !.link = m, !.loaded = m,
                     !.believed = IF mapping' = "IDLE" THEN m ELSE @]
MappingWorks ==
  /\ handler.pc = "work"
  /\ mapping' \in Outcome[handler.work]
  /\ IF handler.work = "SAVE" THEN Saves ELSE UNCHANGED maps
  /\ handler' = NoHandler
  /\ \/ UNCHANGED link
     \/ conn = "lost" /\ conn' = "down" /\ inbox' = <<>>
  /\ UNCHANGED <<mission, preview, switch, motion, ros, events>>

\* Teleoperation: manual, or of a mapping session; that of a localization
\* recovery asks for more.
TeleopAllowed ==
  ~motion_stop_latched /\ mapping \in {"IDLE", "MAPPING"}
HandleTeleop ==
  /\ Takes("teleop") /\ inbox' = Tail(inbox)
  /\ handler' = IF TeleopAllowed THEN [NoHandler EXCEPT !.pc = "checked"] ELSE NoHandler
  /\ UNCHANGED <<conn, work, motion, ros, events>>
PublishTeleop ==
  /\ handler.pc = "checked"
  /\ Moves /\ handler' = NoHandler
  /\ UNCHANGED <<link, work, spin, stops, ros, events>>

HandleLocalizationScan ==
  /\ Takes("request") /\ Answered
  /\ \/ /\ spin.wanted /\ mission.at # "active" /\ mapping = "IDLE" /\ ~motion_stop_latched
        /\ spin' = [spin EXCEPT !.active = TRUE, !.left = SpinLimit] /\ UNCHANGED base
     \/ spin' = [spin EXCEPT !.active = FALSE, !.left = 0] /\ Zero
  /\ UNCHANGED <<work, stops>>

DropMission ==
  mission' = IF mission.at \in {"queued", "active"} THEN NoMission ELSE mission
HandleEmergencyStop ==
  /\ Takes("emergency") /\ Answered
  /\ stops' = [stops EXCEPT !.server = TRUE]
  /\ Zero /\ DropMission
  /\ UNCHANGED <<preview, switch, maps, mapping, spin>>
HandleEmergencyReset ==
  /\ Takes("request") /\ Answered
  /\ stops' = [stops EXCEPT !.server = FALSE] /\ Zero
  /\ UNCHANGED <<work, spin>>

Loop ==
  \/ Refuses \/ QueueNavigationCommand \/ QueueRoutePreview
  \/ HandleMapCommand \/ LookAtPreviews \/ LookAtSwitches \/ PutMapCommand
  \/ HandleMapCatalogCommand \/ HandleMappingStart \/ HandleMappingEnd
  \/ HandleTeleop \/ PublishTeleop \/ HandleLocalizationScan
  \/ HandleEmergencyStop \/ HandleEmergencyReset

-----------------------------------------------------------------------------
(* The executor's thread *)

\* process_command_queue looks for a switch, ...
ProcessCommandQueue ==
  /\ Free /\ ~SwitchActive
  /\ ros' = "command"
  /\ UNCHANGED <<link, handler, work, motion, events>>
\* ... takes a command, unless a stop is latched or a mission is active, ...
TakeCommand ==
  /\ ros = "command"
  /\ IF mission.at = "queued" /\ ~motion_stop_latched
     THEN ros' = "start" /\ mission' = [mission EXCEPT !.at = "taken"]
     ELSE ros' = "free" /\ mission' = IF mission.at = "queued" THEN NoMission ELSE mission
  /\ UNCHANGED <<link, handler, preview, switch, maps, mapping, motion, events>>
\* ... and activates it: a stop no longer reaches it, a cancellation still does.
Activate ==
  /\ ros = "start" /\ ros' = "free"
  /\ mission' \in {NoMission, [mission EXCEPT !.at = "active"]}
  /\ UNCHANGED <<link, handler, preview, switch, maps, mapping, motion, events>>

\* The result, or a recovery that puts the command back.
MissionEnds ==
  /\ Free /\ mission.at = "active"
  /\ mission' \in {NoMission, [mission EXCEPT !.at = "recovering"]}
  /\ UNCHANGED <<link, handler, preview, switch, maps, mapping, motion, ros, events>>
RecoveryEnds ==
  /\ mission.at = "recovering"
  /\ mission' \in {NoMission, [mission EXCEPT !.at = "queued"]}
  /\ UNCHANGED <<link, handler, preview, switch, maps, mapping, motion, ros, events>>

ProcessPreviewQueue ==
  /\ Free /\ preview.queued /\ preview.leg = 0
  /\ \E leg \in {0, 1} : preview' = [queued |-> FALSE, leg |-> leg]
  /\ UNCHANGED <<link, handler, mission, switch, maps, mapping, motion, ros, events>>
\* Nav2 answers a leg: the next leg, or the end.
PreviewResult ==
  /\ Free /\ preview.leg # 0
  /\ \E leg \in {0, 2} : leg # preview.leg /\ preview' = [preview EXCEPT !.leg = leg]
  /\ UNCHANGED <<link, handler, mission, switch, maps, mapping, motion, ros, events>>

\* process_map_command_queue takes a switch, looks again, and begins.
TakeSwitch ==
  /\ Free /\ switch.active = None /\ switch.queued # None
  /\ switch' = [switch EXCEPT !.queued = None, !.taken = switch.queued]
  /\ ros' = "switch"
  /\ UNCHANGED <<link, handler, mission, preview, maps, mapping, motion, events>>
FinishSwitch == switch' = [switch EXCEPT !.active = None, !.taken = None]
Fails_KeepsActive == switch' = [switch EXCEPT !.taken = None]
\* finish_map_switch of a switch that did not happen.
Fails == FinishSwitch
Overtaken_ByPreview == PreviewActive
Overtaken == mission.at = "active" \/ PreviewActive
SwitchTooLate ==
  /\ ros = "switch" /\ Overtaken
  /\ Fails /\ ros' = "free"
  /\ UNCHANGED <<link, handler, mission, preview, maps, mapping, motion, events>>
\* LoadMap is called, or, without a map server, the root helper.
BeginSwitch ==
  /\ ros = "switch" /\ ~Overtaken
  /\ switch' = [switch EXCEPT !.taken = None, !.active = switch.taken]
  /\ ros' \in {"free", "activating"}
  /\ UNCHANGED <<link, handler, mission, preview, maps, mapping, motion, events>>

\* The helper's 18 seconds, the thread with it; after them it may still succeed.
ActivateMap ==
  /\ ros = "activating" /\ ros' = "free" /\ Fails
  /\ \/ UNCHANGED maps
     \/ /\ switch.active \in maps.disk
        /\ \E m \in {maps.believed, switch.active} :
             maps' = [maps EXCEPT !.link = switch.active, !.loaded = switch.active,
                        !.believed = m]
  /\ UNCHANGED <<link, handler, mission, preview, mapping, motion, events>>

\* map_switch_result_callback, with the refreshes of the other thread between
\* its steps: the id, the link (which may fail), the report, the refresh.
MapSwitchResult ==
  /\ Free /\ switch.active # None
  /\ \/ Fails /\ UNCHANGED <<maps, ros>>
     \/ /\ switch.active \in maps.disk
        /\ maps' = [maps EXCEPT !.loaded = switch.active, !.believed = switch.active]
        /\ ros' = "link" /\ UNCHANGED switch
  /\ UNCHANGED <<link, handler, mission, preview, mapping, motion, events>>
SetActiveMapLink ==
  /\ ros = "link" /\ ros' = "finish"
  /\ \/ UNCHANGED maps
     \/ maps.believed \in maps.disk /\ maps' = [maps EXCEPT !.link = maps.believed]
  /\ UNCHANGED <<link, handler, mission, preview, switch, mapping, motion, events>>
FinishMapSwitch ==
  /\ ros = "finish" /\ ros' = "report"
  /\ FinishSwitch
  /\ UNCHANGED <<link, handler, mission, preview, maps, mapping, motion, events>>
ReportMapSwitch ==
  /\ ros = "report" /\ ros' = "free"
  /\ maps' = [maps EXCEPT !.believed = Linked]
  /\ UNCHANGED <<link, handler, mission, preview, switch, mapping, motion, events>>

SwitchStep ==
  \/ TakeSwitch \/ SwitchTooLate \/ BeginSwitch \/ ActivateMap \/ MapSwitchResult
  \/ SetActiveMapLink \/ FinishMapSwitch \/ ReportMapSwitch

SpinForbidden ==
  \/ ~spin.wanted \/ mission.at = "active" \/ mapping # "IDLE"
  \/ spin.left = 0 \/ motion_stop_latched
RunLocalizationScan ==
  /\ Free /\ spin.active
  /\ IF SpinForbidden
     THEN spin' = [spin EXCEPT !.active = FALSE, !.left = 0] /\ Zero /\ UNCHANGED ros
     ELSE ros' = "spin" /\ UNCHANGED <<spin, base>>
  /\ UNCHANGED <<link, handler, work, stops, events>>
PublishSpin ==
  /\ ros = "spin" /\ ros' = "free"
  /\ Moves
  /\ UNCHANGED <<link, handler, work, spin, stops, events>>
\* A global localization begins, the poses converge.
LocalizationChanges ==
  /\ Free
  /\ \/ spin.wanted
     \/ ~PreviewActive /\ ~SwitchActive /\ mission.at # "active" /\ mapping = "IDLE"
  /\ spin' = [spin EXCEPT !.wanted = ~@]
  /\ UNCHANGED <<link, handler, work, base, stops, ros, events>>

PhysicalEstopCallback ==
  /\ Free /\ stops.physical # stops.pressed
  /\ stops' = [stops EXCEPT !.physical = stops.pressed]
  /\ Zero
  /\ IF stops.pressed THEN DropMission ELSE UNCHANGED mission
  /\ UNCHANGED <<link, handler, preview, switch, maps, mapping, spin, ros, events>>

Executor ==
  \/ ProcessCommandQueue \/ TakeCommand \/ Activate \/ ProcessPreviewQueue \/ PreviewResult
  \/ SwitchStep \/ RunLocalizationScan \/ PublishSpin \/ PhysicalEstopCallback

-----------------------------------------------------------------------------
(* The button, time, and a reboot *)

PressOrRelease ==
  /\ Occurs
  /\ stops' = [stops EXCEPT !.pressed = ~@]
  /\ UNCHANGED <<link, handler, work, spin, base, ros>>

\* A period passes.  What does not wait for another thread or process is done
\* sooner.  The lease of a motion ends; a free executor enforces the dead-man,
\* publishes zero velocity while a stop is latched, and counts the scan's time.
TimePasses ==
  /\ handler.pc = "work" \/ (handler.pc = "idle" /\ (inbox = <<>> \/ conn = "down"))
  /\ ros \in {"free", "activating"} /\ (Free => stops.physical = stops.pressed)
  /\ base' = [moves |-> FALSE, watched |-> base.watched /\ ~Free,
              hold |-> IF Free /\ (motion_stop_latched \/ base.watched) THEN Hold
                       ELSE IF base.hold = 0 THEN 0 ELSE base.hold - 1]
  /\ spin' = [spin EXCEPT !.left = IF Free /\ @ > 0 THEN @ - 1 ELSE @]
  /\ UNCHANGED <<link, handler, work, stops, ros, events>>

Reboot ==
  /\ Occurs
  /\ conn' = "down" /\ inbox' = <<>> /\ handler' = NoHandler
  /\ mapping' = "IDLE" /\ mission' = NoMission /\ preview' = NoPreview /\ switch' = NoSwitch
  /\ maps' = [maps EXCEPT !.believed = Linked, !.loaded = Linked]
  /\ stops' = [stops EXCEPT !.server = FALSE, !.physical = FALSE]
  /\ spin' = NoSpin /\ base' = NoMotion /\ ros' = "free"

Next ==
  \/ Connect \/ (\E kind \in {"request", "teleop", "emergency"} : Send(kind)) \/ Lose
  \/ Disconnect \/ RefreshActiveMap \/ Loop \/ MappingWorks \/ Executor
  \/ MissionEnds \/ RecoveryEnds \/ LocalizationChanges
  \/ PressOrRelease \/ TimePasses \/ Reboot

Spec == Init /\ [][Next]_vars

\* The loop and the worker (whose waits are bounded) go on; the executor serves
\* its timer and the answers in turn; Nav2 answers.
FairSpec ==
  /\ Spec
  /\ WF_vars(Loop) /\ WF_vars(MappingWorks)
  /\ WF_vars(TakeCommand \/ Activate \/ PublishSpin) /\ SF_vars(SwitchStep)

-----------------------------------------------------------------------------
(* Properties *)

TypeOK ==
  /\ conn \in {"up", "lost", "down"}
  /\ inbox \in Seq({"request", "teleop", "emergency"}) /\ Len(inbox) <= MaxInbox
  /\ handler \in [pc : {"idle", "checked", "previews", "switches", "put", "work"},
                  work : {"none"} \cup DOMAIN Outcome, map : Map \cup {None}]
  /\ mapping \in {"IDLE", "BUSY", "MAPPING", "REVIEW", "FAILED"}
  /\ mapping = "BUSY" <=> handler.pc = "work"
  /\ mission \in [at : {"none", "queued", "taken", "active", "recovering"}, map : Map \cup {None}]
  /\ preview \in [queued : BOOLEAN, leg : 0..2]
  /\ switch \in [queued : Map \cup {None}, taken : Map \cup {None}, active : Map \cup {None}]
  /\ switch.taken # None <=> ros = "switch"
  /\ mission.at = "taken" <=> ros = "start"
  /\ maps \in [disk : SUBSET Map, link : Map \cup {None}, believed : Map \cup {None},
               loaded : Map \cup {None}]
  /\ stops \in [server : BOOLEAN, physical : BOOLEAN, pressed : BOOLEAN]
  /\ spin \in [wanted : BOOLEAN, active : BOOLEAN, left : 0..SpinLimit]
  /\ base \in [moves : BOOLEAN, hold : 0..Hold, watched : BOOLEAN]
  /\ ros \in {"free", "switch", "activating", "link", "finish", "report", "spin", "command",
             "start"}
  /\ events \in 0..MaxEvents

\* No mission drives while a map switch is under way, whatever the loop and the
\* executor saw of the other kind before a switch was queued or a mission activated.
SwitchExcludesMission == ~(mission.at = "active" /\ switch.active # None)

\* The map the robot starts with exists, whatever is deleted, renamed, saved or
\* switched, and whatever the agent believes to be the active map.
BootMapExists == maps.link \in maps.disk

\* While a stop is latched the agent moves the base with no teleoperation and no
\* scan, not even one it decided on before the stop.
StopHolds == motion_stop_latched => ~base.moves

\* A map switch that began comes to an end, and with it the wait of the missions.
SwitchEnds == switch.active # None ~> switch.active = None

\* A goal is driven on the map its command was accepted for.
GoalOnItsMap == mission.at = "active" => mission.map = maps.loaded
=============================================================================
