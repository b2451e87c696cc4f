---------------------------- MODULE NavLifecycle ----------------------------
(***************************************************************************)
(* Who may move the Nav2 stack between its lifecycle states.  Five actors  *)
(* in three processes call the two lifecycle managers of Nav2:             *)
(*                                                                         *)
(*   mapping  MappingRuntime of the robot agent, on a worker thread: pauses*)
(*            Nav2 for a SLAM session and brings it back                   *)
(*   pose     the agent's SET_INITIAL_POSE command, which resumes AMCL     *)
(*   starter, watcher   two localization readiness gates: one starts AMCL, *)
(*            the exit of the other launches Nav2 and the activation gate  *)
(*   gate     the Nav2 activation gate: starts Nav2, repairs it once,      *)
(*            validates it                                                 *)
(*                                                                         *)
(* They meet in a marker file (mapping-active) and a file lock             *)
(* (LifecycleInterlock); a manager serves one request at a time and goes   *)
(* on with a request whose caller stopped waiting.  Nav2, its managers and *)
(* the service manager are external.                                       *)
(*                                                                         *)
(* A definition D_Fault is D with a seeded fault.                          *)
(***************************************************************************)
EXTENDS Naturals, FiniteSets

CONSTANTS
  Attempts,     \* of a restoring lifecycle command
  SaveEnds,     \* how a saved map ends the session: "activate" it or "restore" Nav2
  MaxEvents     \* bound: mapping sessions, SET_INITIAL_POSE commands, requests that outlive
                \* their caller, crashes and restarts, failed requests of the gate, together

ASSUME LifecycleAssumption ==
  /\ Attempts \in Nat \ {0}
  /\ SaveEnds \subseteq {"activate", "restore"}
  /\ MaxEvents \in Nat

VARIABLES
  state,    \* lifecycle state of the nodes of each manager
  by,       \* history: the caller that activated them
  call,     \* the request each caller waits for
  late,     \* requests whose caller stopped waiting
  marker,   \* the file mapping-active exists
  lock,     \* holder of the interlock
  ready,    \* the two readiness gates
  gate,     \* the activation gate
  repaired, \* lifecycle_repair_attempted
  phase,    \* MappingRuntime._phase
  step,     \* what its worker thread is doing
  paused,   \* navigation_paused, localization_paused of start
  was,      \* managers with a _was_active flag set
  tries,    \* failed attempts of the present restoring command
  slam,     \* _process is set
  agent,    \* the agent process runs
  pose,     \* active_localization_command is set
  events,   \* bound: what MaxEvents counts
  history   \* what the properties remember of the sessions

mapping == <<phase, step, paused, was, tries, slam>>
gates == <<ready, gate, repaired>>
files == <<marker, lock>>
nodes == <<state, by>>
vars == <<nodes, call, late, files, gates, mapping, agent, pose, events, history>>

-----------------------------------------------------------------------------
Manager == {"navigation", "localization"}
Caller == {"mapping", "pose", "starter", "gate"}
Command == {"startup", "pause", "resume", "reset"}
Request == Manager \X Command
None == <<"none", "none">>

NodeState == {"absent", "unconfigured", "inactive", "active"}
Answer == {"pending", "ok", "rejected", "error", "never"}
ReadyState == {"watch", "asking", "starting", "ready", "exited"}
InFlight == {"state", "startup", "reset", "validate", "pause"}
GateEnd == {"verified", "paused", "unpaused", "stopped"}
GateState == {"absent", "watch", "locking"} \cup InFlight \cup GateEnd
Phase == {"IDLE", "STARTING", "MAPPING", "REVIEW", "SAVING", "RESTORING", "FAILED"}
Step == {"none", "lock", "read", "pauseNav", "pauseLoc", "launch", "undoLoc", "undoNav", "undone",
         "write", "activate", "activated", "stopSlam", "startLoc", "resetNav", "startNav", "restored"}

Idle == [req |-> None, answer |-> "pending"]
Asks(c, m, cmd) == call' = [call EXCEPT ![c] = [req |-> <<m, cmd>>, answer |-> "pending"]]
Waits(c) == call[c].req # None
Pending(c) == Waits(c) /\ call[c].answer = "pending"
Answered(c) == Waits(c) /\ call[c].answer \in {"ok", "rejected", "error"}
Hears(c) == Answered(c) /\ call' = [call EXCEPT ![c] = Idle]

Active(m) == state[m] = "active"

Occurs == events < MaxEvents /\ events' = events + 1

Init ==
  /\ state = [m \in Manager |-> IF m = "navigation" THEN "absent" ELSE "unconfigured"]
  /\ by = [m \in Manager |-> "nobody"]
  /\ call = [c \in Caller |-> Idle]
  /\ late = {} /\ marker = FALSE /\ lock = "free"
  /\ ready = [g \in {"starter", "watcher"} |-> "watch"]
  /\ gate = "absent" /\ repaired = FALSE
  /\ phase = "IDLE" /\ step = "none" /\ paused = {} /\ was = {} /\ tries = 0 /\ slam = FALSE
  /\ agent = TRUE /\ pose = FALSE
  /\ events = 0
  /\ history = [owed |-> {}, botched |-> FALSE, stray |-> FALSE]

-----------------------------------------------------------------------------
(* LifecycleInterlock *)

TryAcquire(who) == lock \in {"free", who} /\ lock' = who
Release(who) == lock' = IF lock = who THEN "free" ELSE lock

-----------------------------------------------------------------------------
(* The lifecycle managers (external). *)

\* What a command does to the nodes it finds in state s.
Applies(cmd, s) ==
  \/ cmd = "startup" /\ s = "unconfigured"
  \/ cmd = "pause" /\ s = "active"
  \/ cmd = "resume" /\ s = "inactive"
  \/ cmd = "reset" /\ s # "absent"
Reached(cmd) ==
  CASE cmd \in {"startup", "resume"} -> "active"
    [] cmd = "pause" -> "inactive"
    [] cmd = "reset" -> "unconfigured"

Moves(m, s, who) ==
  /\ state' = [state EXCEPT ![m] = s]
  /\ by' = [by EXCEPT ![m] = CASE s # "active" -> "nobody" [] Active(m) -> @ [] OTHER -> who]

\* A command that applies is carried out, or given up on the way: the node the
\* clients look at has made the transition by then, or not.
Execute(c) ==
  /\ Pending(c)
  /\ LET m == call[c].req[1]  cmd == call[c].req[2] IN
     \E answer \in {"ok", "rejected"} :
       /\ call' = [call EXCEPT ![c].answer = answer]
       /\ IF Applies(cmd, state[m])
          THEN \E s \in {state[m], Reached(cmd)} :
                 (answer = "ok" => s = Reached(cmd)) /\ Moves(m, s, c)
          ELSE answer = "rejected" /\ UNCHANGED nodes
  /\ UNCHANGED <<late, files, gates, mapping, agent, pose, events, history>>

\* The request fails in the middleware: the future ends with an exception.
Lose(c) ==
  /\ Pending(c)
  /\ call' = [call EXCEPT ![c].answer = "error"] /\ Occurs
  /\ UNCHANGED <<nodes, late, files, gates, mapping, agent, pose, history>>

ExecuteLate(r) ==
  /\ r \in late
  /\ late' = late \ {r}
  /\ IF Applies(r[2], state[r[1]]) THEN Moves(r[1], Reached(r[2]), "late") ELSE UNCHANGED nodes
  /\ history' = [history EXCEPT !.stray = @ \/ (gate \in {"pause", "paused"} /\ state' # state)]
  /\ UNCHANGED <<call, files, gates, mapping, agent, pose, events>>

\* The requests that callers which go away leave behind.
Orphans(cs) == {call[c].req : c \in {d \in cs : Pending(d)}}

\* The service manager restarts the whole Nav2 side: nodes, managers and the
\* gates with their lock.  A caller in the agent never hears of its request.
RestartStack ==
  /\ state' = [state EXCEPT !["navigation"] = "absent", !["localization"] = "unconfigured"]
  /\ ready' = [g \in DOMAIN ready |-> "watch"]
  /\ gate' = "absent" /\ repaired' = FALSE
  /\ call' = [c \in Caller |->
               IF c \in {"mapping", "pose"} /\ Pending(c) THEN [call[c] EXCEPT !.answer = "never"]
               ELSE IF c \in {"mapping", "pose"} THEN call[c] ELSE Idle]
  /\ late' = {} /\ by' = [m \in Manager |-> "nobody"] /\ Release("gate")
  /\ history' = [history EXCEPT !.owed = {}, !.stray = FALSE]

-----------------------------------------------------------------------------
(* LocalizationReadinessGate, twice: neither takes the interlock. *)

Becomes(g, s) == ready' = [ready EXCEPT ![g] = s]

ReadyCheck(g) ==
  /\ ready[g] = "watch" /\ ~marker
  /\ state["localization"] # "absent"
  /\ Becomes(g, "asking")
  /\ UNCHANGED <<nodes, call, late, files, gate, repaired, mapping, agent, pose, events, history>>

\* The last of the two state answers decides; the marker is not looked at again.
StateReceived(g) ==
  /\ ready[g] = "asking"
  /\ \/ Active("localization") /\ UNCHANGED call
        /\ Becomes(g, IF g = "watcher" THEN "ready" ELSE "exited")
     \/ ~Active("localization") /\ g = "starter" /\ Becomes(g, "starting")
        /\ Asks("starter", "localization", "startup")
     \/ ~Active("localization") /\ Becomes(g, "watch") /\ UNCHANGED call
  /\ UNCHANGED <<nodes, late, files, gate, repaired, mapping, agent, pose, events, history>>

StartupComplete ==
  /\ ready["starter"] = "starting" /\ Hears("starter")
  /\ Becomes("starter", "watch")
  /\ UNCHANGED <<nodes, late, files, gate, repaired, mapping, agent, pose, events, history>>

\* The exit of the watcher launches the Nav2 processes and the activation gate
\* (that of the starter nothing).
ReadyExit ==
  /\ ready["watcher"] = "ready" /\ ~marker
  /\ Becomes("watcher", "exited")
  /\ gate' = "watch" /\ state' = [state EXCEPT !["navigation"] = "unconfigured"]
  /\ UNCHANGED <<by, call, late, files, repaired, mapping, agent, pose, events, history>>

-----------------------------------------------------------------------------
(* Nav2ActivationGate: one request at a time, the interlock held from the first
   to the end of the validation.  The answers are callbacks of one executor. *)

Reports(g) == UNCHANGED <<nodes, late, marker, ready, mapping, agent, pose, events, history>> /\ gate' = g
Retries == Reports("watch") /\ Release("gate") /\ UNCHANGED repaired
Leaves(g) == Reports(g) /\ Release("gate") /\ UNCHANGED repaired

\* check_localization: a fresh AMCL pose needs an active AMCL.
GateCheck ==
  /\ gate = "watch" /\ ~marker
  /\ Active("localization")
  /\ Reports("locking") /\ UNCHANGED <<call, lock, repaired>>

GateAcquire ==
  /\ gate = "locking" /\ UNCHANGED <<call, repaired>>
  /\ IF lock = "free" /\ ~marker
     THEN TryAcquire("gate") /\ Reports("state")
     ELSE UNCHANGED lock /\ Reports("watch")

PlannerStateComplete ==
  /\ gate = "state"
  /\ \/ Retries /\ UNCHANGED call                      \* marker, or a failed request
     \/ ~marker /\ Active("navigation") /\ Reports("validate") /\ UNCHANGED <<call, lock, repaired>>
     \/ ~marker /\ ~Active("navigation") /\ Asks("gate", "navigation", "startup")
        /\ Reports("startup") /\ UNCHANGED <<lock, repaired>>

GateStartupComplete ==
  /\ gate = "startup" /\ Answered("gate")
  /\ LET answer == call["gate"].answer
         rejected == answer = "rejected" /\ ~marker IN
     \/ (answer = "error" \/ marker) /\ Hears("gate") /\ Retries
     \/ answer = "ok" /\ ~marker /\ Hears("gate") /\ Reports("validate")
        /\ UNCHANGED <<lock, repaired>>
     \/ rejected /\ ~repaired /\ Asks("gate", "navigation", "reset")
        /\ Reports("reset") /\ repaired' = TRUE /\ UNCHANGED lock
     \/ rejected /\ repaired /\ Hears("gate") /\ Leaves("stopped")

LifecycleResetComplete ==
  /\ gate = "reset" /\ Hears("gate")
  /\ IF call["gate"].answer = "ok" THEN Retries ELSE Leaves("stopped")

\* The parameters and publishers of the running stack match, or do not.
FinishValidation_EarlyRelease ==
  /\ gate = "validate"
  /\ \/ Leaves("verified") /\ UNCHANGED call
     \/ Asks("gate", "navigation", "pause") /\ Reports("pause") /\ Release("gate") /\ UNCHANGED repaired
FinishValidation ==
  /\ gate = "validate"
  /\ \/ Leaves("verified") /\ UNCHANGED call
     \/ Asks("gate", "navigation", "pause") /\ Reports("pause") /\ UNCHANGED <<lock, repaired>>

PauseComplete ==
  /\ gate = "pause" /\ Hears("gate")
  /\ Leaves(IF call["gate"].answer = "ok" THEN "paused" ELSE "unpaused")

GateWorks ==
  \/ GateAcquire \/ PlannerStateComplete \/ GateStartupComplete
  \/ LifecycleResetComplete \/ FinishValidation \/ PauseComplete

-----------------------------------------------------------------------------
(* The agent's SET_INITIAL_POSE command: asyncio thread, then executor.  The
   asyncio thread handles nothing else while a mapping command runs. *)

Listens == agent /\ step = "none"

HandleLocalizationCommand_Always ==
  /\ Listens /\ ~pose
  /\ pose' = TRUE /\ Occurs
  /\ UNCHANGED <<nodes, call, late, files, gates, mapping, agent, history>>
HandleLocalizationCommand ==
  /\ Listens /\ ~pose /\ phase = "IDLE"
  /\ pose' = TRUE /\ Occurs
  /\ UNCHANGED <<nodes, call, late, files, gates, mapping, agent, history>>

ProcessLocalizationCommand ==
  /\ pose /\ ~Waits("pose")
  /\ \/ Active("localization") /\ pose' = FALSE /\ UNCHANGED call
     \/ ~Active("localization") /\ UNCHANGED pose /\ Asks("pose", "localization", "resume")
  /\ UNCHANGED <<nodes, late, files, gates, mapping, agent, events, history>>

LocalizationResumed ==
  /\ pose /\ Hears("pose")
  /\ pose' = FALSE
  /\ UNCHANGED <<nodes, late, files, gates, mapping, agent, events, history>>

-----------------------------------------------------------------------------
(* MappingRuntime: the steps of a mapping command on its worker thread. *)

Enters(p, s) == phase' = p /\ step' = s
Forgets(ms) == history' = [history EXCEPT !.owed = @ \ ms]

\* What each step asks of a manager.
Wanted(s) ==
  CASE s = "pauseNav" -> <<"navigation", "pause">>
    [] s = "pauseLoc" -> <<"localization", "pause">>
    [] s \in {"undoLoc", "startLoc"} -> <<"localization", "resume">>
    [] s = "undoNav" -> <<"navigation", "resume">>
    [] s = "resetNav" -> <<"navigation", "reset">>
    [] s = "startNav" -> <<"navigation", "startup">>
    [] OTHER -> None

MappingAsks ==
  /\ Wanted(step) # None /\ ~Waits("mapping")
  /\ Asks("mapping", Wanted(step)[1], Wanted(step)[2])
  /\ UNCHANGED <<nodes, late, files, gates, mapping, agent, pose, events, history>>

\* The answer is success, or anything else: refused, lost with its request, or
\* later than 15 s.
Confirmed ==
  /\ Answered("mapping") /\ call["mapping"].answer = "ok"
  /\ call' = [call EXCEPT !["mapping"] = Idle] /\ UNCHANGED <<late, events>>
Failed ==
  /\ Waits("mapping") /\ call["mapping"].answer # "ok"
  /\ call' = [call EXCEPT !["mapping"] = Idle]
  /\ \/ UNCHANGED <<late, events>>
     \/ Pending("mapping") /\ late' = late \cup Orphans({"mapping"}) /\ Occurs

Quiet == UNCHANGED <<nodes, gates, agent, pose>>

\* start, up to the wait for the interlock.
StartSession_WithPose ==
  /\ Listens /\ phase \in {"IDLE", "FAILED"}
  /\ Enters("STARTING", "lock") /\ marker' = TRUE /\ paused' = {}
  /\ Occurs
  /\ history' = [history EXCEPT !.botched = @ \/ history.owed # {}]
  /\ Quiet /\ UNCHANGED <<call, late, lock, was, tries, slam>>
StartSession ==
  /\ Listens /\ ~pose
  /\ phase \in {"IDLE", "FAILED"}
  /\ Enters("STARTING", "lock") /\ marker' = TRUE /\ paused' = {}
  /\ Occurs
  /\ history' = [history EXCEPT !.botched = @ \/ history.owed # {}]
  /\ Quiet /\ UNCHANGED <<call, late, lock, was, tries, slam>>

\* The except branch of start: what was paused is resumed, as far as it goes.
AfterUndo(ms) ==
  IF "localization" \in ms THEN "undoLoc" ELSE IF "navigation" \in ms THEN "undoNav" ELSE "undone"
Undo == step' = AfterUndo(paused) /\ marker' = FALSE /\ UNCHANGED <<phase, paused, lock>>

AcquireInterlock ==
  /\ step = "lock" /\ TryAcquire("mapping")
  /\ step' = "read"
  /\ Quiet /\ UNCHANGED <<call, late, events, marker, phase, paused, was, tries, slam, history>>

\* Nav2 is still busy after 30 s.
InterlockTimeout_Waits == step = "lock" /\ lock = "gate" /\ UNCHANGED vars
InterlockTimeout ==
  /\ step = "lock" /\ lock = "gate"
  /\ Undo
  /\ Quiet /\ UNCHANGED <<call, late, events, was, tries, slam, history>>

AfterRead(ms) ==
  IF "navigation" \in ms THEN "pauseNav" ELSE IF "localization" \in ms THEN "pauseLoc" ELSE "launch"

ReadActiveNodes ==
  /\ step = "read"
  /\ \/ /\ was' = {m \in Manager : Active(m)}
        /\ step' = AfterRead(was') /\ UNCHANGED <<marker, phase, paused, lock>>
     \/ Undo /\ UNCHANGED was
  /\ Quiet /\ UNCHANGED <<call, late, events, tries, slam, history>>

PauseManager ==
  /\ step \in {"pauseNav", "pauseLoc"}
  /\ LET m == Wanted(step)[1] IN
     \/ /\ Confirmed
        /\ paused' = paused \cup {m}
        /\ step' = AfterRead(was \ paused')
        /\ history' = [history EXCEPT !.owed = @ \cup {m}]
        /\ UNCHANGED <<marker, phase, lock>>
     \/ /\ Failed /\ Undo
        /\ history' = [history EXCEPT !.owed = IF Active(m) THEN @ ELSE @ \cup {m}]
  /\ Quiet /\ UNCHANGED <<was, tries, slam>>

LaunchSlam ==
  /\ step = "launch"
  /\ \/ Enters("MAPPING", "none") /\ slam' = TRUE /\ paused' = {} /\ UNCHANGED <<marker, lock>>
     \/ Undo /\ UNCHANGED slam
  /\ Quiet /\ UNCHANGED <<call, late, events, was, tries, history>>

UndoPause ==
  /\ step \in {"undoLoc", "undoNav"}
  /\ LET m == Wanted(step)[1] IN
     /\ \/ Confirmed /\ Forgets({m})
        \/ Failed /\ UNCHANGED history
     /\ paused' = paused \ {m} /\ step' = AfterUndo(paused')
  /\ Quiet /\ UNCHANGED <<files, phase, was, tries, slam>>

Undone_KeepsFlags ==
  /\ step = "undone"
  /\ Enters("FAILED", "none") /\ Release("mapping")
  /\ history' = [history EXCEPT !.botched = @ \/ history.owed # {}]
  /\ Quiet /\ UNCHANGED <<call, late, events, marker, paused, was, tries, slam>>
Undone ==
  /\ step = "undone"
  /\ Enters("FAILED", "none") /\ Release("mapping") /\ was' = {}
  /\ history' = [history EXCEPT !.botched = @ \/ history.owed # {}]
  /\ Quiet /\ UNCHANGED <<call, late, events, marker, paused, tries, slam>>

StopCapture ==
  /\ Listens /\ phase = "MAPPING"
  /\ phase' = "REVIEW"
  /\ Quiet /\ UNCHANGED <<call, late, events, files, step, paused, was, tries, slam, history>>

\* save, up to the map files; the maps directory is made outside its try block.
Save ==
  /\ Listens /\ phase = "REVIEW"
  /\ Enters("SAVING", "write") \/ Enters("SAVING", "none")
  /\ Quiet /\ UNCHANGED <<call, late, events, files, paused, was, tries, slam, history>>

WriteOccupancyMap ==
  /\ step = "write"
  /\ \/ Enters("REVIEW", "none")
     \/ "restore" \in SaveEnds /\ Enters("SAVING", "stopSlam")
     \/ "activate" \in SaveEnds /\ Enters("SAVING", "activate")
  /\ Quiet /\ UNCHANGED <<call, late, events, files, paused, was, tries, slam, history>>

\* The root helper selects the map and has the Nav2 stack restarted.  The
\* agent gives it 18 s, which a restart may exceed.
ActivateSavedMap ==
  /\ step = "activate"
  /\ slam' = FALSE
  /\ \/ Enters("SAVING", "activated") /\ RestartStack
     \/ Enters("FAILED", "none") /\ RestartStack
     \/ Enters("FAILED", "none") /\ UNCHANGED <<nodes, gates, call, late, lock, history>>
  /\ UNCHANGED <<marker, paused, was, tries, agent, pose, events>>

\* With the new stack coming up, marker and interlock are given up.
Activated ==
  /\ step = "activated"
  /\ Enters("IDLE", "none") /\ marker' = FALSE /\ Release("mapping") /\ was' = {}
  /\ Quiet /\ UNCHANGED <<call, late, events, paused, tries, slam, history>>

Discard ==
  /\ Listens /\ phase \in {"MAPPING", "REVIEW", "FAILED"}
  /\ Enters("RESTORING", "stopSlam")
  /\ Quiet /\ UNCHANGED <<call, late, events, files, paused, was, tries, slam, history>>

\* _restore: any exception leaves marker, interlock and the remaining flags.
RestoreFails == Enters("FAILED", "none") /\ tries' = 0 /\ UNCHANGED was

AfterStop(ms) ==
  IF "localization" \in ms THEN "startLoc" ELSE IF "navigation" \in ms THEN "resetNav" ELSE "restored"

\* The handle is dropped first; a process that outlives SIGTERM by 5 s raises.
StopSlamProcess ==
  /\ step = "stopSlam"
  /\ slam' = FALSE
  /\ \/ step' = AfterStop(was) /\ UNCHANGED <<phase, was, tries>>
     \/ slam /\ RestoreFails
  /\ Quiet /\ UNCHANGED <<call, late, events, files, paused, history>>

\* What an _ensure_lifecycle_ step achieved, when it was not confirmed.
Reads(s, m) == IF s = "resetNav" THEN ~Active(m) ELSE Active(m)
Ensured(m) ==
  /\ tries' = 0 /\ UNCHANGED phase
  /\ IF step = "resetNav" THEN step' = "startNav" /\ UNCHANGED <<was, history>>
     ELSE was' = was \ {m} /\ step' = AfterStop(was') /\ Forgets({m})
TriesAgain_OnceMore == tries < Attempts /\ tries' = tries + 1 /\ UNCHANGED <<phase, step, was, history>>
TriesAgain == tries + 1 < Attempts /\ tries' = tries + 1 /\ UNCHANGED <<phase, step, was, history>>
GivesUp_Clears(m) ==
  /\ tries + 1 = Attempts /\ UNCHANGED history
  /\ Enters("FAILED", "none") /\ tries' = 0 /\ was' = was \ {m}
GivesUp(m) == tries + 1 = Attempts /\ RestoreFails /\ UNCHANGED history

EnsureLifecycle ==
  /\ step \in {"startLoc", "resetNav", "startNav"}
  /\ LET m == Wanted(step)[1] IN
     \/ Confirmed /\ Ensured(m)
     \/ Failed /\ Reads(step, m) /\ Ensured(m)
     \/ Failed /\ (TriesAgain \/ GivesUp(m))
  /\ Quiet /\ UNCHANGED <<files, paused, slam>>

Restored ==
  /\ step = "restored"
  /\ Enters("IDLE", "none") /\ marker' = FALSE /\ Release("mapping")
  /\ Quiet /\ UNCHANGED <<call, late, events, paused, was, tries, slam, history>>

MappingWorks ==
  \/ MappingAsks \/ AcquireInterlock \/ InterlockTimeout \/ ReadActiveNodes \/ PauseManager
  \/ LaunchSlam \/ UndoPause \/ Undone \/ WriteOccupancyMap \/ ActivateSavedMap \/ Activated
  \/ StopSlamProcess \/ EnsureLifecycle \/ Restored

-----------------------------------------------------------------------------
(* Processes that end. *)

\* The agent goes: its memory, its lock and its SLAM child with it.
AgentEnds(sent) ==
  /\ agent /\ Occurs
  /\ agent' = FALSE
  /\ Enters("IDLE", "none") /\ paused' = {} /\ was' = {} /\ tries' = 0 /\ slam' = FALSE
  /\ pose' = FALSE /\ Release("mapping")
  /\ late' = late \cup Orphans({"mapping", "pose"}) \cup sent
  /\ call' = [call EXCEPT !["mapping"] = Idle, !["pose"] = Idle]
  /\ history' = [history EXCEPT !.owed = {}, !.botched = FALSE]
  /\ UNCHANGED <<nodes, marker, gates>>

AgentCrash == AgentEnds({})

\* destroy_node restores Nav2, but the executor that would deliver the answers
\* is shut down by then: only the first request goes out.
AgentStop ==
  /\ slam /\ step = "none"
  /\ AgentEnds(IF "localization" \in was THEN {<<"localization", "resume">>}
               ELSE IF "navigation" \in was THEN {<<"navigation", "reset">>} ELSE {})

\* clear_stale_marker
AgentRestart ==
  /\ ~agent
  /\ agent' = TRUE /\ marker' = FALSE
  /\ UNCHANGED <<nodes, call, late, lock, gates, mapping, pose, events, history>>

StackRestart ==
  /\ Occurs
  /\ RestartStack
  /\ UNCHANGED <<marker, mapping, agent, pose>>

-----------------------------------------------------------------------------
ReadyWorks ==
  \/ \E g \in {"starter", "watcher"} : ReadyCheck(g) \/ StateReceived(g)
  \/ ReadyExit \/ StartupComplete
PoseWorks == HandleLocalizationCommand \/ ProcessLocalizationCommand \/ LocalizationResumed
Operator == StartSession \/ StopCapture \/ Save \/ Discard
Faults == AgentCrash \/ AgentStop \/ AgentRestart \/ StackRestart

Next ==
  \/ \E c \in Caller : Execute(c)
  \/ Lose("gate")
  \/ \E r \in late : ExecuteLate(r)
  \/ ReadyWorks \/ GateCheck \/ GateWorks \/ PoseWorks
  \/ Operator \/ MappingWorks \/ Faults

Spec == Init /\ [][Next]_vars

\* The worker thread goes on: each of its waits has a timeout.
FairSpec == Spec /\ WF_vars(MappingWorks)

-----------------------------------------------------------------------------
(* Properties *)

TypeOK ==
  /\ state \in [Manager -> NodeState]
  /\ by \in [Manager -> Caller \cup {"nobody", "late"}]
  /\ call \in [Caller -> [req : Request \cup {None}, answer : Answer]]
  /\ late \subseteq Request
  /\ marker \in BOOLEAN /\ lock \in {"free", "mapping", "gate"}
  /\ ready \in [{"starter", "watcher"} -> ReadyState]
  /\ gate \in GateState /\ repaired \in BOOLEAN
  /\ phase \in Phase /\ step \in Step
  /\ paused \subseteq Manager /\ was \subseteq Manager
  /\ tries \in 0..(Attempts - 1) /\ slam \in BOOLEAN
  /\ agent \in BOOLEAN /\ pose \in BOOLEAN
  /\ history \in [owed : SUBSET Manager, botched : BOOLEAN, stray : BOOLEAN]

\* While SLAM captures a map, Nav2 does not navigate and AMCL does not publish
\* map -> odom as well: what is active was activated by a request that outlived
\* its caller, or by the readiness gate, which never takes the interlock.
SlamIsSoleAuthority ==
  phase \in {"MAPPING", "REVIEW"} =>
    \A m \in Manager : Active(m) => by[m] \in {"late", "starter"}

\* The mapping runtime and the activation gate never both wait for a lifecycle
\* manager, through every early return, failure, crash and restart.
OneTransition == ~(Waits("gate") /\ Waits("mapping"))

\* Nav2 that failed its runtime contract and was paused stays paused; only a
\* request that outlived its caller, and whoever saw Nav2 active after it, can
\* bring it back.
BrokenContractStaysPaused ==
  gate = "paused" /\ Active("navigation") => history.stray

\* A discard that reports Nav2 restored has activated what the session paused,
\* unless a start failed, or began from FAILED, while something was paused.
DiscardRestores ==
  [][phase = "RESTORING" /\ phase' = "IDLE" /\ agent' =>
       history.owed = {} \/ history.botched]_vars

\* A mapping command ends, whatever the lifecycle managers do.
OperationsEnd == step # "none" ~> step = "none"
=============================================================================
