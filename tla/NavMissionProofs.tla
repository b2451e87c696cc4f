-------------------------- MODULE NavMissionProofs --------------------------
(***************************************************************************)
(* What the mission executor promises to the server: one result for a      *)
(* command, one mission at a time, and a confirmed cancellation that is    *)
(* final, for every set of commands and tasks and any number of recoveries.*)
(*                                                                         *)
(* An operator's operation and the drive-stall watch break the first       *)
(* (they queue a copy of a command whose goal still runs), a stop the      *)
(* other two (the goal that escapes it); the assumptions say so.           *)
(*                                                                         *)
(*   Once    one carrier of commands for a task: an object that is not     *)
(*           closed, or the recovery of one; it has not been reported      *)
(*   Turn    the executor takes a command only when none is active         *)
(*   Known   only a cancellation that was asked for is confirmed           *)
(***************************************************************************)
EXTENDS NavCommandProofs

\* No operations and no drive stalls; no stops either.
Calm == MaxOperations = 0 /\ ~StallGuard
Undisturbed == Calm /\ MaxStops = 0

Alive(o) == at[o] \notin {"absent", "closed"}
Recovers(o) == recovery = <<o, "maneuver">>

QueueOnce ==
  /\ \A i \in 1..Len(command_queue) : at[command_queue[i]] = "queued"
  /\ \A i, j \in 1..Len(command_queue) : command_queue[i] = command_queue[j] => i = j
Once ==
  /\ \A o, p \in Object : TaskIs(o) = TaskIs(p) =>
       /\ Alive(o) /\ Alive(p) => o = p
       /\ ~(Alive(o) /\ Recovers(p))
  /\ \A o \in Object : Alive(o) \/ Recovers(o) => reports[Id(o)] = 0
  /\ \A c \in Command : reports[c] <= 1 /\ (c \notin processed_ids => reports[c] = 0)
JobsIdle == operations = 0 /\ \A w \in Worker : job[w].phase = "idle"

-----------------------------------------------------------------------------
(* What happens where nobody interferes. *)

Works ==
  \/ \E c \in Command : QueueNavigationCommand(c)
  \/ \E t \in Task : QueueNavigationCancel(t)
  \/ Put \/ Stops \/ Executor \/ RecoveryThread \/ Nav2

LEMMA Quiet ==
  ASSUME Calm, IInv, JobsIdle, [Next]_vars
  PROVE  JobsIdle' /\ (Works \/ UNCHANGED vars)
  <1> FlagsType
      BY Parts
  <1> USE DEF Calm, JobsIdle, Worker
  <1>1. ~HandleRobotOperation
      BY DEF HandleRobotOperation
  <1>2. ~DriveStall
      BY DEF DriveStall
  <1>3. ~Workers
      BY DEF Workers, CancelForOperation, CancelWaitOver, OperationResumes, OperationDone,
             StallHandsOver, StallGivesUp
  <1>4. Works \/ UNCHANGED vars
      BY <1>1, <1>2, <1>3 DEF Next, Server, Works
  <1>5. UNCHANGED <<job, operations>>
    <2> USE DEF operating
    <2>1. CASE \/ \E c \in Command : QueueNavigationCommand(c)
               \/ \E t \in Task : QueueNavigationCancel(t)
               \/ Put
        BY <2>1 DEF QueueNavigationCommand, QueueNavigationCancel, Put
    <2>2. CASE Stops
        BY <2>2 DEF Stops, EmergencyStop, EmergencyStopDrop, EmergencyStopReset,
                    LatchPhysicalEstop, ReleasePhysicalEstop
    <2>3. CASE Executor
        BY <2>3 DEF Executor, ProcessCancelQueue, DiscardQueue, TakeCommand, SkipCancelled, Activate,
                    StartCommand, NavigationProfileCallback, NavigationSmootherProfileCallback,
                    GoalResponseCallback, NavigationResultCallback, CancelResponseCallback
    <2>4. CASE RecoveryThread
        BY <2>4 DEF RecoveryThread, RecoveryFails, RecoveryRetries, RecoveryDone
    <2>5. CASE Nav2
        BY <2>5 DEF Nav2, Nav2Answers, Nav2Ends, Nav2AnswersCancel
    <2>6. CASE UNCHANGED vars
        BY <2>6 DEF vars
    <2> QED
        BY <1>4, <2>1, <2>2, <2>3, <2>4, <2>5, <2>6 DEF Works
  <1> QED
      BY <1>4, <1>5

-----------------------------------------------------------------------------
(* Carriers. *)

AliveNext(o) == at'[o] \notin {"absent", "closed"}
RecoversNext(o) == recovery' = <<o, "maneuver">>
NoNewRecovery == \A p \in Object : RecoversNext(p) => Recovers(p)

\* How a step changes what carries the commands.
Fewer ==
  /\ UNCHANGED <<reports, processed_ids>> /\ NoNewRecovery
  /\ \A p \in Object : AliveNext(p) => Alive(p)
Admission(c) ==
  /\ Offered(c) /\ c \notin processed_ids /\ processed_ids' = processed_ids \cup {c}
  /\ UNCHANGED reports /\ NoNewRecovery
  /\ \A p \in Object : AliveNext(p) => Alive(p) \/ p = <<c, 1>>
End(o) ==
  /\ Alive(o) /\ UNCHANGED processed_ids /\ NoNewRecovery
  /\ \A p \in Object : AliveNext(p) => Alive(p) /\ p # o
  /\ UNCHANGED reports \/ Report(Id(o))
Recovering(o) ==
  /\ Alive(o) /\ UNCHANGED <<reports, processed_ids>>
  /\ \A p \in Object : AliveNext(p) => Alive(p) /\ p # o
  /\ \A p \in Object : RecoversNext(p) => p = o
Failing(o) ==
  /\ Recovers(o) /\ UNCHANGED processed_ids /\ Report(Id(o))
  /\ \A p \in Object : ~RecoversNext(p) /\ (AliveNext(p) => Alive(p))
Retrying(o) ==
  /\ Recovers(o) /\ UNCHANGED <<reports, processed_ids>>
  /\ \A p \in Object : ~RecoversNext(p)
  /\ \E copy \in Object : /\ Id(copy) = Id(o)
                          /\ \A p \in Object : AliveNext(p) => Alive(p) \/ p = copy
CarrierStep ==
  \/ Fewer
  \/ \E c \in Command : Admission(c)
  \/ \E o \in Object : End(o) \/ Recovering(o) \/ Failing(o) \/ Retrying(o)

LEMMA SameFlow ==
  ASSUME UNCHANGED <<at, recovery, reports, processed_ids>>
  PROVE  Fewer
  BY DEF Fewer, NoNewRecovery, Alive, AliveNext, Recovers, RecoversNext

\* An object that ends, or goes on.
LEMMA OneEnds ==
  ASSUME PlaceType, NEW o \in Object, Alive(o), at' = [at EXCEPT ![o] = "closed"],
         UNCHANGED processed_ids
  PROVE  /\ UNCHANGED recovery /\ (UNCHANGED reports \/ Report(Id(o))) => End(o)
         /\ UNCHANGED reports /\ recovery' = <<o, "maneuver">> => Recovering(o)
  <1>1. \A p \in Object : AliveNext(p) => Alive(p) /\ p # o
      BY DEF AliveNext, Alive, PlaceType
  <1>2. UNCHANGED recovery => NoNewRecovery
      BY DEF NoNewRecovery, Recovers, RecoversNext
  <1>3. recovery' = <<o, "maneuver">> => \A p \in Object : RecoversNext(p) => p = o
      BY DEF RecoversNext
  <1> QED
      BY <1>1, <1>2, <1>3 DEF End, Recovering

LEMMA OneGoesOn ==
  ASSUME PlaceType, NEW o \in Object, Alive(o), NEW place, at' = [at EXCEPT ![o] = place],
         UNCHANGED <<processed_ids, recovery, reports>>
  PROVE  Fewer
  <1>1. \A p \in Object : AliveNext(p) => Alive(p)
      BY DEF AliveNext, Alive, PlaceType
  <1> QED
      BY <1>1 DEF Fewer, NoNewRecovery, Recovers, RecoversNext

LEMMA Carriers ==
  ASSUME IInv, QueueOnce, Works
  PROVE  CarrierStep
  <1> QueueType /\ PlaceType /\ WorkerType /\ NetHolds /\ RosHolds
      BY Parts
  <1>1. ASSUME NEW c \in Command, QueueNavigationCommand(c) PROVE Admission(c)
    <2>1. /\ at' = [at EXCEPT ![<<c, 1>>] = "admitted"] /\ UNCHANGED <<reports, recovery>>
          /\ Offered(c) /\ c \notin processed_ids /\ processed_ids' = processed_ids \cup {c}
        BY <1>1 DEF QueueNavigationCommand, Admits, recovering
    <2>2. \A p \in Object : AliveNext(p) => Alive(p) \/ p = <<c, 1>>
        BY <2>1 DEF AliveNext, Alive, PlaceType
    <2> QED
        BY <2>1, <2>2 DEF Admission, NoNewRecovery, Recovers, RecoversNext
  <1>2. ASSUME NEW t \in Task, QueueNavigationCancel(t) PROVE Fewer
      BY <1>2, SameFlow DEF QueueNavigationCancel, queues, objects, recovering
  <1>3. CASE Put
    <2>1. net \in Object /\ Alive(net)
        BY <1>3 DEF Put, QueueType, NetHolds, Alive
    <2>2. at' = [at EXCEPT ![net] = "queued"] /\ UNCHANGED <<processed_ids, recovery, reports>>
        BY <1>3 DEF Put, recovering
    <2> QED
        BY <2>1, <2>2, OneGoesOn DEF CarrierStep
  <1>4. CASE Stops \/ DiscardQueue
    <2>1. CASE EmergencyStop \/ LatchPhysicalEstop \/ DiscardQueue
      <3>1. /\ at' = [o \in Object |-> IF at[o] = "queued" THEN "closed" ELSE at[o]]
            /\ UNCHANGED <<reports, recovery, processed_ids>>
          BY <2>1 DEF EmergencyStop, LatchPhysicalEstop, DiscardQueue, ClearCommandQueue, recovering
      <3>2. \A p \in Object : AliveNext(p) => Alive(p)
          BY <3>1 DEF AliveNext, Alive
      <3> QED
          BY <3>1, <3>2 DEF CarrierStep, Fewer, NoNewRecovery, Recovers, RecoversNext
    <2>2. CASE EmergencyStopDrop \/ EmergencyStopReset \/ ReleasePhysicalEstop
        BY <2>2, SameFlow DEF EmergencyStopDrop, EmergencyStopReset, ReleasePhysicalEstop,
                              queues, objects, recovering, CarrierStep
    <2> QED
        BY <1>4, <2>1, <2>2 DEF Stops
  <1>5. CASE TakeCommand
    <2>1. Head(command_queue) \in Object /\ Alive(Head(command_queue))
      <3>1. command_queue # <<>> /\ command_queue \in Seq(Object)
          BY <1>5 DEF TakeCommand, QueueType
      <3>2. Head(command_queue) = command_queue[1] /\ 1 \in 1..Len(command_queue)
            /\ Head(command_queue) \in Object
          BY <3>1
      <3> QED
          BY <3>2 DEF QueueOnce, Alive
    <2>2. /\ at' = [at EXCEPT ![Head(command_queue)] = "taken"]
          /\ UNCHANGED <<processed_ids, recovery, reports>>
        BY <1>5 DEF TakeCommand, recovering
    <2> QED
        BY <2>1, <2>2, OneGoesOn DEF CarrierStep
  <1>6. CASE SkipCancelled \/ Activate \/ StartCommand
    <2>1. ros \in Object /\ Alive(ros)
        BY <1>6 DEF SkipCancelled, Activate, StartCommand, QueueType, Alive
    <2>2. CASE SkipCancelled
        BY <2>1, <2>2, OneEnds DEF SkipCancelled, recovering, CarrierStep
    <2>3. CASE Activate
        BY <2>1, <2>3, OneGoesOn DEF Activate, recovering, CarrierStep
    <2>4. CASE StartCommand
        BY <2>1, <2>4, OneGoesOn, OneEnds DEF StartCommand, Abort, queues, recovering, CarrierStep
    <2> QED
        BY <1>6, <2>2, <2>3, <2>4
  <1>7. ASSUME NEW o \in Object, NavigationProfileCallback(o) \/ NavigationSmootherProfileCallback(o)
        PROVE  CarrierStep
    <2>1. Alive(o)
        BY <1>7 DEF NavigationProfileCallback, NavigationSmootherProfileCallback, Alive
    <2> QED
        BY <1>7, <2>1, OneGoesOn, OneEnds
        DEF NavigationProfileCallback, NavigationSmootherProfileCallback, Abort, queues, recovering, CarrierStep
  <1>8. ASSUME NEW o \in Object, GoalResponseCallback(o) PROVE CarrierStep
    <2>1. Alive(o)
        BY <1>8 DEF GoalResponseCallback, Alive
    <2>2. UNCHANGED <<processed_ids, recovery>>
        BY <1>8 DEF GoalResponseCallback, queues, recovering
    <2>3. CASE GoalRefused(o)
      <3>1. at' = [at EXCEPT ![o] = "closed"] /\ (UNCHANGED reports \/ Report(Id(o)))
          BY <2>3 DEF GoalRefused
      <3> QED
          BY <2>1, <2>2, <3>1, OneEnds DEF CarrierStep
    <2>4. CASE GoalAccepted(o)
        BY <2>1, <2>2, <2>4, OneGoesOn DEF GoalAccepted, CarrierStep
    <2> QED
        BY <1>8, <2>3, <2>4 DEF GoalResponseCallback
  <1>9. ASSUME NEW o \in Object, NavigationResultCallback(o) PROVE CarrierStep
    <2>1. /\ Alive(o) /\ UNCHANGED processed_ids /\ at' = [at EXCEPT ![o] = "closed"]
          /\ ResultSwallowed(o) \/ ResultOfCancel(o) \/ ResultRecovers(o) \/ ResultReported(o)
        BY <1>9 DEF NavigationResultCallback, Alive, queues
    <2>2. CASE ResultSwallowed(o) \/ ResultOfCancel(o) \/ ResultReported(o)
      <3>1. UNCHANGED recovery /\ (UNCHANGED reports \/ Report(Id(o)))
          BY <2>2 DEF ResultSwallowed, ResultOfCancel, ResultReported, recovering
      <3> QED
          BY <2>1, <3>1, OneEnds DEF CarrierStep
    <2>3. CASE ResultRecovers(o)
        BY <2>1, <2>3, OneEnds DEF ResultRecovers, StartRecovery, CarrierStep
    <2> QED
        BY <2>1, <2>2, <2>3
  <1>10. ASSUME NEW t \in Task, ProcessCancelQueue(t) PROVE Fewer
      BY <1>10, SameFlow DEF ProcessCancelQueue, queues, objects, recovering, ConfirmInactive,
                             RefuseMismatch, AwaitNav2, Reply
  <1>11. ASSUME NEW d \in answer_due, CancelResponseCallback(d[1], d[2]) PROVE Fewer
      BY <1>11, SameFlow DEF CancelResponseCallback, queues, objects, recovering
  <1>12. CASE RecoveryFails \/ RecoveryRetries
    <2> DEFINE o == recovery[1]
    <2>1. /\ o \in Object /\ recovery = <<o, "maneuver">> /\ recovery' = <<o, "done">>
          /\ UNCHANGED processed_ids
        BY <1>12, NavAssumption DEF RecoveryFails, RecoveryRetries, WorkerType, queues, Object
    <2> HIDE DEF o
    <2>2. Recovers(o) /\ \A p \in Object : ~RecoversNext(p)
        BY <2>1 DEF Recovers, RecoversNext
    <2>3. CASE RecoveryFails
      <3>1. Report(Id(o)) /\ UNCHANGED at
          BY <2>3 DEF RecoveryFails, objects, o
      <3> QED
          BY <2>1, <2>2, <3>1 DEF Failing, CarrierStep, Alive, AliveNext
    <2>4. CASE RecoveryRetries
      <3>1. UNCHANGED reports /\ \E copy \in Fresh(Id(o)) : at' = [at EXCEPT ![copy] = "queued"]
          BY <2>4 DEF RecoveryRetries, Requeue, o
      <3>2. PICK copy \in Object : Id(copy) = Id(o) /\ at' = [at EXCEPT ![copy] = "queued"]
          BY <3>1 DEF Fresh
      <3>3. \A p \in Object : AliveNext(p) => Alive(p) \/ p = copy
          BY <3>2 DEF AliveNext, Alive, PlaceType
      <3> QED
          BY <2>1, <2>2, <3>1, <3>2, <3>3 DEF Retrying, CarrierStep
    <2> QED
        BY <1>12, <2>3, <2>4
  <1>13. CASE RecoveryDone
    <2>1. \A p \in Object : recovery' # <<p, "maneuver">>
        BY <1>13, NavAssumption DEF RecoveryDone, Object
    <2> QED
        BY <1>13, <2>1 DEF RecoveryDone, queues, objects, CarrierStep, Fewer, NoNewRecovery, RecoversNext,
                           Alive, AliveNext
  <1>14. CASE Nav2
      BY <1>14, SameFlow DEF Nav2, Nav2Answers, Nav2Ends, Nav2AnswersCancel, queues, objects, recovering,
                             CarrierStep
  <1> QED
      BY <1>1, <1>2, <1>3, <1>4, <1>5, <1>6, <1>7, <1>8, <1>9, <1>10, <1>11, <1>12, <1>13, <1>14
      DEF Works, Executor, RecoveryThread, CarrierStep

-----------------------------------------------------------------------------
(* The queue holds an object once, and only while it waits there. *)

QueueFlow ==
  \/ /\ UNCHANGED command_queue
     /\ \A o \in Object : at[o] = "queued" => at'[o] = "queued"
  \/ command_queue' = <<>>
  \/ TakeCommand
  \/ \E o \in Object : /\ at[o] # "queued" /\ at' = [at EXCEPT ![o] = "queued"]
                       /\ command_queue' = Append(command_queue, o)

LEMMA QueueFlows ==
  ASSUME IInv, Works \/ UNCHANGED vars
  PROVE  QueueFlow
  <1> QueueType /\ PlaceType /\ NetHolds /\ RosHolds
      BY Parts
  <1> USE DEF queues, objects
  <1>1. ASSUME NEW o \in Object, at[o] # "queued", NEW place, at' = [at EXCEPT ![o] = place],
               UNCHANGED command_queue
        PROVE  QueueFlow
      BY <1>1 DEF QueueFlow, PlaceType
  <1>2. CASE UNCHANGED <<command_queue, at>>
      BY <1>2 DEF QueueFlow
  <1>3. ASSUME NEW c \in Command, QueueNavigationCommand(c) PROVE QueueFlow
    <2>1. \A p \in Object : at[p] = "queued" => at'[p] = "queued"
      <3>1. <<c, 1>> \in Object /\ at[<<c, 1>>] # "queued"
          BY <1>3, Parts, NavAssumption DEF QueueNavigationCommand, Admits, Exists, Object, Id
      <3> QED
          BY <1>3, <3>1 DEF QueueNavigationCommand, PlaceType
    <2> QED
        BY <1>3, <2>1 DEF QueueNavigationCommand, QueueFlow
  <1>4. CASE Put
      BY <1>4 DEF Put, QueueFlow, QueueType, NetHolds
  <1>5. CASE EmergencyStop \/ LatchPhysicalEstop \/ DiscardQueue
      BY <1>5 DEF EmergencyStop, LatchPhysicalEstop, DiscardQueue, ClearCommandQueue, QueueFlow
  <1>6. CASE EmergencyStopDrop \/ EmergencyStopReset \/ ReleasePhysicalEstop
             \/ RecoveryFails \/ RecoveryDone
      BY <1>2, <1>6 DEF EmergencyStopDrop, EmergencyStopReset, ReleasePhysicalEstop, RecoveryFails,
                        RecoveryDone
  <1>7. CASE TakeCommand
      BY <1>7 DEF QueueFlow
  <1>8. CASE SkipCancelled \/ Activate \/ StartCommand
    <2>1. ros \in Object /\ at[ros] # "queued" /\ UNCHANGED command_queue
        BY <1>8 DEF SkipCancelled, Activate, StartCommand, QueueType
    <2>2. \E place \in Place : at' = [at EXCEPT ![ros] = place]
        BY <1>8 DEF SkipCancelled, Activate, StartCommand, Abort, Place
    <2> QED
        BY <1>1, <2>1, <2>2
  <1>9. ASSUME NEW o \in Object,
               \/ NavigationProfileCallback(o) \/ NavigationSmootherProfileCallback(o)
               \/ GoalResponseCallback(o) \/ NavigationResultCallback(o)
        PROVE  QueueFlow
    <2>1. at[o] # "queued" /\ UNCHANGED command_queue
        BY <1>9 DEF NavigationProfileCallback, NavigationSmootherProfileCallback, GoalResponseCallback,
                    NavigationResultCallback
    <2>2. \E place \in Place : at' = [at EXCEPT ![o] = place]
        BY <1>9 DEF NavigationProfileCallback, NavigationSmootherProfileCallback, GoalResponseCallback,
                    NavigationResultCallback, GoalRefused, GoalAccepted, Abort, Place
    <2> QED
        BY <1>1, <2>1, <2>2
  <1>10. ASSUME NEW t \in Task, ProcessCancelQueue(t) \/ QueueNavigationCancel(t) PROVE QueueFlow
      BY <1>2, <1>10 DEF ProcessCancelQueue, QueueNavigationCancel
  <1>11. ASSUME NEW d \in answer_due, CancelResponseCallback(d[1], d[2]) PROVE QueueFlow
      BY <1>2, <1>11 DEF CancelResponseCallback
  <1>12. CASE RecoveryRetries
    <2>1. PICK copy \in Fresh(Id(recovery[1])) : /\ command_queue' = Append(command_queue, copy)
                                                 /\ at' = [at EXCEPT ![copy] = "queued"]
        BY <1>12 DEF RecoveryRetries, Requeue
    <2> QED
        BY <2>1 DEF QueueFlow, Fresh
  <1>13. CASE Nav2
      BY <1>2, <1>13 DEF Nav2, Nav2Answers, Nav2Ends, Nav2AnswersCancel
  <1>14. CASE UNCHANGED vars
      BY <1>2, <1>14 DEF vars
  <1> QED
      BY <1>3, <1>4, <1>5, <1>6, <1>7, <1>8, <1>9, <1>10, <1>11, <1>12, <1>13, <1>14
      DEF Works, Stops, Executor, RecoveryThread

LEMMA QueueOnceStep ==
  ASSUME IInv, QueueOnce, Works \/ UNCHANGED vars
  PROVE  QueueOnce'
  <1>1. command_queue \in Seq(Object) /\ at \in [Object -> Place] /\ QueueFlow
      BY Parts, QueueFlows DEF QueueType, PlaceType
  <1>2. \A i \in 1..Len(command_queue) : command_queue[i] \in Object
      BY <1>1
  <1>3. CASE /\ UNCHANGED command_queue
             /\ \A o \in Object : at[o] = "queued" => at'[o] = "queued"
      BY <1>2, <1>3 DEF QueueOnce
  <1>4. CASE command_queue' = <<>>
      BY <1>4 DEF QueueOnce
  <1>5. CASE TakeCommand
    <2>1. /\ command_queue # <<>> /\ command_queue' = Tail(command_queue)
          /\ at' = [at EXCEPT ![Head(command_queue)] = "taken"]
        BY <1>5 DEF TakeCommand
    <2>2. /\ Head(command_queue) = command_queue[1] /\ 1 \in 1..Len(command_queue)
          /\ \A i \in 1..Len(command_queue') : /\ i + 1 \in 1..Len(command_queue)
                                               /\ command_queue'[i] = command_queue[i + 1]
        BY <1>1, <2>1
    <2>3. ASSUME NEW i \in 1..Len(command_queue') PROVE at'[command_queue'[i]] = "queued"
      <3>1. i + 1 \in 1..Len(command_queue) /\ command_queue'[i] = command_queue[i + 1] /\ i + 1 # 1
          BY <2>2
      <3>2. command_queue[i + 1] # command_queue[1] /\ at[command_queue[i + 1]] = "queued"
          BY <2>2, <3>1 DEF QueueOnce
      <3> QED
          BY <1>1, <1>2, <2>1, <2>2, <3>1, <3>2
    <2>4. \A i, j \in 1..Len(command_queue') : command_queue'[i] = command_queue'[j] => i + 1 = j + 1
        BY <2>2 DEF QueueOnce
    <2> QED
        BY <2>3, <2>4 DEF QueueOnce
  <1>6. CASE \E o \in Object : /\ at[o] # "queued" /\ at' = [at EXCEPT ![o] = "queued"]
                               /\ command_queue' = Append(command_queue, o)
    <2>1. PICK o \in Object : /\ at[o] # "queued" /\ at' = [at EXCEPT ![o] = "queued"]
                              /\ command_queue' = Append(command_queue, o)
        BY <1>6
    <2>2. /\ Len(command_queue') = Len(command_queue) + 1 /\ Len(command_queue) \in Nat
          /\ command_queue'[Len(command_queue) + 1] = o
          /\ \A i \in 1..Len(command_queue) : command_queue'[i] = command_queue[i]
        BY <1>1, <2>1
    <2>3. \A i \in 1..Len(command_queue) : command_queue[i] # o /\ at'[command_queue[i]] = "queued"
        BY <1>1, <1>2, <2>1 DEF QueueOnce
    <2>4. \A i \in 1..Len(command_queue') : i \in 1..Len(command_queue) \/ i = Len(command_queue) + 1
        BY <2>2
    <2>5. at'[o] = "queued"
        BY <1>1, <2>1
    <2>6. \A i, j \in 1..Len(command_queue') : command_queue'[i] = command_queue'[j] => i = j
        BY <2>2, <2>3, <2>4 DEF QueueOnce
    <2> QED
        BY <2>2, <2>3, <2>4, <2>5, <2>6 DEF QueueOnce
  <1> QED
      BY <1>1, <1>3, <1>4, <1>5, <1>6 DEF QueueFlow

-----------------------------------------------------------------------------
(* One carrier for a task. *)

LEMMA OnceStep ==
  ASSUME IInv, QueueOnce, Once, Works \/ UNCHANGED vars
  PROVE  Once'
  <1>1. /\ reports \in [Command -> Nat]
        /\ \A o \in Object : Id(o) \in Command /\ TaskIs(o) = TaskOf[Id(o)]
        /\ \A o \in Object : Alive(o) \/ Recovers(o) => Id(o) \in processed_ids
    <2>1. \A o \in Object : Recovers(o) => at[o] # "absent"
        BY Parts, NavAssumption DEF Recovers, RecoveryHolds, Object
    <2>2. \A o \in Object : at[o] # "absent" => Id(o) \in processed_ids
        BY Parts DEF Exists
    <2>3. \A o \in Object : Id(o) \in Command /\ TaskIs(o) = TaskOf[Id(o)]
        BY DEF Id, TaskIs, Object
    <2> QED
        BY <2>1, <2>2, <2>3, Parts DEF ServerType, Alive
  <1> DEFINE
       Sole == \A o, p \in Object : TaskIs(o) = TaskIs(p) =>
                 /\ Alive(o) /\ Alive(p) => o = p
                 /\ ~(Alive(o) /\ Recovers(p))
       Open == \A o \in Object : Alive(o) \/ Recovers(o) => reports[Id(o)] = 0
       SoleNext == \A o, p \in Object : TaskIs(o) = TaskIs(p) =>
                     /\ AliveNext(o) /\ AliveNext(p) => o = p
                     /\ ~(AliveNext(o) /\ RecoversNext(p))
       OpenNext == \A o \in Object : AliveNext(o) \/ RecoversNext(o) => reports'[Id(o)] = 0
       Told == \A c \in Command : reports[c] <= 1 /\ (c \notin processed_ids => reports[c] = 0)
  <1>2. Sole /\ Open /\ Told
      BY DEF Once
  <1>3. SoleNext /\ OpenNext /\ Told' => Once'
      BY DEF Once, AliveNext, Alive, RecoversNext, Recovers, TaskIs, Id
  <1>4. CASE Fewer
    <2>1. SoleNext /\ OpenNext
        BY <1>2, <1>4 DEF Fewer, NoNewRecovery
    <2> QED
        BY <1>2, <1>3, <1>4, <2>1 DEF Fewer
  <1>5. ASSUME NEW c \in Command, Admission(c) PROVE Once'
    <2>1. \A p \in Object : (Alive(p) \/ Recovers(p)) /\ TaskIs(p) = TaskOf[c] => FALSE
      <3>1. SUFFICES ASSUME NEW p \in Object, Alive(p) \/ Recovers(p), TaskIs(p) = TaskOf[c]
                     PROVE  FALSE
          OBVIOUS
      <3>2. Id(p) \in processed_ids /\ Id(p) # c /\ TaskOf[Id(p)] = TaskOf[c] /\ reports[Id(p)] = 0
          BY <1>1, <1>2, <1>5, <3>1 DEF Admission
      <3> QED
          BY <1>5, <3>2 DEF Admission, Offered
    <2>2. <<c, 1>> \in Object /\ Id(<<c, 1>>) = c /\ TaskIs(<<c, 1>>) = TaskOf[c] /\ reports[c] = 0
        BY <1>2, <1>5, NavAssumption DEF Object, Id, TaskIs, Admission
    <2>3. /\ \A p \in Object : AliveNext(p) => Alive(p) \/ p = <<c, 1>>
          /\ \A p \in Object : RecoversNext(p) => Recovers(p)
          /\ reports' = reports /\ processed_ids' = processed_ids \cup {c}
        BY <1>5 DEF Admission, NoNewRecovery
    <2>4. SoleNext
        BY <1>2, <2>1, <2>2, <2>3
    <2>5. OpenNext
        BY <1>2, <2>2, <2>3
    <2>6. Told'
        BY <1>2, <2>3
    <2> QED
        BY <1>3, <2>4, <2>5, <2>6
  <1>6. ASSUME NEW o \in Object, End(o) PROVE Once'
    <2>1. /\ Alive(o) /\ Id(o) \in processed_ids /\ reports[Id(o)] = 0
          /\ processed_ids' = processed_ids
          /\ \A p \in Object : AliveNext(p) => Alive(p) /\ p # o
          /\ \A p \in Object : RecoversNext(p) => Recovers(p)
        BY <1>1, <1>2, <1>6 DEF End, NoNewRecovery
    <2>2. /\ \A c \in Command : c # Id(o) => reports'[c] = reports[c]
          /\ reports'[Id(o)] \in {0, 1}
        BY <1>1, <1>6, <2>1 DEF End, Report
    <2>3. SoleNext
        BY <1>2, <2>1
    <2>4. \A p \in Object : AliveNext(p) \/ RecoversNext(p) => Id(p) # Id(o)
        BY <1>1, <1>2, <2>1
    <2>5. OpenNext
        BY <1>1, <1>2, <2>1, <2>2, <2>4
    <2>6. Told'
        BY <1>1, <1>2, <2>1, <2>2
    <2> QED
        BY <1>3, <2>3, <2>5, <2>6
  <1>7. ASSUME NEW o \in Object, Recovering(o) PROVE Once'
    <2>1. /\ Alive(o) /\ reports' = reports /\ processed_ids' = processed_ids
          /\ \A p \in Object : AliveNext(p) => Alive(p) /\ p # o
          /\ \A p \in Object : RecoversNext(p) => p = o
        BY <1>7 DEF Recovering
    <2>2. SoleNext /\ OpenNext
        BY <1>2, <2>1
    <2> QED
        BY <1>2, <1>3, <2>1, <2>2
  <1>8. ASSUME NEW o \in Object, Failing(o) PROVE Once'
    <2>1. /\ Recovers(o) /\ Id(o) \in processed_ids /\ reports[Id(o)] = 0
          /\ processed_ids' = processed_ids
          /\ \A p \in Object : ~RecoversNext(p) /\ (AliveNext(p) => Alive(p))
        BY <1>1, <1>2, <1>8 DEF Failing
    <2>2. /\ \A c \in Command : c # Id(o) => reports'[c] = reports[c]
          /\ reports'[Id(o)] = 1
        BY <1>1, <1>8, <2>1 DEF Failing, Report
    <2>3. SoleNext
        BY <1>2, <2>1
    <2>4. \A p \in Object : AliveNext(p) => Id(p) # Id(o)
        BY <1>1, <1>2, <2>1
    <2>5. OpenNext
        BY <1>1, <1>2, <2>1, <2>2, <2>4
    <2>6. Told'
        BY <1>1, <1>2, <2>1, <2>2
    <2> QED
        BY <1>3, <2>3, <2>5, <2>6
  <1>9. ASSUME NEW o \in Object, Retrying(o) PROVE Once'
    <2>1. PICK copy \in Object : /\ Id(copy) = Id(o)
                                 /\ \A p \in Object : AliveNext(p) => Alive(p) \/ p = copy
        BY <1>9 DEF Retrying
    <2>2. /\ Recovers(o) /\ reports' = reports /\ processed_ids' = processed_ids
          /\ \A p \in Object : ~RecoversNext(p)
        BY <1>9 DEF Retrying
    <2>3. TaskIs(copy) = TaskIs(o)
        BY <1>1, <2>1
    <2>4. SoleNext
        BY <1>2, <2>1, <2>2, <2>3
    <2>5. OpenNext
        BY <1>2, <2>1, <2>2
    <2> QED
        BY <1>2, <1>3, <2>2, <2>4, <2>5
  <1>10. CASE UNCHANGED vars
    <2>1. UNCHANGED <<at, recovery, reports, processed_ids>>
        BY <1>10 DEF vars, queues, objects, recovering
    <2> QED
        BY <1>4, <2>1, SameFlow
  <1> QED
      BY <1>4, <1>5, <1>6, <1>7, <1>8, <1>9, <1>10, Carriers DEF CarrierStep

\* The inductive invariant where nobody interferes.
Carried == IInv /\ JobsIdle /\ QueueOnce /\ Once

LEMMA InitCarried == Init => Carried
  <1> SUFFICES ASSUME Init PROVE Carried
      OBVIOUS
  <1>1. \A o \in Object : ~Alive(o) /\ ~Recovers(o)
      BY NavAssumption DEF Init, Alive, Recovers, Object
  <1>2. \A c \in Command : reports[c] = 0
      BY DEF Init
  <1>3. QueueOnce
      BY DEF Init, QueueOnce
  <1>4. JobsIdle
      BY DEF Init, JobsIdle, Idle
  <1>5. Once
      BY <1>1, <1>2 DEF Once, Object, Id
  <1> QED
      BY <1>3, <1>4, <1>5, InitIInv DEF Carried

LEMMA NextCarried == ASSUME Calm, Carried, [Next]_vars PROVE Carried' /\ (Works \/ UNCHANGED vars)
  BY Quiet, NextIInv, QueueOnceStep, OnceStep DEF Carried

\* Without operations and drive stalls the server hears at most one result for
\* a command, however many stops, recoveries and cancellations there are
\* (web_bridge_node.py:5993-6178 and 4321-4507): the result callback hands a
\* command it does not report to exactly one recovery, which reports it or puts
\* one copy in its place.
THEOREM OneResult == ASSUME Calm PROVE Spec => []OneReport
  <1>1. Carried /\ [Next]_vars => Carried'
      BY NextCarried
  <1>2. Carried => OneReport
      BY DEF Carried, Once, OneReport
  <1> QED
      BY InitCarried, <1>1, <1>2, PTL DEF Spec

-----------------------------------------------------------------------------
(* Without stops: one mission at a time. *)

Unstopped == stops = 0 /\ ~motion_stop_latched /\ ~stopping
Turn ==
  /\ ros # None /\ at[ros] = "taken" => active_command = None
  /\ \A o \in Object : goal[o] # "none" => at[o] \in {"submitted", "running", "closed"}
Known ==
  /\ pending_cancel_requests \subseteq requested /\ cancel_queue \subseteq requested
  /\ \A t \in Task : <<t, "confirmed">> \in replies => t \in requested

\* The invariant of a robot that nobody stops.
Alone == Carried /\ Unstopped /\ Turn /\ OneMission /\ Known /\ ConfirmedCancelIsFinal

\* What is left of Next.
Runs ==
  \/ \E c \in Command : QueueNavigationCommand(c)
  \/ \E t \in Task : QueueNavigationCancel(t) \/ ProcessCancelQueue(t)
  \/ Put \/ TakeCommand \/ SkipCancelled \/ Activate \/ StartCommand
  \/ \E o \in Object : \/ NavigationProfileCallback(o) \/ NavigationSmootherProfileCallback(o)
                       \/ GoalResponseCallback(o) \/ NavigationResultCallback(o)
                       \/ Nav2Answers(o) \/ Nav2Ends(o) \/ Nav2AnswersCancel(o)
  \/ \E d \in answer_due : CancelResponseCallback(d[1], d[2])
  \/ RecoveryThread
  \/ UNCHANGED vars

LEMMA Running ==
  ASSUME Undisturbed, Unstopped, Works \/ UNCHANGED vars
  PROVE  Runs /\ Unstopped'
  <1> USE DEF Unstopped, Undisturbed, motion_stop_latched
  <1>1. ~Stops
    <2>1. ~(stops < MaxStops)
        OBVIOUS
    <2> QED
        BY <2>1 DEF Stops, EmergencyStop, EmergencyStopDrop, EmergencyStopReset, LatchPhysicalEstop,
                    ReleasePhysicalEstop
  <1>2. ~DiscardQueue
      BY DEF DiscardQueue
  <1>3. Runs
      BY <1>1, <1>2 DEF Works, Executor, Nav2, Runs
  <1>4. UNCHANGED <<stops, emergency_stop_latched, physical_estop_latched, stopping>>
    <2> USE DEF latches
    <2>1. CASE \/ \E c \in Command : QueueNavigationCommand(c)
               \/ \E t \in Task : QueueNavigationCancel(t) \/ ProcessCancelQueue(t)
               \/ Put \/ TakeCommand \/ SkipCancelled \/ Activate \/ StartCommand
        BY <2>1 DEF QueueNavigationCommand, QueueNavigationCancel, ProcessCancelQueue, Put, TakeCommand,
                    SkipCancelled, Activate, StartCommand
    <2>2. CASE \/ \E o \in Object : \/ NavigationProfileCallback(o) \/ NavigationSmootherProfileCallback(o)
                                    \/ GoalResponseCallback(o) \/ NavigationResultCallback(o)
                                    \/ Nav2Answers(o) \/ Nav2Ends(o) \/ Nav2AnswersCancel(o)
               \/ \E d \in answer_due : CancelResponseCallback(d[1], d[2])
               \/ RecoveryThread
        BY <2>2 DEF NavigationProfileCallback, NavigationSmootherProfileCallback, GoalResponseCallback,
                    NavigationResultCallback, Nav2Answers, Nav2Ends, Nav2AnswersCancel,
                    CancelResponseCallback, RecoveryThread, RecoveryFails, RecoveryRetries, RecoveryDone
    <2>3. CASE UNCHANGED vars
        BY <2>3 DEF vars
    <2> QED
        BY <1>3, <2>1, <2>2, <2>3 DEF Runs
  <1> QED
      BY <1>3, <1>4

Mission == OneMission /\ Turn

\* How an object moves without the mission changing.
LEMMA Aside ==
  ASSUME PlaceType, Mission, NEW o \in Object, NEW place, at' = [at EXCEPT ![o] = place],
         goal[o] = "none", place \notin Working \cup {"taken"},
         UNCHANGED <<active_command, active_goal_handle, goal, ros>>
  PROVE  Mission'
  <1>1. \A p \in Object : at'[p] = IF p = o THEN place ELSE at[p]
      BY DEF PlaceType
  <1>2. OneMission'
      BY <1>1 DEF Mission, OneMission
  <1>3. Turn'
    <2>1. ros' # None /\ at'[ros'] = "taken" => active_command' = None
      <3>1. at'[ros] = "taken" => at[ros] = "taken"
          BY DEF PlaceType
      <3> QED
          BY <3>1 DEF Mission, Turn
    <2>2. \A p \in Object : goal'[p] # "none" => at'[p] \in {"submitted", "running", "closed"}
        BY <1>1 DEF Mission, Turn
    <2> QED
        BY <2>1, <2>2 DEF Turn
  <1> QED
      BY <1>2, <1>3 DEF Mission

\* The object of the mission goes on ...
LEMMA MissionGoesOn ==
  ASSUME PlaceType, Mission, ros' = None, NEW o \in Object, NEW place,
         at' = [at EXCEPT ![o] = place], at[o] \in Working, place \in Working,
         goal[o] # "none" => place = "running", UNCHANGED <<active_command, goal>>,
         active_goal_handle' = active_goal_handle \/ active_goal_handle' = o
  PROVE  Mission'
  <1>1. \A p \in Object : at'[p] = IF p = o THEN place ELSE at[p]
      BY DEF PlaceType
  <1>2. active_command = o
      BY DEF Mission, OneMission
  <1>3. OneMission'
      BY <1>1, <1>2 DEF Mission, OneMission
  <1>4. Turn'
      BY <1>1 DEF Mission, Turn
  <1> QED
      BY <1>3, <1>4 DEF Mission

\* ... or ends.
LEMMA MissionEnds ==
  ASSUME PlaceType, ActivityType, Mission, ros' = None, NEW o \in Object,
         at' = [at EXCEPT ![o] = "closed"], at[o] \in Working, goal[o] # "executing",
         ClearActive(Id(o)), UNCHANGED goal
  PROVE  Mission' /\ active_command' = None
  <1>1. \A p \in Object : at'[p] = IF p = o THEN "closed" ELSE at[p]
      BY DEF PlaceType
  <1>2. active_command = o /\ o # None
      BY NavAssumption DEF Mission, OneMission, Object
  <1>3. active_command' = None /\ active_goal_handle' = None
      BY <1>2 DEF ClearActive
  <1>4. \A p \in Object : at'[p] \notin Working /\ goal[p] # "executing"
      BY <1>1, <1>2 DEF Mission, OneMission, Working
  <1>5. OneMission'
      BY <1>3, <1>4 DEF OneMission
  <1>6. Turn'
      BY <1>1, <1>3 DEF Mission, Turn
  <1> QED
      BY <1>3, <1>5, <1>6 DEF Mission

LEMMA MissionStep ==
  ASSUME Alone, Runs
  PROVE  Mission'
  <1> Mission /\ QueueType /\ ActivityType /\ PlaceType /\ NetHolds
      BY Parts DEF Alone, Carried, Mission
  <1>0. ASSUME NEW o \in Object, at[o] \notin {"submitted", "running", "closed"}
        PROVE  goal[o] = "none"
      BY <1>0 DEF Mission, Turn
  <1> USE DEF queues, activity, nav2, objects
  <1>1. ASSUME NEW c \in Command, QueueNavigationCommand(c) PROVE Mission'
    <2>1. <<c, 1>> \in Object /\ at[<<c, 1>>] = "absent"
        BY <1>1, Parts, NavAssumption DEF Alone, Carried, QueueNavigationCommand, Admits, Exists, Object, Id
    <2>2. /\ at' = [at EXCEPT ![<<c, 1>>] = "admitted"] /\ goal[<<c, 1>>] = "none"
          /\ UNCHANGED <<active_command, active_goal_handle, goal, ros>>
        BY <1>0, <1>1, <2>1 DEF QueueNavigationCommand
    <2> QED
        BY <2>1, <2>2, Aside DEF Working
  <1>2. CASE Put
    <2>1. /\ net \in Object /\ at' = [at EXCEPT ![net] = "queued"] /\ goal[net] = "none"
          /\ UNCHANGED <<active_command, active_goal_handle, goal, ros>>
        BY <1>0, <1>2 DEF Put, QueueType, NetHolds
    <2> QED
        BY <2>1, Aside DEF Working
  <1>3. CASE \/ \E t \in Task : QueueNavigationCancel(t) \/ ProcessCancelQueue(t)
             \/ \E d \in answer_due : CancelResponseCallback(d[1], d[2])
             \/ \E o \in Object : Nav2AnswersCancel(o)
             \/ RecoveryFails \/ RecoveryDone \/ UNCHANGED vars
    <2>1. UNCHANGED <<active_command, active_goal_handle, goal, at, ros>>
        BY <1>3 DEF QueueNavigationCancel, ProcessCancelQueue, CancelResponseCallback, Nav2AnswersCancel,
                    RecoveryFails, RecoveryDone, vars
    <2> QED
        BY <2>1 DEF Mission, OneMission, Turn
  <1>4. CASE TakeCommand
    <2> DEFINE head == Head(command_queue)
    <2>1. /\ head \in Object /\ at[head] = "queued"
      <3>1. command_queue # <<>> /\ command_queue \in Seq(Object)
          BY <1>4 DEF TakeCommand, QueueType
      <3>2. head = command_queue[1] /\ 1 \in 1..Len(command_queue) /\ head \in Object
          BY <3>1
      <3> QED
          BY <3>2 DEF QueueOnce, Alone, Carried
    <2>2. /\ at' = [at EXCEPT ![head] = "taken"] /\ ros' = head /\ active_command = None
          /\ UNCHANGED <<active_command, active_goal_handle, goal>>
        BY <1>4 DEF TakeCommand
    <2> HIDE DEF head
    <2>3. \A p \in Object : at'[p] = IF p = head THEN "taken" ELSE at[p]
        BY <2>2 DEF PlaceType
    <2>4. goal[head] = "none"
        BY <1>0, <2>1
    <2>5. OneMission'
        BY <2>2, <2>3, <2>4 DEF Mission, OneMission, Working
    <2>6. Turn'
        BY <2>2, <2>3, <2>4 DEF Mission, Turn
    <2> QED
        BY <2>5, <2>6 DEF Mission
  <1>5. CASE SkipCancelled
    <2>1. /\ ros \in Object /\ at[ros] = "taken" /\ active_command = None /\ ros' = None
          /\ at' = [at EXCEPT ![ros] = "closed"]
          /\ UNCHANGED <<active_command, active_goal_handle, goal>>
        BY <1>5 DEF SkipCancelled, QueueType, Mission, Turn
    <2>2. \A p \in Object : at'[p] = IF p = ros THEN "closed" ELSE at[p]
        BY <2>1 DEF PlaceType
    <2>3. OneMission'
        BY <2>1, <2>2 DEF Mission, OneMission, Working
    <2>4. Turn'
        BY <2>1, <2>2 DEF Mission, Turn
    <2> QED
        BY <2>3, <2>4 DEF Mission
  <1>6. CASE Activate
    <2>1. /\ ros \in Object /\ at[ros] = "taken" /\ active_command = None /\ ros' = ros
          /\ at' = [at EXCEPT ![ros] = "starting"] /\ active_command' = ros
          /\ UNCHANGED <<active_goal_handle, goal>> /\ goal[ros] = "none"
        BY <1>0, <1>6 DEF Activate, QueueType, Mission, Turn
    <2>2. \A p \in Object : at'[p] = IF p = ros THEN "starting" ELSE at[p]
        BY <2>1 DEF PlaceType
    <2>3. \A p \in Object : p # None
        BY NavAssumption DEF Object
    <2>4. OneMission'
        BY <2>1, <2>2, <2>3 DEF Mission, OneMission, Working
    <2>5. Turn'
        BY <2>1, <2>2 DEF Mission, Turn
    <2> QED
        BY <2>4, <2>5 DEF Mission
  <1>7. ASSUME NEW o \in Object, NEW place \in {"profiling", "smoothing", "submitted"},
               at[o] \in {"starting", "profiling", "smoothing"}, ros' = None, UNCHANGED goal,
               \/ at' = [at EXCEPT ![o] = place] /\ UNCHANGED <<active_command, active_goal_handle>>
               \/ Abort(o)
        PROVE  Mission'
    <2>1. at[o] \in Working /\ goal[o] = "none" /\ place \in Working
        BY <1>0, <1>7 DEF Working
    <2>2. CASE at' = [at EXCEPT ![o] = place] /\ UNCHANGED <<active_command, active_goal_handle>>
        BY <1>7, <2>1, <2>2, MissionGoesOn
    <2>3. CASE Abort(o)
        BY <1>7, <2>1, <2>3, MissionEnds DEF Abort
    <2> QED
        BY <1>7, <2>2, <2>3
  <1>8. CASE StartCommand
    <2>1. /\ ros \in Object /\ at[ros] = "starting" /\ ros' = None /\ UNCHANGED goal
          /\ \/ at' = [at EXCEPT ![ros] = "profiling"] /\ UNCHANGED <<active_command, active_goal_handle>>
             \/ Abort(ros)
        BY <1>8 DEF StartCommand, QueueType
    <2> QED
        BY <1>7, <2>1
  <1>9. ASSUME NEW o \in Object, NavigationProfileCallback(o) \/ NavigationSmootherProfileCallback(o)
        PROVE  Mission'
    <2>1. /\ at[o] \in {"starting", "profiling", "smoothing"} /\ ros' = None /\ UNCHANGED goal
          /\ \/ /\ \E place \in {"profiling", "smoothing", "submitted"} : at' = [at EXCEPT ![o] = place]
                /\ UNCHANGED <<active_command, active_goal_handle>>
             \/ Abort(o)
        BY <1>9 DEF NavigationProfileCallback, NavigationSmootherProfileCallback
    <2> QED
        BY <1>7, <2>1
  <1>10. ASSUME NEW o \in Object, GoalResponseCallback(o) PROVE Mission'
    <2>1. /\ at[o] = "submitted" /\ ros' = None /\ UNCHANGED goal
          /\ GoalRefused(o) \/ GoalAccepted(o)
        BY <1>10 DEF GoalResponseCallback
    <2>2. CASE GoalRefused(o)
        BY <2>1, <2>2, MissionEnds DEF GoalRefused, Working
    <2>3. CASE GoalAccepted(o)
        BY <2>1, <2>3, MissionGoesOn DEF GoalAccepted, Working
    <2> QED
        BY <2>1, <2>2, <2>3
  <1>11. ASSUME NEW o \in Object, NavigationResultCallback(o) PROVE Mission'
    <2>1. /\ at[o] = "running" /\ ros' = None /\ UNCHANGED goal /\ goal[o] # "executing"
          /\ at' = [at EXCEPT ![o] = "closed"]
        BY <1>11 DEF NavigationResultCallback, Ended
    <2>2. ClearActive(Id(o))
        BY <1>11 DEF NavigationResultCallback, ResultSwallowed, ResultOfCancel, ResultRecovers,
                     ResultReported, StartRecovery
    <2> QED
        BY <2>1, <2>2, MissionEnds DEF Working
  <1>12. CASE RecoveryRetries
    <2>1. PICK copy \in Fresh(Id(recovery[1])) : at' = [at EXCEPT ![copy] = "queued"]
        BY <1>12 DEF RecoveryRetries, Requeue
    <2>2. /\ copy \in Object /\ goal[copy] = "none"
          /\ UNCHANGED <<active_command, active_goal_handle, goal, ros>>
        BY <1>0, <1>12 DEF RecoveryRetries, Fresh
    <2> QED
        BY <2>1, <2>2, Aside DEF Working
  <1>13. ASSUME NEW o \in Object, Nav2Answers(o) PROVE Mission'
    <2>1. /\ at[o] = "submitted" /\ active_command = o
          /\ UNCHANGED <<active_command, active_goal_handle, at, ros>>
        BY <1>13 DEF Nav2Answers, Mission, OneMission, Working
    <2>2. \A p \in Object : /\ goal'[p] = "executing" => p = o \/ goal[p] = "executing"
                            /\ goal'[p] # "none" => p = o \/ goal[p] # "none"
        BY <1>13, Parts DEF Nav2Answers, Alone, Carried, Nav2Type
    <2> QED
        BY <2>1, <2>2 DEF Mission, OneMission, Turn
  <1>14. ASSUME NEW o \in Object, Nav2Ends(o) PROVE Mission'
    <2>1. UNCHANGED <<active_command, active_goal_handle, at, ros>> /\ goal[o] = "executing"
        BY <1>14 DEF Nav2Ends
    <2>2. \A p \in Object : /\ goal'[p] = "executing" => goal[p] = "executing"
                            /\ goal'[p] # "none" => goal[p] # "none"
        BY <1>14, Parts DEF Nav2Ends, Alone, Carried, Nav2Type, Ended
    <2> QED
        BY <2>1, <2>2 DEF Mission, OneMission, Turn
  <1> QED
      BY <1>1, <1>2, <1>3, <1>4, <1>5, <1>6, <1>8, <1>9, <1>10, <1>11, <1>12, <1>13, <1>14
      DEF Runs, RecoveryThread

-----------------------------------------------------------------------------
(* A confirmed cancellation. *)

LEMMA KnownStep ==
  ASSUME Known, Runs
  PROVE  Known'
  <1> USE DEF cancels, Known
  <1>1. ASSUME NEW t \in Task, QueueNavigationCancel(t) \/ ProcessCancelQueue(t) PROVE Known'
      BY <1>1 DEF QueueNavigationCancel, ProcessCancelQueue, ConfirmInactive, RefuseMismatch, AwaitNav2, Reply
  <1>2. ASSUME NEW o \in Object, GoalResponseCallback(o) \/ NavigationResultCallback(o) PROVE Known'
    <2>1. /\ pending_cancel_requests' \subseteq pending_cancel_requests
          /\ UNCHANGED <<cancel_queue, requested>>
          /\ \A t \in Task : <<t, "confirmed">> \in replies' =>
               <<t, "confirmed">> \in replies \/ t \in pending_cancel_requests
        BY <1>2 DEF GoalResponseCallback, GoalRefused, GoalAccepted, NavigationResultCallback, ResultSwallowed,
                    ResultOfCancel, ResultRecovers, ResultReported, Reply
    <2> QED
        BY <2>1
  <1>3. ASSUME NEW d \in answer_due, CancelResponseCallback(d[1], d[2]) PROVE Known'
      BY <1>3 DEF CancelResponseCallback, Reply
  <1>4. CASE \/ \E c \in Command : QueueNavigationCommand(c)
             \/ Put \/ TakeCommand \/ SkipCancelled \/ Activate \/ StartCommand
      BY <1>4 DEF QueueNavigationCommand, Put, TakeCommand, SkipCancelled, Activate, StartCommand
  <1>5. CASE \/ \E o \in Object : \/ NavigationProfileCallback(o) \/ NavigationSmootherProfileCallback(o)
                                  \/ Nav2Answers(o) \/ Nav2Ends(o) \/ Nav2AnswersCancel(o)
             \/ RecoveryThread \/ UNCHANGED vars
      BY <1>5 DEF NavigationProfileCallback, NavigationSmootherProfileCallback, Nav2Answers, Nav2Ends,
                  Nav2AnswersCancel, RecoveryThread, RecoveryFails, RecoveryRetries, RecoveryDone, vars
  <1> QED
      BY <1>1, <1>2, <1>3, <1>4, <1>5 DEF Runs

\* What a confirmed cancellation says of one object.
Confirmed(o) == <<TaskIs(o), "confirmed">> \in replies
Finished(o) ==
  /\ at[o] \notin Working /\ goal[o] # "executing"
  /\ at[o] \in {"admitted", "queued", "taken"} \/ Recovers(o) => TaskIs(o) \in cancelled_task_ids

\* An object that a step leaves alone stays finished.
Spared(o) ==
  /\ at'[o] = at[o] /\ (goal'[o] = "executing" => goal[o] = "executing")
  /\ RecoversNext(o) => Recovers(o)
  /\ cancelled_task_ids \subseteq cancelled_task_ids'
LEMMA StaysFinished ==
  ASSUME NEW o \in Object, Finished(o), Spared(o)
  PROVE  Finished(o)'
  BY DEF Finished, Spared, Recovers, RecoversNext, TaskIs

\* The answer that ends a mission leaves nothing of its task.
LEMMA EndFinishes ==
  ASSUME Alone, NEW o \in Object, at[o] \in Working, goal[o] # "executing", at' = [at EXCEPT ![o] = "closed"],
         UNCHANGED <<goal, recovery>>, NEW p \in Object, TaskIs(p) = TaskIs(o)
  PROVE  Finished(p)'
  <1>1. PlaceType /\ OneMission /\ Once
      BY Parts DEF Alone, Carried
  <1>2. Alive(o) /\ ~Recovers(p) /\ (Alive(p) => p = o)
      BY <1>1 DEF Alive, Working, Once
  <1>3. at'[p] \in {"absent", "closed"}
      BY <1>1, <1>2 DEF Alive, PlaceType
  <1>4. goal[p] # "executing"
      BY <1>1 DEF OneMission
  <1> QED
      BY <1>2, <1>3, <1>4 DEF Finished, Recovers, Working

LEMMA FinalStep ==
  ASSUME Alone, Runs
  PROVE  ConfirmedCancelIsFinal'
  <1>1. \A o \in Object : Confirmed(o) => Finished(o)
    <2>1. \A o \in Object : TaskIs(o) \in Task
        BY NavAssumption DEF TaskIs, Object
    <2> QED
        BY <2>1 DEF Alone, ConfirmedCancelIsFinal, Confirmed, Finished, Recovers
  <1>2. SUFFICES ASSUME NEW o \in Object, Confirmed(o)' PROVE Finished(o)'
    <2>1. (\A o \in Object : Confirmed(o)' => Finished(o)') => ConfirmedCancelIsFinal'
        BY DEF ConfirmedCancelIsFinal, Confirmed, Finished, Recovers, TaskIs
    <2> QED
        BY <2>1
  <1>3. /\ QueueType /\ ActivityType /\ PlaceType /\ WorkerType /\ NetHolds /\ RosHolds
        /\ OneMission /\ Turn /\ Known /\ QueueOnce /\ Once
      BY Parts DEF Alone, Carried
  <1>4. ASSUME UNCHANGED replies PROVE Finished(o)
      BY <1>1, <1>2, <1>4 DEF Confirmed, TaskIs
  <1> USE DEF queues, activity, nav2, objects, cancels, recovering
  <1>5. ASSUME NEW c \in Command, QueueNavigationCommand(c) PROVE Finished(o)'
    <2>1. Finished(o) /\ TaskOf[c] \notin requested
        BY <1>4, <1>5 DEF QueueNavigationCommand, Offered
    <2>2. TaskIs(o) \in requested
      <3>1. TaskIs(o) \in Task
          BY NavAssumption DEF TaskIs, Object
      <3> QED
          BY <1>2, <1>3, <1>5, <3>1 DEF QueueNavigationCommand, Confirmed, Known, TaskIs
    <2>3. o # <<c, 1>>
        BY <2>1, <2>2 DEF TaskIs
    <2>4. Spared(o)
        BY <1>3, <1>5, <2>3 DEF QueueNavigationCommand, Spared, PlaceType, Recovers, RecoversNext
    <2> QED
        BY <2>1, <2>4, StaysFinished
  <1>6. CASE Put
    <2>1. /\ Finished(o) /\ net \in Object /\ at[net] = "admitted" /\ at' = [at EXCEPT ![net] = "queued"]
          /\ UNCHANGED <<goal, recovery, cancelled_task_ids>>
        BY <1>3, <1>4, <1>6 DEF Put, QueueType, NetHolds
    <2>2. at'[o] = IF o = net THEN "queued" ELSE at[o]
        BY <1>3, <2>1 DEF PlaceType
    <2> QED
        BY <2>1, <2>2 DEF Finished, Recovers, TaskIs, Working
  <1>7. CASE \/ \E t \in Task : QueueNavigationCancel(t)
             \/ RecoveryFails \/ RecoveryDone \/ UNCHANGED vars
             \/ \E p \in Object : Nav2AnswersCancel(p)
    <2>1. UNCHANGED <<at, goal, cancelled_task_ids, replies>> /\ (RecoversNext(o) => Recovers(o))
        BY <1>7, NavAssumption
        DEF QueueNavigationCancel, RecoveryFails, RecoveryDone, Nav2AnswersCancel, vars, Recovers,
            RecoversNext, Object
    <2> QED
        BY <1>4, <2>1, StaysFinished DEF Spared
  <1>8. ASSUME NEW d \in answer_due, CancelResponseCallback(d[1], d[2]) PROVE Finished(o)'
    <2>1. UNCHANGED <<at, goal, cancelled_task_ids, recovery>>
        BY <1>8 DEF CancelResponseCallback
    <2>2. Confirmed(o)
        BY <1>2, <1>8 DEF CancelResponseCallback, Reply, Confirmed, TaskIs
    <2> QED
        BY <1>1, <2>1, <2>2, StaysFinished DEF Spared, Recovers, RecoversNext
  <1>9. ASSUME NEW t \in Task, ProcessCancelQueue(t) PROVE Finished(o)'
    <2>1. UNCHANGED <<at, goal, recovery>> /\ cancelled_task_ids \subseteq cancelled_task_ids'
        BY <1>9 DEF ProcessCancelQueue, ConfirmInactive, RefuseMismatch, AwaitNav2
    <2>2. CASE Confirmed(o)
        BY <1>1, <2>1, <2>2, StaysFinished DEF Spared, Recovers, RecoversNext
    <2>3. CASE ~Confirmed(o)
      <3>1. ConfirmInactive(t) /\ t = TaskIs(o)
          BY <1>2, <1>9, <2>3 DEF ProcessCancelQueue, RefuseMismatch, AwaitNav2, ConfirmInactive, Reply,
                                  Confirmed, TaskIs
      <3>2. active_command = None /\ TaskIs(o) \in cancelled_task_ids' /\ o # None
          BY <3>1, NavAssumption DEF ConfirmInactive, Object
      <3>3. at[o] \notin Working /\ goal[o] # "executing"
          BY <1>3, <3>2 DEF OneMission
      <3> QED
          BY <2>1, <3>2, <3>3 DEF Finished, TaskIs
    <2> QED
        BY <2>2, <2>3
  <1>10. CASE TakeCommand
    <2> DEFINE head == Head(command_queue)
    <2>1. head \in Object /\ at[head] = "queued"
      <3>1. command_queue # <<>> /\ command_queue \in Seq(Object)
          BY <1>3, <1>10 DEF TakeCommand, QueueType
      <3>2. head = command_queue[1] /\ 1 \in 1..Len(command_queue) /\ head \in Object
          BY <3>1
      <3> QED
          BY <1>3, <3>2 DEF QueueOnce
    <2>2. /\ Finished(o) /\ at' = [at EXCEPT ![head] = "taken"]
          /\ UNCHANGED <<goal, recovery, cancelled_task_ids>>
        BY <1>4, <1>10 DEF TakeCommand
    <2> HIDE DEF head
    <2>3. at'[o] = IF o = head THEN "taken" ELSE at[o]
        BY <1>3, <2>2 DEF PlaceType
    <2> QED
        BY <2>1, <2>2, <2>3 DEF Finished, Recovers, TaskIs, Working
  <1>11. CASE SkipCancelled
    <2>1. /\ Finished(o) /\ ros \in Object /\ at[ros] = "taken" /\ at' = [at EXCEPT ![ros] = "closed"]
          /\ UNCHANGED <<goal, recovery>> /\ cancelled_task_ids' = cancelled_task_ids \ {TaskIs(ros)}
        BY <1>3, <1>4, <1>11 DEF SkipCancelled, QueueType
    <2>2. at'[o] = IF o = ros THEN "closed" ELSE at[o]
        BY <1>3, <2>1 DEF PlaceType
    <2>3. CASE TaskIs(o) = TaskIs(ros)
      <3>1. Alive(ros) /\ ~Recovers(o) /\ (Alive(o) => o = ros)
          BY <1>3, <2>1, <2>3 DEF Alive, Once
      <3> QED
          BY <2>1, <2>2, <3>1, <1>3 DEF Finished, Recovers, TaskIs, Working, Alive, PlaceType, Place
    <2>4. CASE TaskIs(o) # TaskIs(ros)
      <3>1. o # ros
          BY <2>4
      <3> QED
          BY <2>1, <2>2, <2>4, <3>1 DEF Finished, Recovers, TaskIs
    <2> QED
        BY <2>3, <2>4
  <1>12. CASE Activate
    <2>1. /\ Finished(o) /\ ros \in Object /\ at[ros] = "taken" /\ at' = [at EXCEPT ![ros] = "starting"]
          /\ UNCHANGED <<goal, recovery, cancelled_task_ids>> /\ TaskIs(ros) \notin cancelled_task_ids
        BY <1>3, <1>4, <1>12 DEF Activate, QueueType
    <2>2. o # ros
        BY <2>1 DEF Finished
    <2> QED
        BY <1>3, <2>1, <2>2, StaysFinished DEF Spared, PlaceType, Recovers, RecoversNext
  <1>13. ASSUME NEW p \in Object, NEW place, at' = [at EXCEPT ![p] = place], at[p] \in Working,
                Confirmed(o), UNCHANGED goal, cancelled_task_ids' = cancelled_task_ids,
                RecoversNext(o) => Recovers(o) \/ o = p
         PROVE  Finished(o)'
    <2>1. Finished(o) /\ o # p
        BY <1>1, <1>13 DEF Finished
    <2> QED
        BY <1>3, <1>13, <2>1, StaysFinished DEF Spared, PlaceType
  <1>14. CASE StartCommand
    <2>1. /\ ros \in Object /\ at[ros] \in Working /\ \E place : at' = [at EXCEPT ![ros] = place]
          /\ UNCHANGED <<goal, recovery, cancelled_task_ids, replies>>
        BY <1>3, <1>14 DEF StartCommand, QueueType, Abort, Working
    <2> QED
        BY <1>2, <1>13, <2>1 DEF Confirmed, TaskIs, Recovers, RecoversNext
  <1>15. ASSUME NEW p \in Object, NavigationProfileCallback(p) \/ NavigationSmootherProfileCallback(p)
         PROVE  Finished(o)'
    <2>1. /\ at[p] \in Working /\ \E place : at' = [at EXCEPT ![p] = place]
          /\ UNCHANGED <<goal, recovery, cancelled_task_ids, replies>>
        BY <1>15 DEF NavigationProfileCallback, NavigationSmootherProfileCallback, Abort, Working
    <2> QED
        BY <1>2, <1>13, <2>1 DEF Confirmed, TaskIs, Recovers, RecoversNext
  <1>16. ASSUME NEW p \in Object, GoalResponseCallback(p) PROVE Finished(o)'
    <2>1. at[p] \in Working /\ UNCHANGED <<goal, recovery, cancelled_task_ids>>
        BY <1>16 DEF GoalResponseCallback, Working
    <2>2. \E place : at' = [at EXCEPT ![p] = place]
        BY <1>16 DEF GoalResponseCallback, GoalRefused, GoalAccepted
    <2>3. CASE Confirmed(o)
        BY <1>13, <2>1, <2>2, <2>3 DEF Recovers, RecoversNext
    <2>4. CASE ~Confirmed(o)
      <3>1. TaskIs(o) = TaskIs(p) /\ goal[p] # "executing" /\ at' = [at EXCEPT ![p] = "closed"]
          BY <1>2, <1>16, <2>4 DEF GoalResponseCallback, GoalRefused, GoalAccepted, Reply, Confirmed, TaskIs
      <3> QED
          BY <2>1, <3>1, EndFinishes
    <2> QED
        BY <2>3, <2>4
  <1>17. ASSUME NEW p \in Object, NavigationResultCallback(p) PROVE Finished(o)'
    <2>1. /\ at[p] \in Working /\ UNCHANGED <<goal, cancelled_task_ids>> /\ goal[p] # "executing"
          /\ at' = [at EXCEPT ![p] = "closed"]
        BY <1>17 DEF NavigationResultCallback, Working, Ended
    <2>2. RecoversNext(o) => Recovers(o) \/ o = p
        BY <1>17 DEF NavigationResultCallback, ResultSwallowed, ResultOfCancel, ResultRecovers,
                     ResultReported, StartRecovery, Recovers, RecoversNext
    <2>3. CASE Confirmed(o)
        BY <1>13, <2>1, <2>2, <2>3
    <2>4. CASE ~Confirmed(o)
      <3>1. TaskIs(o) = TaskIs(p) /\ UNCHANGED recovery
          BY <1>2, <1>17, <2>4 DEF NavigationResultCallback, ResultSwallowed, ResultOfCancel, ResultRecovers,
                                   ResultReported, Reply, Confirmed, TaskIs
      <3> QED
          BY <2>1, <3>1, EndFinishes
    <2> QED
        BY <2>3, <2>4
  <1>18. CASE RecoveryRetries
    <2>1. PICK copy \in Fresh(Id(recovery[1])) : at' = [at EXCEPT ![copy] = "queued"]
        BY <1>18 DEF RecoveryRetries, Requeue
    <2>2. /\ Finished(o) /\ UNCHANGED <<goal, cancelled_task_ids>> /\ ~RecoversNext(o)
          /\ recovery[1] \in Object /\ Recovers(recovery[1])
        BY <1>3, <1>4, <1>18, NavAssumption
        DEF RecoveryRetries, WorkerType, Recovers, RecoversNext, Object
    <2>3. copy \in Object /\ Id(copy) = Id(recovery[1]) /\ TaskIs(copy) = TaskIs(recovery[1])
        BY DEF Fresh, Id, TaskIs
    <2>4. at'[o] = IF o = copy THEN "queued" ELSE at[o]
        BY <1>3, <2>1, <2>3 DEF PlaceType
    <2>5. TaskIs(o) = TaskIs(copy) => TaskIs(o) \in cancelled_task_ids
      <3>1. Confirmed(o)
          BY <1>2, <1>18 DEF RecoveryRetries, Confirmed, TaskIs
      <3>2. TaskIs(o) = TaskIs(copy) => Finished(recovery[1])
          BY <1>1, <2>2, <2>3, <3>1 DEF Confirmed
      <3> QED
          BY <2>2, <2>3, <3>2 DEF Finished
    <2> QED
        BY <2>2, <2>4, <2>5 DEF Finished, Recovers, RecoversNext, TaskIs, Working
  <1>19. ASSUME NEW p \in Object, Nav2Answers(p) \/ Nav2Ends(p) PROVE Finished(o)'
    <2>1. Finished(o) /\ UNCHANGED <<at, recovery, cancelled_task_ids>>
        BY <1>4, <1>19 DEF Nav2Answers, Nav2Ends
    <2>2. goal'[o] = "executing" => goal[o] = "executing" \/ (o = p /\ at[o] \in Working)
        BY <1>19, Parts DEF Nav2Answers, Nav2Ends, Alone, Carried, Nav2Type, Ended, Working
    <2> QED
        BY <2>1, <2>2 DEF Finished, Recovers, TaskIs
  <1> QED
      BY <1>5, <1>6, <1>7, <1>8, <1>9, <1>10, <1>11, <1>12, <1>14, <1>15, <1>16, <1>17, <1>18, <1>19
      DEF Runs, RecoveryThread

LEMMA InitAlone == Init => Alone
  <1> SUFFICES ASSUME Init PROVE Alone
      OBVIOUS
  <1>1. Carried
      BY InitCarried
  <1>2. Unstopped /\ Turn /\ Known
      BY DEF Init, Unstopped, motion_stop_latched, Turn, Known
  <1>3. OneMission /\ ConfirmedCancelIsFinal
      BY DEF Init, OneMission, ConfirmedCancelIsFinal, Working
  <1> QED
      BY <1>1, <1>2, <1>3 DEF Alone

LEMMA NextAlone == ASSUME Undisturbed, Alone, [Next]_vars PROVE Alone'
  <1>1. Carried' /\ (Works \/ UNCHANGED vars)
      BY NextCarried DEF Alone, Undisturbed
  <1>2. Runs /\ Unstopped'
      BY <1>1, Running DEF Alone
  <1>3. Mission' /\ Known' /\ ConfirmedCancelIsFinal'
      BY <1>2, MissionStep, KnownStep, FinalStep DEF Alone
  <1> QED
      BY <1>1, <1>2, <1>3 DEF Alone, Mission

\* Without stops, operations and drive stalls the executor works on one command
\* at a time and the handle it keeps is that command's (5448-5468, 5702-5837,
\* 6256), however many commands, recoveries and cancellations there are.
THEOREM OneAtATime == ASSUME Undisturbed PROVE Spec => []OneMission
  <1>1. Alone /\ [Next]_vars => Alone'
      BY NextAlone
  <1>2. Alone => OneMission
      BY DEF Alone
  <1> QED
      BY InitAlone, <1>1, <1>2, PTL DEF Spec

\* Under the same assumptions a confirmed cancellation is final (4764-4782,
\* 5481-5510): what waits in the queue, and what a recovery is about to queue,
\* is skipped when its turn comes.
THEOREM CancelFinal == ASSUME Undisturbed PROVE Spec => []ConfirmedCancelIsFinal
  <1>1. Alone /\ [Next]_vars => Alone'
      BY NextAlone
  <1>2. Alone => ConfirmedCancelIsFinal
      BY DEF Alone
  <1> QED
      BY InitAlone, <1>1, <1>2, PTL DEF Spec
=============================================================================
