--------------------------- MODULE CommandArbiter ---------------------------
(***************************************************************************)
(* The base command arbiter: CommandArbiter (a lease per command source)   *)
(* and the CmdVelPassthrough node that feeds it and owns /cmd_vel_safe     *)
(* (amr_base_driver/cmd_vel_passthrough.py).                               *)
(*                                                                         *)
(* Time is an integer clock; a lease lives until a deadline on that clock. *)
(* rclpy.spin runs one callback at a time, so every handler is one atomic  *)
(* action; what may interleave is the order of the handlers and the delay  *)
(* of the watchdog timer, at most Jitter after it is due.                  *)
(*                                                                         *)
(* A definition D_Fault is D with a seeded fault: the properties are shown *)
(* to tell it from D.                                                      *)
(***************************************************************************)
EXTENDS Integers, Sequences

CONSTANTS
  Lease,    \* command_lease_seconds, in clock units
  Period,   \* period of the watchdog timer
  Jitter,   \* how late the executor may call a due watchdog
  Horizon   \* bound of the clock

ASSUME ArbiterAssumption ==
  /\ Lease \in Nat \ {0}
  /\ Period \in Nat \ {0}
  /\ Jitter \in Nat
  /\ Horizon \in Nat

Motion == {"RECOVERY", "MANUAL", "NAVIGATION"}
Owner == Motion \cup {"STOPPED"}
Zero == "zero"                       \* the Twist() of publish_stop

VARIABLES
  now,        \* time.monotonic()
  deadlines,  \* CommandArbiter.deadlines
  owner,      \* CommandArbiter.owner
  due,        \* when the watchdog timer is next due
  published,  \* what the last handler published on /cmd_vel_safe, in order
  latched,    \* the last message anybody published on /cmd_vel_safe
  heardAt,    \* history: when each source was last heard (-1: never)
  stopAt      \* history: when /cmd_vel_stop was last heard (-Lease: never)

arbiter == <<deadlines, owner>>
stream == <<published, latched>>
history == <<heardAt, stopAt>>
vars == <<now, due, arbiter, stream, history>>

-----------------------------------------------------------------------------
\* The order of CommandArbiter.PRIORITY, highest first.
Rank == [o \in Owner |-> CASE o = "STOPPED" -> 0 [] o = "RECOVERY" -> 1
                           [] o = "MANUAL" -> 2 [] o = "NAVIGATION" -> 3]

Live(dl, o) == dl[o] > now

\* _select: the live lease of the highest priority, STOPPED without one.
SelectManualFirst(dl) ==
  IF Live(dl, "MANUAL") /\ ~Live(dl, "STOPPED") THEN "MANUAL"
  ELSE IF \E o \in Owner : Live(dl, o)
       THEN CHOOSE o \in Owner :
              Live(dl, o) /\ \A p \in Owner : Live(dl, p) => Rank[o] <= Rank[p]
       ELSE "STOPPED"
Select(dl) ==
  IF \E o \in Owner : Live(dl, o)
  THEN CHOOSE o \in Owner :
         Live(dl, o) /\ \A p \in Owner : Live(dl, p) => Rank[o] <= Rank[p]
  ELSE "STOPPED"

\* accept: the deadlines after a command of o.  A stop revokes every lease.
Granted_Accumulate(o) ==
  IF o = "STOPPED"
  THEN [p \in Owner |-> IF p = o THEN now + Lease ELSE 0]
  ELSE [deadlines EXCEPT ![o] = (IF Live(deadlines, o) THEN @ ELSE now) + Lease]
Granted(o) ==
  IF o = "STOPPED"
  THEN [p \in Owner |-> IF p = o THEN now + Lease ELSE 0]
  ELSE [deadlines EXCEPT ![o] = now + Lease]

\* Publish the messages ms; the last of them stays latched downstream.
Publish(ms) ==
  /\ published' = ms
  /\ latched' = IF ms = <<>> THEN latched ELSE ms[Len(ms)]

\* The messages of `command`: a stop first when the ownership changed, then
\* the command itself, or one more stop when a stop was accepted.
Message(o) == IF o = "STOPPED" THEN Zero ELSE o

Output_NoHandoverStop(o, changed, accepted) ==
  IF accepted THEN <<Message(o)>> ELSE <<>>
Output(o, changed, accepted) ==
  IF accepted
  THEN IF changed THEN <<Zero, Message(o)>> ELSE <<Message(o)>>
  ELSE IF changed THEN <<Zero>> ELSE <<>>

-----------------------------------------------------------------------------
Init ==
  /\ now = 0
  /\ deadlines = [o \in Owner |-> 0]
  /\ owner = "STOPPED"
  /\ due = Period
  /\ published = <<>>
  /\ latched = Zero
  /\ heardAt = [o \in Motion |-> -1]
  /\ stopAt = -Lease

Heard(o) ==
  /\ heardAt' = IF o = "STOPPED" THEN heardAt ELSE [heardAt EXCEPT ![o] = now]
  /\ stopAt' = IF o = "STOPPED" THEN now ELSE stopAt

\* A command during the hold of a stop is refused and grants no lease.
Refused(o) ==
  /\ o # "STOPPED"
  /\ Live(deadlines, "STOPPED")
  /\ Publish(<<>>)
  /\ UNCHANGED arbiter

Accepted_DuringHold(o) ==
  /\ deadlines' = Granted(o)
  /\ owner' = Select(deadlines')
  /\ Publish(Output(o, owner' # owner, owner' = o))
Accepted(o) ==
  /\ o = "STOPPED" \/ ~Live(deadlines, "STOPPED")
  /\ deadlines' = Granted(o)
  /\ owner' = Select(deadlines')
  /\ Publish(Output(o, owner' # owner, owner' = o))

\* `command`: a message of the source o reaches the node.
Command(o) ==
  /\ Accepted(o) \/ Refused(o)
  /\ Heard(o)
  /\ UNCHANGED <<now, due>>

\* `expire_owner`: the watchdog, at most Jitter after it is due.
Expire_KeepLatch ==
  /\ now >= due
  /\ due' = due + Period
  /\ owner' = Select(deadlines)
  /\ Publish(<<>>)
  /\ UNCHANGED <<now, deadlines, history>>
Expire ==
  /\ now >= due
  /\ due' = due + Period
  /\ owner' = Select(deadlines)
  /\ Publish(IF owner' # owner THEN <<Zero>> ELSE <<>>)
  /\ UNCHANGED <<now, deadlines, history>>

\* Time passes, never further than the latest call of a due watchdog.
Tick ==
  /\ now < Horizon
  /\ now < due + Jitter
  /\ now' = now + 1
  /\ published' = <<>>
  /\ UNCHANGED <<latched, due, arbiter, history>>

Next == (\E o \in Owner : Command(o)) \/ Expire \/ Tick

Spec == Init /\ [][Next]_vars

-----------------------------------------------------------------------------
\* Every variable keeps its type; one handler publishes at most two messages,
\* and only the last of two can move the base.
Bursts == {<<>>} \cup {<<m>> : m \in Motion \cup {Zero}}
                 \cup {<<Zero, m>> : m \in Motion \cup {Zero}}
TypeOK ==
  /\ now \in 0..Horizon
  /\ deadlines \in [Owner -> 0..(Horizon + Lease)]
  /\ owner \in Owner
  /\ due \in Period..(Horizon + Period)
  /\ published \in Bursts
  /\ latched \in Motion \cup {Zero}
  /\ heardAt \in [Motion -> -1..Horizon]
  /\ stopAt \in -Lease..Horizon

\* "Ensure a command from the old owner cannot remain latched"
\* (cmd_vel_passthrough.py:94): a motion that still drives the base belongs to
\* the source the arbiter names as the owner, whatever handler ran last.
LatchedMotionIsOwners == latched \in Motion => owner = latched

\* "expires the 0.25 s lease within the advertised 0.35 s dead-man bound"
\* (cmd_vel_passthrough.py:83): a source that fell silent drives the base for
\* at most a lease and a watchdog period (and the delay of the watchdog).
DeadManBound ==
  latched \in Motion => now <= heardAt[latched] + Lease + Period + Jitter

\* A stop cancels what came before it: a source that owns the base was heard
\* again after the whole hold of the last stop had passed
\* (cmd_vel_passthrough.py:35-42), so no lease from before the stop, or
\* requested while it was held, ever resumes.
StopRevokesLeases ==
  owner \in Motion => heardAt[owner] >= stopAt + Lease

\* The base changes hands through zero: a motion of another source follows a
\* stop published by the same handler (cmd_vel_passthrough.py:93-97).
HandoverStep ==
  (latched \in Motion /\ latched' \in Motion /\ latched' # latched)
    => published' = <<Zero, latched'>>
HandoverThroughZero == [][HandoverStep]_vars

\* Preemption is one way: no handler publishes a motion while a source that
\* outranks it (recovery over manual over navigation) holds a live lease.
Outranks(o, p) ==
  \/ o = "RECOVERY" /\ p \in {"MANUAL", "NAVIGATION"}
  \/ o = "MANUAL" /\ p = "NAVIGATION"
PreemptionStep ==
  \A o, p \in Motion :
    (Outranks(o, p) /\ deadlines'[o] > now)
      => published' \notin {<<p>>, <<Zero, p>>}
NoPreemptionFromBelow == [][PreemptionStep]_vars
=============================================================================
