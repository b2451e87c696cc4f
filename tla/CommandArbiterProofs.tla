------------------------ MODULE CommandArbiterProofs ------------------------
(***************************************************************************)
(* What CommandArbiter guarantees for every lease, watchdog period, delay  *)
(* of the watchdog and length of the run.                                  *)
(***************************************************************************)
EXTENDS CommandArbiter, TLAPS

\* The bookkeeping that makes the properties inductive: the watchdog is never
\* further away than a period and never later than its delay, a deadline is
\* the last command of its source plus a lease, and the owner was live when
\* the watchdog last looked.
Bookkeeping ==
  /\ due <= now + Period
  /\ now <= due + Jitter
  /\ deadlines["STOPPED"] = stopAt + Lease
  /\ \A o \in Motion :
       /\ heardAt[o] <= now
       /\ deadlines[o] # 0 => /\ deadlines[o] <= heardAt[o] + Lease
                              /\ heardAt[o] >= stopAt + Lease
  /\ owner \in Motion => due < deadlines[owner] + Period

IInv == TypeOK /\ Bookkeeping /\ LatchedMotionIsOwners

-----------------------------------------------------------------------------
\* _select returns STOPPED or a source with a live lease, and no source that
\* outranks the one it returns is live.
LEMMA SelectProperty ==
  ASSUME now \in Int, NEW dl \in [Owner -> Int]
  PROVE  /\ Select(dl) \in Owner
         /\ Select(dl) \in Motion => Live(dl, Select(dl))
         /\ \A o, p \in Motion :
              Outranks(o, p) /\ Live(dl, o) => Select(dl) # p
<1> DEFINE Best(o) == Live(dl, o) /\ \A p \in Owner : Live(dl, p) => Rank[o] <= Rank[p]
<1>0. /\ Rank["STOPPED"] = 0 /\ Rank["RECOVERY"] = 1
      /\ Rank["MANUAL"] = 2 /\ Rank["NAVIGATION"] = 3
  BY DEF Rank, Owner, Motion
<1>1. CASE \E o \in Owner : Live(dl, o)
  <2>1. \E o \in Owner : Best(o)
    <3>1. CASE Live(dl, "STOPPED")
      BY <1>0, <3>1 DEF Owner, Motion
    <3>2. CASE ~Live(dl, "STOPPED") /\ Live(dl, "RECOVERY")
      BY <1>0, <3>2 DEF Owner, Motion
    <3>3. CASE ~Live(dl, "STOPPED") /\ ~Live(dl, "RECOVERY") /\ Live(dl, "MANUAL")
      BY <1>0, <3>3 DEF Owner, Motion
    <3>4. CASE /\ ~Live(dl, "STOPPED") /\ ~Live(dl, "RECOVERY")
               /\ ~Live(dl, "MANUAL")
      BY <1>0, <1>1, <3>4 DEF Owner, Motion
    <3> QED BY <3>1, <3>2, <3>3, <3>4
  <2>2. Select(dl) = CHOOSE o \in Owner : Best(o)
    BY <1>1 DEF Select
  <2>3. Select(dl) \in Owner /\ Best(Select(dl))
    BY <2>1, <2>2
  <2>4. ASSUME NEW o \in Motion, NEW p \in Motion, Outranks(o, p), Live(dl, o)
        PROVE  Select(dl) # p
    <3>1. Rank[o] < Rank[p] /\ Rank[o] \in Int /\ Rank[p] \in Int
      BY <1>0, <2>4 DEF Outranks, Motion
    <3> QED BY <2>3, <2>4, <3>1 DEF Owner
  <2> QED BY <2>3, <2>4
<1>2. CASE ~\E o \in Owner : Live(dl, o)
  BY <1>2 DEF Select, Owner, Motion
<1> QED BY <1>1, <1>2

\* What a handler publishes and what then stays latched.
LEMMA PublishProperty ==
  ASSUME latched \in Motion \cup {Zero}, NEW m \in Motion \cup {Zero}
  PROVE  /\ Publish(<<>>) => published' \in Bursts /\ latched' = latched
         /\ Publish(<<m>>) => published' \in Bursts /\ latched' = m
         /\ Publish(<<Zero, m>>) => published' \in Bursts /\ latched' = m
<1>1. <<m>> # <<>> /\ Len(<<m>>) = 1 /\ <<m>>[1] = m
  OBVIOUS
<1>2. <<Zero, m>> # <<>> /\ Len(<<Zero, m>>) = 2 /\ <<Zero, m>>[2] = m
  OBVIOUS
<1>3. <<>> \in Bursts /\ <<m>> \in Bursts /\ <<Zero, m>> \in Bursts
  BY Zenon DEF Bursts
<1> QED BY <1>1, <1>2, <1>3 DEF Publish

\* What an accepted command publishes: the latched motion is the new owner's.
LEMMA OutputProperty ==
  ASSUME TypeOK, LatchedMotionIsOwners, NEW o \in Owner, Accepted(o)
  PROVE  /\ published' \in Bursts
         /\ latched' \in Motion \cup {Zero}
         /\ latched' \in Motion => owner' = latched'
         /\ latched' \in Motion /\ owner' # owner => published' = <<Zero, latched'>>
         /\ \A q \in Motion :
              owner' # q => published' \notin {<<q>>, <<Zero, q>>}
<1>1. latched \in Motion \cup {Zero} /\ (latched \in Motion => owner = latched)
  BY DEF TypeOK, LatchedMotionIsOwners
<1>2. Message(o) \in Motion \cup {Zero} /\ (Message(o) \in Motion => Message(o) = o)
      /\ Zero \notin Motion /\ Zero \in Motion \cup {Zero}
  BY DEF Message, Owner, Motion, Zero
<1>3. Publish(Output(o, owner' # owner, owner' = o))
  BY DEF Accepted
<1>4. CASE owner' = o /\ owner' # owner
  <2>1. Publish(<<Zero, Message(o)>>)
    BY <1>3, <1>4 DEF Output
  <2>2. published' = <<Zero, Message(o)>>
    BY <2>1 DEF Publish
  <2> QED BY <1>1, <1>2, <1>4, <2>1, <2>2, PublishProperty
<1>5. CASE owner' = o /\ owner' = owner
  <2>1. Publish(<<Message(o)>>)
    BY <1>3, <1>5 DEF Output
  <2>2. published' = <<Message(o)>>
    BY <2>1 DEF Publish
  <2> QED BY <1>1, <1>2, <1>5, <2>1, <2>2, PublishProperty
<1>6. CASE owner' # o /\ owner' # owner
  <2>1. Publish(<<Zero>>)
    BY <1>3, <1>6 DEF Output
  <2>2. published' = <<Zero>>
    BY <2>1 DEF Publish
  <2> QED BY <1>1, <1>2, <1>6, <2>1, <2>2, PublishProperty
<1>7. CASE owner' # o /\ owner' = owner
  <2>1. Publish(<<>>)
    BY <1>3, <1>7 DEF Output
  <2>2. published' = <<>>
    BY <2>1 DEF Publish
  <2> QED BY <1>1, <1>2, <1>7, <2>1, <2>2, PublishProperty
<1> QED BY <1>4, <1>5, <1>6, <1>7

\* accept leaves a deadline for every source.
LEMMA GrantedType ==
  ASSUME TypeOK, NEW o \in Owner
  PROVE  Granted(o) \in [Owner -> 0..(Horizon + Lease)]
BY ArbiterAssumption DEF TypeOK, Granted

LEMMA InitIInv == Init => IInv
BY ArbiterAssumption
   DEF Init, IInv, TypeOK, Bookkeeping, LatchedMotionIsOwners, Owner, Motion, Zero,
       Bursts

LEMMA CommandIInv ==
  ASSUME IInv, NEW o \in Owner, Command(o)
  PROVE  IInv'
<1> USE ArbiterAssumption
<1>1. now \in Nat /\ now' = now /\ due' = due /\ TypeOK
  BY DEF IInv, TypeOK, Command
<1>2. /\ heardAt' \in [Motion -> -1..Horizon]
      /\ stopAt' \in -Lease..Horizon
      /\ \A p \in Motion : heardAt[p] <= heardAt'[p] /\ heardAt'[p] <= now
  BY DEF Command, Heard, IInv, TypeOK, Bookkeeping, Owner
<1>3. CASE Refused(o)
  <2>1. UNCHANGED <<deadlines, owner, latched>> /\ published' \in Bursts
    BY <1>3, PublishProperty DEF Refused, arbiter, IInv, TypeOK
  <2>2. stopAt' = stopAt
    BY <1>3 DEF Refused, Command, Heard
  <2>3. TypeOK' /\ LatchedMotionIsOwners'
    BY <1>1, <1>2, <2>1 DEF IInv, TypeOK, LatchedMotionIsOwners
  <2>4. \A p \in Motion :
          deadlines'[p] # 0 => /\ deadlines'[p] <= heardAt'[p] + Lease
                               /\ heardAt'[p] >= stopAt' + Lease
    BY <1>1, <1>2, <2>1, <2>2 DEF IInv, TypeOK, Bookkeeping, Owner
  <2>5. Bookkeeping'
    BY <1>1, <1>2, <2>1, <2>2, <2>4 DEF IInv, Bookkeeping
  <2> QED BY <2>3, <2>5 DEF IInv
<1>4. CASE Accepted(o)
  <2>1. /\ deadlines' = Granted(o)
        /\ deadlines' \in [Owner -> 0..(Horizon + Lease)]
        /\ owner' = Select(deadlines')
    BY <1>1, <1>4, GrantedType DEF Accepted
  <2>2. owner' \in Owner /\ (owner' \in Motion => Live(deadlines', owner'))
    <3>1. deadlines' \in [Owner -> Int]
      BY <2>1
    <3> QED BY <1>1, <2>1, <3>1, SelectProperty
  <2>3. /\ published' \in Bursts
        /\ latched' \in Motion \cup {Zero}
        /\ latched' \in Motion => owner' = latched'
    BY <1>4, OutputProperty DEF IInv
  <2>4. Bookkeeping'
    <3>1. CASE o = "STOPPED"
      <4>1. deadlines' = [p \in Owner |-> IF p = "STOPPED" THEN now + Lease ELSE 0]
        BY <2>1, <3>1 DEF Granted
      <4>2. stopAt' = now /\ heardAt' = heardAt
        BY <3>1 DEF Command, Heard
      <4>3. owner' \notin Motion
        BY <1>1, <2>2, <4>1 DEF Live, Owner, Motion
      <4> QED
        BY <1>1, <1>2, <4>1, <4>2, <4>3
           DEF IInv, Bookkeeping, TypeOK, Owner, Motion
    <3>2. CASE o # "STOPPED"
      <4>1. deadlines' = [deadlines EXCEPT ![o] = now + Lease]
        BY <2>1, <3>2 DEF Granted
      <4>2. stopAt' = stopAt /\ heardAt' = [heardAt EXCEPT ![o] = now]
        BY <3>2 DEF Command, Heard
      <4>3. deadlines["STOPPED"] <= now
        BY <1>1, <1>4, <3>2 DEF Accepted, Live, TypeOK, Owner
      <4>4. deadlines'["STOPPED"] = stopAt' + Lease
        BY <1>1, <3>2, <4>1, <4>2 DEF IInv, Bookkeeping, TypeOK, Owner
      <4>5. ASSUME NEW p \in Motion, deadlines'[p] # 0
            PROVE  /\ deadlines'[p] <= heardAt'[p] + Lease
                   /\ heardAt'[p] >= stopAt' + Lease
        BY <1>1, <3>2, <4>1, <4>2, <4>3, <4>5
           DEF IInv, Bookkeeping, TypeOK, Owner
      <4>6. owner' \in Motion => due' < deadlines'[owner'] + Period
        BY <1>1, <2>1, <2>2 DEF IInv, Bookkeeping, TypeOK, Live
      <4> QED
        BY <1>1, <1>2, <4>4, <4>5, <4>6 DEF IInv, Bookkeeping
    <3> QED BY <3>1, <3>2
  <2> QED
    BY <1>1, <1>2, <2>1, <2>2, <2>3, <2>4
       DEF IInv, TypeOK, LatchedMotionIsOwners
<1> QED BY <1>3, <1>4 DEF Command

LEMMA ExpireIInv == ASSUME IInv, Expire PROVE IInv'
<1> USE ArbiterAssumption
<1>1. /\ UNCHANGED <<now, deadlines, heardAt, stopAt>>
      /\ now \in Int /\ TypeOK
      /\ due <= now /\ due' = due + Period
  BY DEF IInv, TypeOK, Expire, history
<1>2. owner' \in Owner /\ (owner' \in Motion => deadlines[owner'] > now)
  <2>1. deadlines \in [Owner -> Int]
    BY DEF IInv, TypeOK
  <2> QED BY <1>1, <2>1, SelectProperty DEF Expire, Live
<1>3. /\ published' \in Bursts
      /\ latched' \in Motion \cup {Zero}
      /\ latched' \in Motion => owner' = latched'
  <2>1. CASE owner' # owner /\ Publish(<<Zero>>)
    BY <2>1, PublishProperty DEF IInv, TypeOK, Motion, Zero
  <2>2. CASE owner' = owner /\ Publish(<<>>)
    BY <2>2, PublishProperty DEF IInv, TypeOK, LatchedMotionIsOwners
  <2> QED BY <2>1, <2>2 DEF Expire
<1>4. due' \in Period..(Horizon + Period)
  BY <1>1 DEF TypeOK
<1>5. Bookkeeping'
  BY <1>1, <1>2 DEF IInv, Bookkeeping, TypeOK, Owner
<1> QED
  BY <1>1, <1>2, <1>3, <1>4, <1>5 DEF IInv, TypeOK, LatchedMotionIsOwners

LEMMA TickIInv == ASSUME IInv, Tick PROVE IInv'
<1> USE ArbiterAssumption
<1>1. /\ UNCHANGED <<latched, due, deadlines, owner, heardAt, stopAt>>
      /\ now' = now + 1 /\ now < Horizon /\ now < due + Jitter
      /\ published' = <<>>
  BY DEF Tick, arbiter, history
<1>2. published' \in Bursts
  BY <1>1 DEF Bursts
<1> QED
  BY <1>1, <1>2 DEF IInv, TypeOK, Bookkeeping, LatchedMotionIsOwners

LEMMA StepIInv == ASSUME IInv, [Next]_vars PROVE IInv'
<1>1. ASSUME NEW o \in Owner, Command(o) PROVE IInv'
  BY <1>1, CommandIInv
<1>2. CASE Expire
  BY <1>2, ExpireIInv
<1>3. CASE Tick
  BY <1>3, TickIInv
<1>4. CASE UNCHANGED vars
  BY <1>4
     DEF vars, arbiter, stream, history, IInv, TypeOK, Bookkeeping,
         LatchedMotionIsOwners
<1> QED BY <1>1, <1>2, <1>3, <1>4 DEF Next

\* The inductive invariant of the arbiter holds in every reachable state.
THEOREM Inductive == Spec => []IInv
<1>1. Init => IInv BY InitIInv
<1>2. IInv /\ [Next]_vars => IInv' BY StepIInv
<1> QED BY <1>1, <1>2, PTL DEF Spec

\* Type correctness of the arbiter.
THEOREM TypeCorrect == Spec => []TypeOK
<1>1. IInv => TypeOK BY DEF IInv
<1> QED BY <1>1, Inductive, PTL

\* A motion that still drives the base belongs to the owner.
THEOREM OwnerDrives == Spec => []LatchedMotionIsOwners
<1>1. IInv => LatchedMotionIsOwners BY DEF IInv
<1> QED BY <1>1, Inductive, PTL

\* The dead-man bound: a lease, a watchdog period and the watchdog's delay.
THEOREM DeadMan == Spec => []DeadManBound
<1>1. IInv => DeadManBound
  BY ArbiterAssumption
     DEF IInv, TypeOK, Bookkeeping, LatchedMotionIsOwners, DeadManBound, Owner
<1> QED BY <1>1, Inductive, PTL

\* No source owns the base on the strength of anything it sent before or
\* during the hold of the last stop.
THEOREM StopRevokes == Spec => []StopRevokesLeases
<1>1. IInv => StopRevokesLeases
  BY ArbiterAssumption
     DEF IInv, TypeOK, Bookkeeping, StopRevokesLeases, Owner
<1> QED BY <1>1, Inductive, PTL

\* The base changes hands through zero.
THEOREM Handover == Spec => HandoverThroughZero
<1>1. ASSUME IInv, [Next]_vars PROVE HandoverStep \/ UNCHANGED vars
  <2>1. ASSUME NEW o \in Owner, Accepted(o) PROVE HandoverStep
    BY <1>1, <2>1, OutputProperty
       DEF IInv, LatchedMotionIsOwners, HandoverStep
  <2>2. ASSUME NEW o \in Owner, Refused(o) PROVE HandoverStep
    BY <2>2 DEF Refused, Publish, HandoverStep
  <2>3. CASE Expire
    BY <2>3 DEF Expire, Publish, HandoverStep, Motion, Zero
  <2>4. CASE Tick
    BY <2>4 DEF Tick, HandoverStep
  <2> QED BY <1>1, <2>1, <2>2, <2>3, <2>4 DEF Next, Command
<1> QED BY <1>1, Inductive, PTL DEF Spec, HandoverThroughZero

\* A source never drives the base over one that outranks it.
THEOREM Preemption == Spec => NoPreemptionFromBelow
<1>1. ASSUME IInv, [Next]_vars PROVE PreemptionStep \/ UNCHANGED vars
  <2>1. ASSUME NEW o \in Owner, Accepted(o), now' = now PROVE PreemptionStep
    <3>1. now \in Int /\ deadlines' \in [Owner -> Int]
      BY <1>1, <2>1, GrantedType, ArbiterAssumption DEF IInv, TypeOK, Accepted
    <3>2. \A p, q \in Motion :
            Outranks(p, q) /\ deadlines'[p] > now => owner' # q
      BY <2>1, <3>1, SelectProperty DEF Accepted, Live
    <3>3. \A q \in Motion : owner' # q => published' \notin {<<q>>, <<Zero, q>>}
      BY <1>1, <2>1, OutputProperty DEF IInv
    <3> QED BY <3>2, <3>3 DEF PreemptionStep
  <2>2. ASSUME published' = <<>> \/ published' = <<Zero>> PROVE PreemptionStep
    <3>1. \A q \in Motion : /\ <<q>> # <<>> /\ <<Zero, q>> # <<>>
                            /\ <<q>> # <<Zero>> /\ <<Zero, q>> # <<Zero>>
      BY DEF Motion, Zero
    <3> QED BY <2>2, <3>1 DEF PreemptionStep
  <2>3. ASSUME NEW o \in Owner, Refused(o) PROVE PreemptionStep
    BY <2>2, <2>3 DEF Refused, Publish
  <2>4. CASE Expire \/ Tick
    BY <2>2, <2>4 DEF Expire, Tick, Publish
  <2> QED BY <1>1, <2>1, <2>3, <2>4 DEF Next, Command
<1> QED BY <1>1, Inductive, PTL DEF Spec, NoPreemptionFromBelow
=============================================================================
