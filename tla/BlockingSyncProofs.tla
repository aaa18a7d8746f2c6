------------------------- MODULE BlockingSyncProofs -------------------------
(***************************************************************************)
(* Proofs about BlockingSync, for every number of instances and every      *)
(* bound, with calls, lost messages and restarts in any order.             *)
(***************************************************************************)
EXTENDS BlockingSync, BlockingStatusProofs

(* The messages under way after adding one and after removing one. *)
LEMMA BagAdd ==
  ASSUME NEW B, NEW p
  PROVE  BagToSet(B (+) SetToBag({p})) = BagToSet(B) \cup {p}
  BY DEF BagToSet, SetToBag, (+)

LEMMA BagRemove ==
  ASSUME NEW B, NEW p
  PROVE  BagToSet(B (-) SetToBag({p})) \subseteq BagToSet(B)
  BY DEF BagToSet, SetToBag, (-)

(* Applying a message is one of the operations on a status. *)
LEMMA ApplyGood ==
  ASSUME NEW s, GoodStatus(s), NEW m \in Message
  PROVE  GoodStatus(ApplyMessage(s, m))
  BY EnableGood, DisableGood DEF ApplyMessage, Message

(* What is published is a message. *)
LEMMA EnableMsgType == EnableMsg \in Message
  <1>1. 0 \in Int /\ {} \in SUBSET AllBlockingGroups
    OBVIOUS
  <1> QED
    BY <1>1, Zenon DEF EnableMsg, Message

-----------------------------------------------------------------------------
(* Every status is good, and every message under way can be applied. *)
Good ==
  /\ status \in [Instances -> Status]
  /\ \A i \in Instances : GoodStatus(status[i])

InFlight ==
  /\ BagToSet(outbox) \subseteq Instances \X Message
  /\ inbox \in [Instances -> Seq(Message)]

IInv == Good /\ InFlight /\ calls \in Nat /\ restarts \in Nat

(* The only way a step changes one status. *)
LEMMA StepGood ==
  ASSUME Good, NEW i \in Instances, NEW s, GoodStatus(s),
         status' = [status EXCEPT ![i] = s]
  PROVE  Good'
  BY DEF Good, GoodStatus

(* The only way a step adds a message. *)
LEMMA ToPublishInFlight ==
  ASSUME InFlight, NEW i \in Instances, NEW m \in Message,
         ToPublish(i, m), inbox' = inbox
  PROVE  InFlight'
  <1>1. BagToSet(outbox') = BagToSet(outbox) \cup {<<i, m>>}
    BY BagAdd DEF ToPublish
  <1>2. BagToSet(outbox') \subseteq Instances \X Message
    BY <1>1 DEF InFlight
  <1> QED
    BY <1>2 DEF InFlight

(* The instances together keep the inductive invariant. *)
THEOREM Invariance == Spec => []IInv
  <1> USE SyncAssumption, DurationsAssumption
  <1>1. Init => IInv
    <2> SUFFICES ASSUME Init PROVE IInv
      OBVIOUS
    <2>1. Good
      BY InitGood DEF Init, Good, GoodStatus
    <2>2. BagToSet(outbox) = {}
      BY DEF Init, EmptyBag, SetToBag, BagToSet
    <2>3. InFlight
      BY <2>2 DEF Init, InFlight
    <2> QED
      BY <2>1, <2>3 DEF Init, IInv
  <1>2. IInv /\ [Next]_vars => IInv'
    <2> SUFFICES ASSUME IInv, [Next]_vars PROVE IInv'
      OBVIOUS
    <2>1. ASSUME NEW i \in Controllers, EnableBlocking(i) PROVE IInv'
      <3>1. Good'
        BY <2>1, EnableGood, StepGood DEF IInv, Good, EnableBlocking
      <3>2. InFlight'
        BY <2>1, EnableMsgType, ToPublishInFlight DEF IInv, EnableBlocking
      <3> QED
        BY <2>1, <3>1, <3>2 DEF IInv, EnableBlocking, ApiCall
    <2>2. ASSUME NEW i \in Controllers, NEW d \in Durations,
                 NEW gs \in GroupArgs, DisableBlocking(i, d, gs)
          PROVE  IInv'
      <3>1. Good'
        BY <2>2, DisableGood, StepGood DEF IInv, Good, DisableBlocking
      <3>2. KnownGroups(gs) => DisableMsg(d, gs) \in Message
        BY DEF DisableMsg, Message, KnownGroups
      <3>3. InFlight'
        <4>1. CASE KnownGroups(gs)
          BY <2>2, <3>2, <4>1, ToPublishInFlight DEF IInv, DisableBlocking
        <4>2. CASE ~KnownGroups(gs)
          BY <2>2, <4>2 DEF IInv, InFlight, DisableBlocking
        <4> QED BY <4>1, <4>2
      <3> QED
        BY <2>2, <3>1, <3>3 DEF IInv, DisableBlocking, ApiCall
    <2>3. ASSUME NEW i \in Instances, TimerFires(i) PROVE IInv'
      <3>1. Good'
        BY <2>3, FireGood, StepGood DEF IInv, Good, TimerFires
      <3> QED
        BY <2>3, <3>1 DEF IInv, InFlight, TimerFires
    <2>4. ASSUME NEW i \in Instances, CallbackEnables(i) PROVE IInv'
      <3>1. Good'
        BY <2>4, CallbackGood, StepGood DEF IInv, Good, CallbackEnables
      <3>2. InFlight'
        BY <2>4, EnableMsgType, ToPublishInFlight DEF IInv, CallbackEnables
      <3> QED
        BY <2>4, <3>1, <3>2 DEF IInv, CallbackEnables
    <2>5. ASSUME NEW i \in Instances, Receive(i) PROVE IInv'
      <3>1. Head(inbox[i]) \in Message /\ Tail(inbox[i]) \in Seq(Message)
        BY <2>5 DEF IInv, InFlight, Receive
      <3>2. Good'
        BY <2>5, <3>1, ApplyGood, StepGood DEF IInv, Good, Receive
      <3> QED
        BY <2>5, <3>1, <3>2 DEF IInv, InFlight, Receive
    <2>6. ASSUME NEW i \in Instances, Restart(i) PROVE IInv'
      <3>1. Good'
        BY <2>6, InitGood, StepGood DEF IInv, Restart
      <3>2. InFlight'
        BY <2>6 DEF IInv, InFlight, Restart, BagToSet
      <3> QED
        BY <2>6, <3>1, <3>2 DEF IInv, Restart
    <2>7. ASSUME NEW p \in BagToSet(outbox), Publish(p) PROVE IInv'
      <3>1. p[2] \in Message
        BY DEF IInv, InFlight
      <3>2. inbox' \in [Instances -> Seq(Message)]
        BY <2>7, <3>1 DEF IInv, InFlight, Publish, Received
      <3> QED
        BY <2>7, <3>2, BagRemove DEF IInv, Good, InFlight, Publish, Received
    <2>8. ASSUME NEW p \in BagToSet(outbox), PublishFails(p) PROVE IInv'
      BY <2>8, BagRemove DEF IInv, Good, InFlight, PublishFails
    <2>9. CASE Tick
      BY <2>9, ElapseGood DEF IInv, Good, GoodStatus, InFlight, Tick
    <2>10. CASE UNCHANGED vars
      BY <2>10 DEF IInv, Good, InFlight, vars
    <2> QED
      BY <2>1, <2>2, <2>3, <2>4, <2>5, <2>6, <2>7, <2>8, <2>9, <2>10
      DEF Next, Work, Deliver
  <1> QED
    BY <1>1, <1>2, PTL DEF Spec

(* Every reachable state is well typed.  In particular every disable that  *)
(* reaches redisSubscriber names only groups it knows, so a peer with the  *)
(* same configuration never rejects what was accepted elsewhere.           *)
THEOREM TypeCorrect == Spec => []TypeOK
  <1>1. IInv => TypeOK
    BY DEF IInv, Good, GoodStatus, InFlight, TypeOK
  <1> QED
    BY <1>1, Invariance, PTL

(* However calls, timers, messages, losses and restarts interleave, the    *)
(* status of every instance is consistent in itself.                       *)
THEOREM EveryStatusAlwaysConsistent == Spec => []EveryStatusConsistent
  <1>1. IInv => EveryStatusConsistent
    BY DEF IInv, Good, GoodStatus, EveryStatusConsistent
  <1> QED
    BY <1>1, Invariance, PTL

-----------------------------------------------------------------------------
(***************************************************************************)
(* How the instances settle after a call                                   *)
(***************************************************************************)
(* Messages(s) are those of a sequence s, UnderWay all that somebody will  *)
(* still receive, and Coming(i) says that i is among those.                *)
Messages(s) == {s[k] : k \in 1..Len(s)}

UnderWay == {p[2] : p \in BagToSet(outbox)} \cup UNION {Messages(inbox[i]) : i \in Instances}

Coming(i) == inbox[i] # <<>> \/ \E p \in BagToSet(outbox) : p[1] # i

(***************************************************************************)
(* After an orderly call the instances settle in one of two ways.  The     *)
(* call has set a timer (timed): then every instance that has heard of it  *)
(* is enabled, or will enable itself, because its timer runs or its        *)
(* callback waits.  Or there is no timer: then all messages under way ask  *)
(* for the groups T, and every instance that has heard of it has T.        *)
(***************************************************************************)
Target(m) ==
  IF m.state THEN {} ELSE IF m.groups = {} THEN AllBlockingGroups ELSE m.groups

Fits(timed, T, m) ==
  IF timed THEN m.state \/ m.duration # 0
  ELSE (m.state \/ m.duration = 0) /\ Target(m) = T

Settled(timed, T, s) ==
  IF timed THEN s.disabledGroups = {} \/ s.timer # Stopped \/ s.callbacks > 0
  ELSE s.disabledGroups = T

Calm(timed, s) == timed \/ (s.timer = Stopped /\ s.callbacks = 0)

Settling(timed, T) ==
  /\ \A m \in UnderWay : Fits(timed, T, m)
  /\ \A i \in Instances : Calm(timed, status[i])
  /\ \A i \in Instances : Settled(timed, T, status[i]) \/ Coming(i)
  /\ \A p \in BagToSet(outbox) : Settled(timed, T, status[p[1]])

SyncInv ==
  orderly => \E timed \in BOOLEAN, T \in SUBSET AllBlockingGroups : Settling(timed, T)

-----------------------------------------------------------------------------
(* What the operations do to the fields that settling is about. *)
LEMMA EnableFields ==
  ASSUME NEW s \in Status
  PROVE  LET e == EnableStatus(s)
         IN  e.disabledGroups = {} /\ e.timer = Stopped /\ e.callbacks = s.callbacks
  BY DEF EnableStatus, StopTimer, Status

(* internalDisableBlocking accepts the groups.                             *)
LEMMA AcceptFields ==
  ASSUME NEW s \in Status, NEW d \in Int, NEW gs, KnownGroups(gs)
  PROVE  LET a == DisableStatus(s, d, gs)
         IN  /\ a.disabledGroups = IF gs = {} THEN AllBlockingGroups ELSE gs
             /\ d = 0 <=> a.timer = Stopped
             /\ a.callbacks = s.callbacks
  <1>1. DisableStatus(s, d, gs) = AcceptStatus(s, d, gs)
    BY DEF DisableStatus
  <1>2. LET a == AcceptStatus(s, d, gs)
        IN  /\ a.disabledGroups = IF gs = {} THEN AllBlockingGroups ELSE gs
            /\ a.timer = IF d = 0 THEN Stopped ELSE AtLeastZero(d)
            /\ a.callbacks = s.callbacks
    BY DEF AcceptStatus, Status
  <1>3. AtLeastZero(d) # Stopped
    BY DEF AtLeastZero, Stopped
  <1> QED BY <1>1, <1>2, <1>3

(* It rejects them, after it has stopped the timer.                        *)
LEMMA RejectFields ==
  ASSUME NEW s \in Status, NEW d, NEW gs, ~KnownGroups(gs)
  PROVE  LET r == DisableStatus(s, d, gs)
         IN  /\ r.disabledGroups = s.disabledGroups /\ r.timer = Stopped
             /\ r.callbacks = s.callbacks
  BY DEF DisableStatus, RejectStatus, StopTimer, Status

LEMMA ElapseFields ==
  ASSUME NEW s \in Status
  PROVE  /\ Elapse(s).disabledGroups = s.disabledGroups
         /\ Elapse(s).timer = Stopped <=> s.timer = Stopped
         /\ Elapse(s).callbacks = s.callbacks
  BY DEF Elapse, Status, TimeLeft, Stopped

LEMMA FireFields ==
  ASSUME NEW s \in Status
  PROVE  FireStatus(s).callbacks = s.callbacks + 1 /\ FireStatus(s).callbacks > 0
  BY DEF FireStatus, Status

LEMMA CallbackFields ==
  ASSUME NEW s \in Status
  PROVE  CallbackStatus(s).disabledGroups = {}
  <1>1. EnableStatus(s).disabledGroups = {}
    BY EnableFields
  <1> QED BY <1>1 DEF CallbackStatus, EnableStatus, StopTimer, Status

(* A message that fits settles the instance that applies it. *)
LEMMA ApplySettles ==
  ASSUME NEW s \in Status, NEW m \in Message, NEW timed \in BOOLEAN, NEW T,
         Fits(timed, T, m), Calm(timed, s)
  PROVE  /\ Settled(timed, T, ApplyMessage(s, m))
         /\ Calm(timed, ApplyMessage(s, m))
  <1>1. m.duration \in Int /\ m.groups \in SUBSET AllBlockingGroups /\ KnownGroups(m.groups)
    BY DEF Message, KnownGroups
  <1>2. CASE m.state
    BY <1>2, EnableFields DEF ApplyMessage, Fits, Settled, Calm, Target
  <1>3. CASE ~m.state
    <2> DEFINE a == DisableStatus(s, m.duration, m.groups)
    <2>1. /\ a.disabledGroups = IF m.groups = {} THEN AllBlockingGroups ELSE m.groups
          /\ m.duration = 0 <=> a.timer = Stopped
          /\ a.callbacks = s.callbacks
      BY <1>1, AcceptFields
    <2>2. ApplyMessage(s, m) = a
      BY <1>3 DEF ApplyMessage
    <2> HIDE DEF a
    <2> QED BY <1>3, <2>1, <2>2 DEF Fits, Settled, Calm, Target
  <1> QED BY <1>2, <1>3

-----------------------------------------------------------------------------
(* The messages of a queue after one comes in, and after one is taken out. *)
LEMMA MessagesAppend ==
  ASSUME NEW S, NEW s \in Seq(S), NEW m \in S
  PROVE  Messages(Append(s, m)) \subseteq Messages(s) \cup {m}
  BY DEF Messages

LEMMA MessagesTail ==
  ASSUME NEW S, NEW s \in Seq(S), s # <<>>
  PROVE  Head(s) \in Messages(s) /\ Messages(Tail(s)) \subseteq Messages(s)
  <1>1. Head(s) = s[1] /\ 1 \in 1..Len(s)
    OBVIOUS
  <1>2. \A k \in 1..Len(Tail(s)) : Tail(s)[k] = s[k + 1] /\ k + 1 \in 1..Len(s)
    OBVIOUS
  <1> QED BY <1>1, <1>2 DEF Messages

(* A step that changes the status of i, and adds no message. *)
LEMMA OneSettles ==
  ASSUME NEW timed \in BOOLEAN, NEW T, Settling(timed, T), NEW i \in Instances, NEW s,
         status \in [Instances -> Status], status' = [status EXCEPT ![i] = s],
         UnderWay' \subseteq UnderWay, BagToSet(outbox') \subseteq BagToSet(outbox),
         BagToSet(outbox) \subseteq Instances \X Message,
         Calm(timed, s),
         Settled(timed, T, status[i]) => Settled(timed, T, s),
         \A j \in Instances : Coming(j) => Coming(j)' \/ (j = i /\ Settled(timed, T, s))
  PROVE  Settling(timed, T)'
  <1>1. status'[i] = s /\ \A j \in Instances : j # i => status'[j] = status[j]
    OBVIOUS
  <1>2. \A m \in UnderWay' : Fits(timed, T, m)
    BY DEF Settling
  <1>3. \A j \in Instances : Calm(timed, status'[j])
    BY <1>1 DEF Settling
  <1>4. \A j \in Instances : Settled(timed, T, status[j]) => Settled(timed, T, status'[j])
    BY <1>1
  <1>5. \A j \in Instances : Settled(timed, T, status'[j]) \/ Coming(j)'
    BY <1>1, <1>4 DEF Settling
  <1>6. \A p \in BagToSet(outbox') : Settled(timed, T, status'[p[1]])
    <2> SUFFICES ASSUME NEW p \in BagToSet(outbox') PROVE Settled(timed, T, status'[p[1]])
      OBVIOUS
    <2>1. p \in BagToSet(outbox) /\ p[1] \in Instances
      OBVIOUS
    <2> QED BY <1>4, <2>1 DEF Settling
  <1> QED BY <1>2, <1>3, <1>5, <1>6 DEF Settling

-----------------------------------------------------------------------------
(* One lemma for each step of an instance.                                 *)
LEMMA FiresSettles ==
  ASSUME IInv, NEW timed \in BOOLEAN, NEW T, Settling(timed, T),
         NEW i \in Instances, TimerFires(i)
  PROVE  Settling(timed, T)'
  <1>1. /\ status \in [Instances -> Status]
        /\ status' = [status EXCEPT ![i] = FireStatus(status[i])]
        /\ outbox' = outbox /\ inbox' = inbox
        /\ BagToSet(outbox) \subseteq Instances \X Message
        /\ status[i].timer = 0
    BY DEF IInv, Good, InFlight, TimerFires, TimerDue
  <1>2. timed
    BY <1>1 DEF Settling, Calm, Stopped
  <1>3. Settled(timed, T, FireStatus(status[i])) /\ Calm(timed, FireStatus(status[i]))
    BY <1>1, <1>2, FireFields DEF Settled, Calm
  <1>4. UnderWay' = UnderWay /\ \A j \in Instances : Coming(j) => Coming(j)'
    BY <1>1 DEF UnderWay, Coming
  <1> QED BY <1>1, <1>3, <1>4, OneSettles

(* The instance applies a message.                                         *)
LEMMA ReceiveSettles ==
  ASSUME IInv, NEW timed \in BOOLEAN, NEW T, Settling(timed, T),
         NEW i \in Instances, Receive(i)
  PROVE  Settling(timed, T)'
  <1> DEFINE m == Head(inbox[i])
             s == ApplyMessage(status[i], m)
  <1>1. /\ status \in [Instances -> Status] /\ status' = [status EXCEPT ![i] = s]
        /\ inbox \in [Instances -> Seq(Message)] /\ inbox[i] # <<>>
        /\ inbox' = [inbox EXCEPT ![i] = Tail(@)] /\ outbox' = outbox
        /\ BagToSet(outbox) \subseteq Instances \X Message
    BY DEF IInv, Good, InFlight, Receive
  <1>2. inbox[i] \in Seq(Message)
    BY <1>1
  <1>3. /\ m \in Message /\ m \in Messages(inbox[i])
        /\ Messages(Tail(inbox[i])) \subseteq Messages(inbox[i])
    BY <1>1, <1>2, MessagesTail
  <1>4. /\ inbox'[i] = Tail(inbox[i])
        /\ \A j \in Instances : j # i => inbox'[j] = inbox[j]
    BY <1>1
  <1>5. \A j \in Instances : Messages(inbox'[j]) \subseteq Messages(inbox[j])
    BY <1>3, <1>4
  <1>6. UnderWay' \subseteq UnderWay
    BY <1>1, <1>5 DEF UnderWay
  <1>7. Fits(timed, T, m) /\ Calm(timed, status[i])
    BY <1>3 DEF Settling, UnderWay
  <1>8. Settled(timed, T, s) /\ Calm(timed, s)
    BY <1>1, <1>3, <1>7, ApplySettles
  <1>9. \A j \in Instances : Coming(j) => Coming(j)' \/ j = i
    BY <1>1, <1>4 DEF Coming
  <1> HIDE DEF s, m
  <1> QED BY <1>1, <1>6, <1>8, <1>9, OneSettles

(* A callback enables its own instance and tells the others to. *)
LEMMA CallbackSettles ==
  ASSUME IInv, NEW timed \in BOOLEAN, NEW T, Settling(timed, T),
         NEW i \in Instances, CallbackEnables(i)
  PROVE  Settling(timed, T)'
  <1> DEFINE s == CallbackStatus(status[i])
  <1>1. /\ status \in [Instances -> Status] /\ status' = [status EXCEPT ![i] = s]
        /\ inbox' = inbox /\ status[i].callbacks > 0
        /\ BagToSet(outbox') = BagToSet(outbox) \cup {<<i, EnableMsg>>}
        /\ BagToSet(outbox) \subseteq Instances \X Message
    BY BagAdd DEF IInv, Good, InFlight, CallbackEnables, ToPublish
  <1>2. timed
    BY <1>1 DEF Settling, Calm
  <1>3. Settled(timed, T, s) /\ Calm(timed, s)
    BY <1>1, <1>2, CallbackFields DEF Settled, Calm
  <1> HIDE DEF s
  <1>4. status'[i] = s /\ \A j \in Instances : j # i => status'[j] = status[j]
    BY <1>1
  <1>5. \A j \in Instances : Settled(timed, T, status[j]) => Settled(timed, T, status'[j])
    BY <1>3, <1>4
  <1>6. \A j \in Instances : Coming(j) => Coming(j)'
    BY <1>1 DEF Coming
  <1>7. Fits(timed, T, EnableMsg)
    BY <1>2 DEF Fits, EnableMsg
  <1>8. \A m \in UnderWay' : m \in UnderWay \/ m = EnableMsg
    BY <1>1 DEF UnderWay
  <1>9. \A m \in UnderWay' : Fits(timed, T, m)
    BY <1>7, <1>8 DEF Settling
  <1>10. \A j \in Instances : Calm(timed, status'[j])
    BY <1>2 DEF Calm
  <1>11. \A j \in Instances : Settled(timed, T, status'[j]) \/ Coming(j)'
    BY <1>5, <1>6 DEF Settling
  <1>12. \A p \in BagToSet(outbox') : Settled(timed, T, status'[p[1]])
    <2> SUFFICES ASSUME NEW p \in BagToSet(outbox') PROVE Settled(timed, T, status'[p[1]])
      OBVIOUS
    <2>1. CASE p = <<i, EnableMsg>>
      BY <1>3, <1>4, <2>1
    <2>2. CASE p \in BagToSet(outbox)
      <3>1. p[1] \in Instances
        BY <1>1, <2>2
      <3> QED BY <1>5, <2>2, <3>1 DEF Settling
    <2> QED BY <1>1, <2>1, <2>2
  <1> QED BY <1>9, <1>10, <1>11, <1>12 DEF Settling

(* A published message reaches everybody but its publisher. *)
LEMMA PublishSettles ==
  ASSUME IInv, NEW timed \in BOOLEAN, NEW T, Settling(timed, T),
         NEW p \in BagToSet(outbox), Publish(p)
  PROVE  Settling(timed, T)'
  <1>1. /\ BagToSet(outbox') \subseteq BagToSet(outbox)
        /\ inbox' = [j \in Instances |-> Received(j, p)] /\ status' = status
        /\ inbox \in [Instances -> Seq(Message)]
        /\ p[1] \in Instances /\ p[2] \in Message
    BY BagRemove DEF IInv, InFlight, Publish
  <1>2. ASSUME NEW j \in Instances
        PROVE  /\ Messages(inbox'[j]) \subseteq Messages(inbox[j]) \cup {p[2]}
               /\ j # p[1] => inbox'[j] # <<>>
    <2>1. inbox[j] \in Seq(Message)
      BY <1>1
    <2>2. CASE j = p[1]
      BY <1>1, <2>2 DEF Received
    <2>3. CASE j # p[1]
      <3>1. inbox'[j] = Append(inbox[j], p[2])
        BY <1>1, <2>3 DEF Received
      <3>2. inbox'[j] # <<>>
        BY <2>1, <3>1, <1>1
      <3>3. Messages(Append(inbox[j], p[2])) \subseteq Messages(inbox[j]) \cup {p[2]}
        BY <1>1, <2>1, MessagesAppend
      <3> QED BY <3>1, <3>2, <3>3
    <2> QED BY <2>2, <2>3
  <1>3. UnderWay' \subseteq UnderWay
    BY <1>1, <1>2 DEF UnderWay
  <1>4. \A j \in Instances : Settled(timed, T, status[j]) \/ Coming(j)'
    BY <1>2 DEF Settling, Coming
  <1> QED BY <1>1, <1>3, <1>4 DEF Settling

(* Time passes everywhere.                                                 *)
LEMMA TickSettles ==
  ASSUME IInv, NEW timed \in BOOLEAN, NEW T, Settling(timed, T), Tick
  PROVE  Settling(timed, T)'
  <1>1. /\ status \in [Instances -> Status]
        /\ \A j \in Instances : status'[j] = Elapse(status[j])
        /\ outbox' = outbox /\ inbox' = inbox
        /\ BagToSet(outbox) \subseteq Instances \X Message
    BY DEF IInv, Good, InFlight, Tick
  <1>2. \A j \in Instances :
          /\ status'[j].disabledGroups = status[j].disabledGroups
          /\ status'[j].timer = Stopped <=> status[j].timer = Stopped
          /\ status'[j].callbacks = status[j].callbacks
    BY <1>1, ElapseFields
  <1>3. \A j \in Instances : /\ Settled(timed, T, status[j]) => Settled(timed, T, status'[j])
                             /\ Calm(timed, status[j]) => Calm(timed, status'[j])
    BY <1>2 DEF Settled, Calm
  <1>4. \A p \in BagToSet(outbox) : p[1] \in Instances
    BY <1>1
  <1>5. UnderWay' = UnderWay /\ \A j \in Instances : Coming(j)' <=> Coming(j)
    BY <1>1 DEF UnderWay, Coming
  <1> QED BY <1>1, <1>3, <1>4, <1>5 DEF Settling

-----------------------------------------------------------------------------
(* Where nothing is under way, settling has come to its end. *)
LEMMA SettledWhenQuiescent ==
  ASSUME IInv, SyncInv, orderly, Quiescent
  PROVE  \E T \in SUBSET AllBlockingGroups :
           \A i \in Instances : status[i].disabledGroups = T
  <1>1. BagToSet(outbox) = {}
    BY DEF Quiescent, EmptyBag, SetToBag, BagToSet
  <1>2. \A i \in Instances : ~Coming(i)
    BY <1>1 DEF Quiescent, Coming
  <1>3. PICK timed \in BOOLEAN, T \in SUBSET AllBlockingGroups : Settling(timed, T)
    BY DEF SyncInv
  <1>4. \A i \in Instances : Settled(timed, T, status[i])
    BY <1>2, <1>3 DEF Settling
  <1>5. \A i \in Instances : ~(status[i].callbacks > 0) /\ status[i].timer = Stopped
    BY DEF Quiescent
  <1>6. CASE timed
    BY <1>4, <1>5, <1>6 DEF Settled
  <1>7. CASE ~timed
    BY <1>4, <1>7 DEF Settled
  <1> QED BY <1>6, <1>7

(* An accepted call from there starts settling anew. *)
LEMMA CallStartsSettling ==
  ASSUME IInv, Quiescent, NEW i \in Instances, NEW s, NEW m \in Message,
         NEW timed \in BOOLEAN, NEW T,
         status' = [status EXCEPT ![i] = s], ToPublish(i, m), inbox' = inbox,
         Fits(timed, T, m), Settled(timed, T, s), Calm(timed, s)
  PROVE  Settling(timed, T)'
  <1>1. BagToSet(outbox) = {}
    BY DEF Quiescent, EmptyBag, SetToBag, BagToSet
  <1>2. BagToSet(outbox') = {<<i, m>>}
    <2> DEFINE p == <<i, m>>
    <2>1. outbox' = outbox (+) SetToBag({p})
      BY DEF ToPublish
    <2> HIDE DEF p
    <2>2. BagToSet(outbox') = BagToSet(outbox) \cup {p}
      BY <2>1, BagAdd, Zenon
    <2>3. BagToSet(outbox') = {p}
      BY <1>1, <2>2
    <2> QED BY <2>3 DEF p
  <1>3. \A j \in Instances : inbox'[j] = <<>>
    BY DEF Quiescent
  <1>4. \A j \in Instances : Messages(inbox'[j]) = {}
    BY <1>3 DEF Messages
  <1>5. \A n \in UnderWay' : n = m
    BY <1>2, <1>4 DEF UnderWay
  <1>6. status'[i] = s /\ \A j \in Instances : j # i => status'[j] = status[j]
    BY DEF IInv, Good
  <1>7. \A j \in Instances : j # i => Coming(j)'
    BY <1>2 DEF Coming
  <1>8. \A j \in Instances : Calm(timed, status'[j])
    BY <1>6 DEF Calm, Quiescent
  <1>9. \A j \in Instances : Settled(timed, T, status'[j]) \/ Coming(j)'
    BY <1>6, <1>7
  <1>10. \A p \in BagToSet(outbox') : Settled(timed, T, status'[p[1]])
    BY <1>2, <1>6
  <1> QED BY <1>5, <1>8, <1>9, <1>10 DEF Settling

(* The calls of the API.                                                   *)
LEMMA EnableSettles ==
  ASSUME IInv, SyncInv, NEW i \in Instances, EnableBlocking(i)
  PROVE  SyncInv'
  <1> SUFFICES ASSUME orderly' PROVE Settling(FALSE, {})'
    BY DEF SyncInv
  <1> DEFINE s == EnableStatus(status[i])
  <1>1. Quiescent /\ status[i] \in Status
    BY DEF EnableBlocking, ApiCall, IInv, Good
  <1>2. s.disabledGroups = {} /\ s.timer = Stopped /\ s.callbacks = 0
    BY <1>1, EnableFields DEF Quiescent
  <1>3. Settled(FALSE, {}, s) /\ Calm(FALSE, s)
    BY <1>2 DEF Settled, Calm
  <1>4. Fits(FALSE, {}, EnableMsg)
    BY DEF Fits, Target, EnableMsg
  <1>5. status' = [status EXCEPT ![i] = s] /\ ToPublish(i, EnableMsg) /\ inbox' = inbox
    BY DEF EnableBlocking
  <1> HIDE DEF s
  <1> QED BY <1>1, <1>3, <1>4, <1>5, EnableMsgType, CallStartsSettling

LEMMA DisableSettles ==
  ASSUME IInv, SyncInv, NEW i \in Instances, NEW d \in Int, NEW gs, DisableBlocking(i, d, gs)
  PROVE  SyncInv'
  <1> SUFFICES ASSUME orderly'
               PROVE  \E timed \in BOOLEAN, T \in SUBSET AllBlockingGroups : Settling(timed, T)'
    BY DEF SyncInv
  <1> DEFINE s == DisableStatus(status[i], d, gs)
             off == IF gs = {} THEN AllBlockingGroups ELSE gs
  <1>1. /\ Quiescent /\ orderly /\ status \in [Instances -> Status] /\ status[i] \in Status
        /\ status' = [status EXCEPT ![i] = s] /\ inbox' = inbox
    BY DEF DisableBlocking, ApiCall, IInv, Good
  <1>2. \A j \in Instances : status[j].timer = Stopped /\ status[j].callbacks = 0
    BY <1>1 DEF Quiescent
  <1>3. CASE KnownGroups(gs)
    <2> DEFINE m == DisableMsg(d, gs)
    <2>1. /\ s.disabledGroups = off /\ s.callbacks = 0
          /\ d = 0 <=> s.timer = Stopped
          /\ off \in SUBSET AllBlockingGroups
      BY <1>1, <1>2, <1>3, AcceptFields DEF KnownGroups
    <2>2. m \in Message /\ m.state = FALSE /\ m.duration = d /\ m.groups = gs
      BY <1>3 DEF DisableMsg, Message, KnownGroups
    <2>3. ToPublish(i, m)
      BY <1>3 DEF DisableBlocking
    <2>4. CASE d = 0
      <3>1. Fits(FALSE, off, m) /\ Settled(FALSE, off, s) /\ Calm(FALSE, s)
        BY <2>1, <2>2, <2>4 DEF Fits, Target, Settled, Calm
      <3> HIDE DEF s, m, off
      <3>2. Settling(FALSE, off)'
        BY <1>1, <2>2, <2>3, <3>1, CallStartsSettling
      <3> QED BY <2>1, <3>2
    <2>5. CASE d # 0
      <3>1. Fits(TRUE, {}, m) /\ Settled(TRUE, {}, s) /\ Calm(TRUE, s)
        BY <2>1, <2>2, <2>5 DEF Fits, Settled, Calm
      <3> HIDE DEF s, m, off
      <3>2. Settling(TRUE, {})'
        BY <1>1, <2>2, <2>3, <3>1, CallStartsSettling
      <3> QED BY <3>2
    <2> QED BY <2>4, <2>5
  <1>4. CASE ~KnownGroups(gs)
    <2>1. PICK T \in SUBSET AllBlockingGroups : \A j \in Instances : status[j].disabledGroups = T
      BY <1>1, SettledWhenQuiescent
    <2>2. s.disabledGroups = T /\ s.timer = Stopped /\ s.callbacks = 0
      BY <1>1, <1>2, <1>4, <2>1, RejectFields
    <2> HIDE DEF s
    <2>3. \A j \in Instances : /\ status'[j].disabledGroups = T
                               /\ status'[j].timer = Stopped /\ status'[j].callbacks = 0
      BY <1>1, <1>2, <2>1, <2>2
    <2>4. BagToSet(outbox') = {}
      BY <1>1, <1>4 DEF DisableBlocking, Quiescent, EmptyBag, SetToBag, BagToSet
    <2>5. \A j \in Instances : Messages(inbox'[j]) = {}
      BY <1>1 DEF Quiescent, Messages
    <2>6. UnderWay' = {}
      BY <2>4, <2>5 DEF UnderWay
    <2>7. Settling(FALSE, T)'
      BY <2>3, <2>4, <2>6 DEF Settling, Settled, Calm
    <2> QED BY <2>7
  <1> QED BY <1>3, <1>4

-----------------------------------------------------------------------------
(* As long as calls do not overlap and nothing is lost, the instances      *)
(* settle: what EnableBlocking or DisableBlocking of one has set, redis    *)
(* brings to all others, or the timers of all end it.                      *)
THEOREM SyncInvariance == Spec => []SyncInv
  <1>1. Init => SyncInv
    <2> SUFFICES ASSUME Init PROVE Settling(FALSE, {})
      BY DEF SyncInv
    <2>1. BagToSet(outbox) = {}
      BY DEF Init, EmptyBag, SetToBag, BagToSet
    <2>2. \A i \in Instances : Messages(inbox[i]) = {}
      BY DEF Init, Messages
    <2>3. UnderWay = {}
      BY <2>1, <2>2 DEF UnderWay
    <2>4. \A i \in Instances : Settled(FALSE, {}, status[i]) /\ Calm(FALSE, status[i])
      BY DEF Init, InitStatus, Settled, Calm
    <2> QED BY <2>1, <2>3, <2>4 DEF Settling
  <1>2. IInv /\ SyncInv /\ [Next]_vars => SyncInv'
    <2> SUFFICES ASSUME IInv, SyncInv, [Next]_vars PROVE SyncInv'
      OBVIOUS
    <2>1. ASSUME NEW i \in Controllers, EnableBlocking(i) PROVE SyncInv'
      BY <2>1, EnableSettles, SyncAssumption
    <2>2. ASSUME NEW i \in Controllers, NEW d \in Durations, NEW gs \in GroupArgs,
                 DisableBlocking(i, d, gs)
          PROVE  SyncInv'
      BY <2>2, DisableSettles, SyncAssumption, DurationsAssumption
    <2>3. CASE orderly' = FALSE
      BY <2>3 DEF SyncInv
    <2>4. ASSUME orderly' = orderly,
                 \A timed \in BOOLEAN, T \in SUBSET AllBlockingGroups :
                   Settling(timed, T) => Settling(timed, T)'
          PROVE  SyncInv'
      BY <2>4 DEF SyncInv
    <2>5. ASSUME NEW i \in Instances, Work(i) PROVE SyncInv'
      <3>1. orderly' = orderly
        BY <2>5 DEF Work, TimerFires, CallbackEnables, Receive
      <3>2. \A timed \in BOOLEAN, T \in SUBSET AllBlockingGroups :
              Settling(timed, T) => Settling(timed, T)'
        BY <2>5, FiresSettles, CallbackSettles, ReceiveSettles DEF Work
      <3> QED BY <2>4, <3>1, <3>2
    <2>6. ASSUME NEW p \in BagToSet(outbox), Publish(p) PROVE SyncInv'
      BY <2>4, <2>6, PublishSettles DEF Publish
    <2>7. CASE Tick
      BY <2>4, <2>7, TickSettles DEF Tick
    <2>8. CASE UNCHANGED vars
      BY <2>8 DEF vars, SyncInv, Settling, UnderWay, Coming
    <2> QED BY <2>1, <2>2, <2>3, <2>5, <2>6, <2>7, <2>8
            DEF Next, Deliver, PublishFails, Restart
  <1> QED BY <1>1, <1>2, Invariance, PTL DEF Spec

(* When calls do not overlap with anything, no message is lost and no      *)
(* instance restarts, all instances block the same groups once nothing is  *)
(* under way: publishing in EnableBlocking and DisableBlocking and         *)
(* applying without publishing again in redisSubscriber are enough, for    *)
(* any number of them.                                                     *)
THEOREM OrderlyInstancesAgree == Spec => []SynchronizedIfOrderly
  <1>1. ASSUME IInv, SyncInv PROVE SynchronizedIfOrderly
    BY <1>1, SettledWhenQuiescent DEF SynchronizedIfOrderly, Synchronized
  <1> QED BY <1>1, Invariance, SyncInvariance, PTL
=============================================================================
