---------------------------- MODULE BlockingSync ----------------------------
(***************************************************************************)
(* Several blocky instances that share their blocking status through the   *)
(* redis channel (resolver/blocking_resolver.go, redis/redis.go).          *)
(*                                                                         *)
(* A call of the API, or the callback of a timer, first changes the status *)
(* of its own instance under the lock and publishes afterwards, without    *)
(* the lock: in between its message is in `outbox`, and messages leave     *)
(* `outbox` in any order.  Publishing reaches every other instance at once *)
(* and in order; redisSubscriber applies the messages one by one and does  *)
(* not publish.  Nobody looks at the result of a publish, so a message may *)
(* be lost: redis is away, or the context of the HTTP request that armed   *)
(* the timer is over.                                                      *)
(***************************************************************************)
EXTENDS BlockingStatus, Sequences, Bags

CONSTANTS
  Instances,     \* blocky instances with the same configuration
  Controllers,   \* instances whose API is called
  GroupArgs,     \* group lists a caller may pass, as sets; {} for none
  MayLose,       \* a publish may fail
  MaxCalls,      \* bound: API calls in a behaviour
  MaxRestarts    \* bound: restarts in a behaviour

ASSUME SyncAssumption ==
  /\ Controllers \subseteq Instances
  /\ MayLose \in BOOLEAN
  /\ MaxCalls \in Nat /\ MaxRestarts \in Nat

VARIABLES
  status,    \* status[i]: r.status of instance i
  outbox,    \* bag of <<instance, message>> to be published
  inbox,     \* inbox[i]: messages on the way to redisSubscriber of i
  calls,     \* API calls so far
  restarts,  \* restarts so far
  orderly    \* history: no message was lost, no instance restarted, and each
             \* call was made when nothing was under way

vars == <<status, outbox, inbox, calls, restarts, orderly>>

(* redis.EnabledMessage; the groups are those of an accepted call. *)
Message ==
  [state : BOOLEAN, duration : Int, groups : SUBSET AllBlockingGroups]

EnableMsg == [state |-> TRUE, duration |-> 0, groups |-> {}]
DisableMsg(d, gs) == [state |-> FALSE, duration |-> d, groups |-> gs]

Init ==
  /\ status = [i \in Instances |-> InitStatus]
  /\ outbox = EmptyBag
  /\ inbox = [i \in Instances |-> <<>>]
  /\ calls = 0
  /\ restarts = 0
  /\ orderly = TRUE

-----------------------------------------------------------------------------
(* Nothing is under way between the instances. *)
Quiescent ==
  /\ outbox = EmptyBag
  /\ \A i \in Instances : /\ inbox[i] = <<>>
                          /\ status[i].callbacks = 0
                          /\ status[i].timer = Stopped

ApiCall ==
  /\ calls < MaxCalls
  /\ calls' = calls + 1
  /\ orderly' = (orderly /\ Quiescent)

ToPublish(i, m) == outbox' = outbox (+) SetToBag({<<i, m>>})

EnableBlocking(i) ==
  /\ ApiCall
  /\ status' = [status EXCEPT ![i] = EnableStatus(@)]
  /\ ToPublish(i, EnableMsg)
  /\ UNCHANGED <<inbox, restarts>>

(* A rejected call is not published. *)
DisableBlocking(i, d, gs) ==
  /\ ApiCall
  /\ status' = [status EXCEPT ![i] = DisableStatus(@, d, gs)]
  /\ IF KnownGroups(gs) THEN ToPublish(i, DisableMsg(d, gs))
                        ELSE UNCHANGED outbox
  /\ UNCHANGED <<inbox, restarts>>

TimerFires(i) ==
  /\ TimerDue(status[i])
  /\ status' = [status EXCEPT ![i] = FireStatus(@)]
  /\ UNCHANGED <<outbox, inbox, calls, restarts, orderly>>

CallbackEnables(i) ==
  /\ status[i].callbacks > 0
  /\ status' = [status EXCEPT ![i] = CallbackStatus(@)]
  /\ ToPublish(i, EnableMsg)
  /\ UNCHANGED <<inbox, calls, restarts, orderly>>

-----------------------------------------------------------------------------
(* processReceivedMessage of j drops the messages of its own instance and  *)
(* hands the others to EnabledChannel.                                     *)
Received(j, p) == IF j = p[1] THEN inbox[j] ELSE Append(inbox[j], p[2])

(* PublishEnabled *)
Publish(p) ==
  /\ p \in BagToSet(outbox)
  /\ outbox' = outbox (-) SetToBag({p})
  /\ inbox' = [j \in Instances |-> Received(j, p)]
  /\ UNCHANGED <<status, calls, restarts, orderly>>

PublishFails(p) ==
  /\ MayLose
  /\ p \in BagToSet(outbox)
  /\ outbox' = outbox (-) SetToBag({p})
  /\ orderly' = FALSE
  /\ UNCHANGED <<status, inbox, calls, restarts>>

(* Mistake: an enable message does not stop the timer. *)
ApplyMessageKeepsTimer(s, m) ==
  IF m.state
  THEN [s EXCEPT !.enabled = TRUE, !.disabledGroups = {}, !.gauge = TRUE]
  ELSE DisableStatus(s, m.duration, m.groups)

(* Mistake: the groups of a message are not used. *)
ApplyMessageAllGroups(s, m) ==
  IF m.state THEN EnableStatus(s) ELSE DisableStatus(s, m.duration, {})

ApplyMessage(s, m) ==
  IF m.state THEN EnableStatus(s) ELSE DisableStatus(s, m.duration, m.groups)

(* Mistake: what is received is published again. *)
ReceiveAndPublish(i) ==
  /\ inbox[i] # <<>>
  /\ status' = [status EXCEPT ![i] = ApplyMessage(@, Head(inbox[i]))]
  /\ inbox' = [inbox EXCEPT ![i] = Tail(@)]
  /\ ToPublish(i, Head(inbox[i]))
  /\ UNCHANGED <<calls, restarts, orderly>>

(* redisSubscriber *)
Receive(i) ==
  /\ inbox[i] # <<>>
  /\ status' = [status EXCEPT ![i] = ApplyMessage(@, Head(inbox[i]))]
  /\ inbox' = [inbox EXCEPT ![i] = Tail(@)]
  /\ UNCHANGED <<outbox, calls, restarts, orderly>>

(* The status is not persisted, and what the instance had to say or to     *)
(* hear is gone.                                                           *)
Restart(i) ==
  /\ restarts < MaxRestarts
  /\ restarts' = restarts + 1
  /\ status' = [status EXCEPT ![i] = InitStatus]
  /\ outbox' = [p \in {q \in BagToSet(outbox) : q[1] # i} |-> outbox[p]]
  /\ inbox' = [inbox EXCEPT ![i] = <<>>]
  /\ orderly' = FALSE
  /\ UNCHANGED calls

Tick ==
  /\ \E i \in Instances : status[i].timer > 0 \/ status[i].disableEnd > 0
  /\ status' = [i \in Instances |-> Elapse(status[i])]
  /\ UNCHANGED <<outbox, inbox, calls, restarts, orderly>>

-----------------------------------------------------------------------------
(* What the instances do by themselves. *)
Work(i) == TimerFires(i) \/ CallbackEnables(i) \/ Receive(i)

Deliver == \E p \in BagToSet(outbox) : Publish(p) \/ PublishFails(p)

Next ==
  \/ \E i \in Controllers :
       \/ EnableBlocking(i)
       \/ \E d \in Durations, gs \in GroupArgs : DisableBlocking(i, d, gs)
  \/ \E i \in Instances : Work(i) \/ Restart(i)
  \/ Deliver
  \/ Tick

Spec == Init /\ [][Next]_vars

(* Goroutines that are ready run, publishing ends, time passes. *)
FairSpec ==
  /\ Spec
  /\ \A i \in Instances : WF_vars(Work(i))
  /\ WF_vars(Deliver)
  /\ WF_vars(Tick)

-----------------------------------------------------------------------------
(* Types of the variables. *)
TypeOK ==
  /\ status \in [Instances -> Status]
  /\ BagToSet(outbox) \subseteq Instances \X Message
  /\ inbox \in [Instances -> Seq(Message)]
  /\ calls \in Nat /\ restarts \in Nat

(* In every instance the fields of the status agree with each other,       *)
(* whatever mixture of calls, timers and messages it has processed.        *)
EveryStatusConsistent ==
  \A i \in Instances : Consistent(status[i]) /\ TimerMatches(status[i])

(* Once nothing is under way, every instance blocks the same groups. *)
Synchronized ==
  Quiescent =>
    \A i, j \in Instances :
      status[i].disabledGroups = status[j].disabledGroups

(* The same under the conditions that the code needs for it: calls that    *)
(* do not overlap with anything, no losses and no restarts.                *)
SynchronizedIfOrderly == orderly => Synchronized

(* Messages die out: handling a message never leads to messages without    *)
(* end, so that without further calls the instances come to rest.          *)
ComesToRest == <>[]Quiescent
=============================================================================
