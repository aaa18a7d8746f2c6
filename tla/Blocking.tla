------------------------------ MODULE Blocking ------------------------------
(***************************************************************************)
(* The control side of one blocking resolver without redis: the calls of   *)
(* the REST API and the timer that ends a temporary disable.  The calls    *)
(* and the callbacks of fired timers run in goroutines of their own and    *)
(* take effect when they get the write lock, so a step of this machine is  *)
(* one critical section.                                                   *)
(***************************************************************************)
EXTENDS BlockingStatus

CONSTANTS
  GroupArgs,     \* group lists a caller may pass, as sets; {} for none
  MaxCalls,      \* bound: API calls in a behaviour
  MaxCallbacks   \* bound: fired timers that wait for the lock

ASSUME BoundsAssumption == MaxCalls \in Nat /\ MaxCallbacks \in Nat

VARIABLES
  status,    \* r.status
  calls,     \* API calls so far
  promised,  \* history: what is left of the duration of the last accepted
             \* disable, or Forever
  refused,   \* history: a disable was refused since then
  late       \* history: callbacks of older timers were waiting at that time

history == <<promised, refused, late>>
vars == <<status, calls, history>>

Forever == -1

Init ==
  /\ status = InitStatus
  /\ calls = 0
  /\ promised = 0
  /\ refused = FALSE
  /\ late = FALSE

-----------------------------------------------------------------------------
ApiCall == calls < MaxCalls /\ calls' = calls + 1

EnableBlocking ==
  /\ ApiCall
  /\ status' = EnableStatus(status)
  /\ UNCHANGED history

DisableBlocking(d, gs) ==
  /\ ApiCall
  /\ status' = DisableStatus(status, d, gs)
  /\ promised' = IF ~KnownGroups(gs) THEN promised
                 ELSE IF d = 0 THEN Forever ELSE AtLeastZero(d)
  /\ refused' = ~KnownGroups(gs)
  /\ late' = IF KnownGroups(gs) THEN status.callbacks > 0 ELSE late

TimerFires ==
  /\ TimerDue(status)
  /\ status.callbacks < MaxCallbacks
  /\ status' = FireStatus(status)
  /\ UNCHANGED <<calls, history>>

CallbackEnables ==
  /\ status.callbacks > 0
  /\ status' = CallbackStatus(status)
  /\ UNCHANGED <<calls, history>>

(* A step without effect is left out, so time stops once nothing counts.   *)
Tick ==
  /\ status.timer > 0 \/ status.disableEnd > 0 \/ promised > 0
  /\ status' = Elapse(status)
  /\ promised' = IF promised > 0 THEN promised - 1 ELSE promised
  /\ UNCHANGED <<calls, refused, late>>

Next ==
  \/ EnableBlocking
  \/ \E d \in Durations, gs \in GroupArgs : DisableBlocking(d, gs)
  \/ TimerFires
  \/ CallbackEnables
  \/ Tick

Spec == Init /\ [][Next]_vars

(* The Go runtime fires due timers, runs ready goroutines and lets time    *)
(* pass; nobody has to call the API.                                       *)
FairSpec ==
  /\ Spec
  /\ WF_vars(Tick)
  /\ WF_vars(TimerFires)
  /\ WF_vars(CallbackEnables)

-----------------------------------------------------------------------------
(* Types of the variables. *)
TypeOK ==
  /\ status \in Status
  /\ calls \in Nat
  /\ promised \in Nat \cup {Forever}
  /\ refused \in BOOLEAN /\ late \in BOOLEAN

(* EnableBlocking, DisableBlocking and the callback leave `enabled`,       *)
(* `disabledGroups` and the metric in step with each other.                *)
StatusConsistent == Consistent(status)

(* A timer never outlives the disable that armed it: an armed timer means  *)
(* that blocking is disabled and that the reported remaining time is the   *)
(* timer's.                                                                *)
ArmedTimerIsCurrent == TimerMatches(status)

(* A disable for a limited time ends: blocking is enabled again, unless a  *)
(* later call disables it forever.                                         *)
TemporaryDisableEnds ==
  (~status.enabled /\ promised # Forever)
    ~> (status.enabled \/ promised = Forever)

(* The same with the one exception the code makes: a refused call has      *)
(* stopped the timer.                                                      *)
DisableEndsUnlessRefused ==
  (~status.enabled /\ promised # Forever)
    ~> (status.enabled \/ promised = Forever \/ refused)

(* An accepted disable lasts for its duration: it is ended earlier only by *)
(* EnableBlocking or by a callback that was already waiting for the lock   *)
(* when the disable stopped its timer.                                     *)
DisableLasts ==
  [][~status.enabled /\ status'.enabled =>
       EnableBlocking \/ promised = 0 \/ late]_vars
=============================================================================
