--------------------------- MODULE BlockingProofs ---------------------------
(***************************************************************************)
(* Proofs about Blocking, for every set of groups, every set of durations  *)
(* and every bound; about StatusLock, for every number of readers and      *)
(* controllers and every assignment of groups to clients; and about        *)
(* RedisClient, which uses the lock as StatusLock allows: what is proved of *)
(* the lock holds with the channels around it.                             *)
(***************************************************************************)
EXTENDS Blocking, RedisClient, BlockingStatusProofs


(* The inductive invariant: the three invariants need each other.  That an *)
(* armed timer matches the status rests on the types of the times, and     *)
(* types rest on nothing else.                                             *)
IInv ==
  /\ GoodStatus(status)
  /\ calls \in Nat
  /\ promised \in Nat \cup {Forever}
  /\ refused \in BOOLEAN /\ late \in BOOLEAN

(* Init and every step of one resolver keep the inductive invariant. *)
THEOREM Invariance == Spec => []IInv
  <1>1. Init => IInv
    <2> SUFFICES ASSUME Init PROVE IInv
      OBVIOUS
    <2>1. GoodStatus(status)
      BY InitGood DEF Init
    <2>2. calls \in Nat /\ promised \in Nat
      BY DEF Init
    <2> QED
      BY Zenon, <2>1, <2>2 DEF Init, IInv
  <1>2. IInv /\ [Next]_vars => IInv'
    <2> SUFFICES ASSUME IInv, [Next]_vars PROVE IInv'
      OBVIOUS
    <2>1. CASE EnableBlocking
      BY <2>1, EnableGood DEF IInv, EnableBlocking, ApiCall, history
    <2>2. ASSUME NEW d \in Durations, NEW gs \in GroupArgs,
                 DisableBlocking(d, gs)
          PROVE  IInv'
      <3>1. d \in Int
        BY DurationsAssumption
      <3>2. GoodStatus(status')
        BY <2>2, <3>1, DisableGood DEF IInv, DisableBlocking
      <3>3. promised' \in Nat \cup {Forever}
        BY <2>2, <3>1 DEF IInv, DisableBlocking, AtLeastZero
      <3>4. refused' \in BOOLEAN
        BY <2>2, Zenon DEF DisableBlocking, KnownGroups
      <3>5. late' \in BOOLEAN
        <4>1. (status.callbacks > 0) \in BOOLEAN
          BY SMT DEF IInv, GoodStatus, Status
        <4> QED
          BY <2>2, <4>1, Zenon DEF IInv, DisableBlocking
      <3> QED
        BY <2>2, <3>2, <3>3, <3>4, <3>5 DEF IInv, DisableBlocking, ApiCall
    <2>3. CASE TimerFires
      BY <2>3, FireGood DEF IInv, TimerFires, history
    <2>4. CASE CallbackEnables
      BY <2>4, CallbackGood DEF IInv, CallbackEnables, history
    <2>5. CASE Tick
      <3>1. GoodStatus(status')
        BY <2>5, ElapseGood DEF IInv, Tick
      <3>2. promised' \in Nat \cup {Forever}
        BY <2>5 DEF IInv, Tick, Forever
      <3> QED
        BY <2>5, <3>1, <3>2 DEF IInv, Tick
    <2>6. CASE UNCHANGED vars
      BY <2>6 DEF IInv, vars, history
    <2> QED
      BY <2>1, <2>2, <2>3, <2>4, <2>5, <2>6 DEF Next
  <1> QED
    BY <1>1, <1>2, PTL DEF Spec

(* Every reachable state of one resolver is well typed. *)
THEOREM TypeCorrect == Spec => []TypeOK
  <1>1. IInv => TypeOK
    BY DEF IInv, GoodStatus, TypeOK
  <1> QED
    BY <1>1, Invariance, PTL

(* Whatever is called, whenever timers fire and however long a callback    *)
(* waits for the lock: blocking is enabled exactly when no group is        *)
(* disabled, and the metric agrees.                                        *)
THEOREM StatusAlwaysConsistent == Spec => []StatusConsistent
  <1>1. IInv => StatusConsistent
    BY DEF IInv, GoodStatus, StatusConsistent
  <1> QED
    BY <1>1, Invariance, PTL

(* The armed timer is always the one whose end BlockingStatus reports. *)
THEOREM ArmedTimerAlwaysCurrent == Spec => []ArmedTimerIsCurrent
  <1>1. IInv => ArmedTimerIsCurrent
    BY DEF IInv, GoodStatus, ArmedTimerIsCurrent
  <1> QED
    BY <1>1, Invariance, PTL

-----------------------------------------------------------------------------
(* What makes a disable last: the armed timer counts what is left of the   *)
(* promise, and a callback that waits while blocking is disabled is either *)
(* late or has come when nothing was left.                                 *)
PromiseKept ==
  /\ status.timer # Stopped => promised = status.timer
  /\ ~status.enabled /\ status.callbacks > 0 /\ ~late => promised = 0

(* Every step of one resolver keeps the promise of the last disable. *)
LEMMA PromiseStep ==
  ASSUME IInv, IInv', PromiseKept, [Next]_vars
  PROVE  PromiseKept'
  <1> USE DEF PromiseKept, IInv, GoodStatus, Status, TimeLeft, Stopped, Forever
  <1>1. CASE EnableBlocking
    BY <1>1 DEF EnableBlocking, EnableStatus, StopTimer, history
  <1>2. ASSUME NEW d \in Durations, NEW gs \in GroupArgs,
               DisableBlocking(d, gs)
        PROVE  PromiseKept'
    <2>1. d \in Int
      BY DurationsAssumption
    <2>2. CASE KnownGroups(gs)
      BY Zenon, <1>2, <2>1, <2>2
      DEF DisableBlocking, DisableStatus, AcceptStatus, AtLeastZero
    <2>3. CASE ~KnownGroups(gs)
      BY <1>2, <2>3
      DEF DisableBlocking, DisableStatus, RejectStatus, StopTimer
    <2> QED
      BY <2>2, <2>3
  <1>3. CASE TimerFires
    BY <1>3 DEF TimerFires, TimerDue, FireStatus, history
  <1>4. CASE CallbackEnables
    BY <1>4
    DEF CallbackEnables, CallbackStatus, EnableStatus, StopTimer, history
  <1>5. CASE Tick
    BY <1>5 DEF Tick, Elapse
  <1>6. CASE UNCHANGED vars
    BY <1>6 DEF vars, history
  <1> QED
    BY <1>1, <1>2, <1>3, <1>4, <1>5, <1>6 DEF Next

(* An accepted disable lasts for its duration, for any durations and any   *)
(* number of calls: no step but EnableBlocking ends it before its time     *)
(* unless callbacks of older timers were waiting when it was accepted.     *)
THEOREM DisableAlwaysLasts == Spec => DisableLasts
  <1> DEFINE Early == ~status.enabled /\ status'.enabled =>
                        EnableBlocking \/ promised = 0 \/ late
  <1>1. Init => PromiseKept
    BY DEF Init, InitStatus, PromiseKept, Stopped
  <1>2. IInv /\ IInv' /\ PromiseKept /\ [Next]_vars => PromiseKept'
    BY PromiseStep
  <1>3. IInv /\ PromiseKept /\ [Next]_vars => [Early]_vars
    <2> SUFFICES ASSUME IInv, PromiseKept, Next, ~status.enabled,
                        status'.enabled, ~EnableBlocking, ~late
                 PROVE  promised = 0
      OBVIOUS
    <2> USE DEF IInv, GoodStatus, Status
    <2>1. ASSUME NEW d \in Durations, NEW gs \in GroupArgs,
                 DisableBlocking(d, gs)
          PROVE  FALSE
      BY <2>1 DEF DisableBlocking, DisableStatus, AcceptStatus, RejectStatus,
                  StopTimer
    <2>2. ~TimerFires
      BY Zenon DEF TimerFires, FireStatus
    <2>3. ~Tick
      BY Zenon DEF Tick, Elapse
    <2>4. CASE CallbackEnables
      BY <2>4 DEF CallbackEnables, PromiseKept
    <2> QED
      BY <2>1, <2>2, <2>3, <2>4 DEF Next
  <1> QED
    BY <1>1, <1>2, <1>3, Invariance, PTL DEF Spec, DisableLasts

-----------------------------------------------------------------------------
(* Blocking that is disabled for a limited time has a timer that runs or a *)
(* callback that waits for the lock, unless a refused call has stopped the *)
(* timer.                                                                  *)
EndIsComing ==
  ~status.enabled /\ promised # Forever /\ ~refused =>
    status.timer # Stopped \/ status.callbacks > 0

(* No sequence of calls, timers and callbacks loses the end of a disable,  *)
(* for any durations: after EnableBlocking, DisableBlocking and a fired    *)
(* timer there is still something that will enable blocking.               *)
THEOREM EndAlwaysComing == Spec => []EndIsComing
  <1>1. Init => EndIsComing
    BY DEF Init, InitStatus, EndIsComing
  <1>2. IInv /\ EndIsComing /\ [Next]_vars => EndIsComing'
    <2> SUFFICES ASSUME IInv, EndIsComing, [Next]_vars PROVE EndIsComing'
      OBVIOUS
    <2> USE DEF EndIsComing, IInv, GoodStatus, Status, TimeLeft, Stopped, Forever
    <2>1. CASE EnableBlocking
      BY <2>1 DEF EnableBlocking, EnableStatus, StopTimer
    <2>2. ASSUME NEW d \in Durations, NEW gs \in GroupArgs, DisableBlocking(d, gs)
          PROVE  EndIsComing'
      <3>1. d \in Int
        BY DurationsAssumption
      <3>2. CASE KnownGroups(gs)
        BY <2>2, <3>1, <3>2
        DEF DisableBlocking, DisableStatus, AcceptStatus, AtLeastZero
      <3>3. CASE ~KnownGroups(gs)
        BY Zenon, <2>2, <3>3 DEF DisableBlocking
      <3> QED BY <3>2, <3>3
    <2>3. CASE TimerFires
      BY <2>3 DEF TimerFires, FireStatus, history
    <2>4. CASE CallbackEnables
      BY <2>4 DEF CallbackEnables, CallbackStatus, EnableStatus, StopTimer
    <2>5. CASE Tick
      BY <2>5 DEF Tick, Elapse
    <2>6. CASE UNCHANGED vars
      BY <2>6 DEF vars, history
    <2> QED BY <2>1, <2>2, <2>3, <2>4, <2>5, <2>6 DEF Next
  <1> QED BY <1>1, <1>2, Invariance, PTL DEF Spec

(***************************************************************************)
(* StatusLock and RedisClient                                              *)
(***************************************************************************)

(* How many read locks a reader holds follows from where it is. *)
HoldsLocks ==
  \A r \in Readers :
    /\ pc[r] = "idle"    => r \notin blocked /\ held[r] = 0
    /\ pc[r] = "reading" => held[r] = IF r \in blocked THEN 0 ELSE 1
    /\ pc[r] = "testing" => held[r] = IF r \in blocked THEN 1 ELSE 2

(* Readers wait only for a controller, and a controller in its critical    *)
(* section is alone.                                                       *)
Exclusion ==
  /\ blocked # {} => writer # None
  /\ active => writer # None /\ \A r \in Readers : held[r] = 0

(* A reader tests groups of its client, and one that waits for its first   *)
(* lock has not tested a group yet.                                        *)
OwnGroups ==
  \A r \in Readers :
    /\ todo[r] \subseteq ClientGroups[r]
    /\ pc[r] = "reading" /\ r \in blocked =>
         todo[r] = ClientGroups[r] /\ result[r] = {}

LockInv == LockTypeOK /\ HoldsLocks /\ Exclusion /\ OneStatusPerQuery /\ OwnGroups

(* The lock and its users keep the inductive invariant. *)
THEOREM LockInvariance == LockSpec => []LockInv
  <1> USE ReadersAssumption
  <1>1. LockInit => LockInv
    <2> SUFFICES ASSUME LockInit PROVE LockInv
      OBVIOUS
    <2>1. LockTypeOK
      <3>1. held \in [Readers -> 0..2]
        BY DEF LockInit
      <3>2. /\ todo \in [Readers -> SUBSET Groups]
            /\ result \in [Readers -> SUBSET Groups]
        BY Zenon DEF LockInit
      <3>3. pc \in [Readers -> {"idle", "reading", "testing"}]
        BY DEF LockInit
      <3> QED BY Zenon, <3>1, <3>2, <3>3 DEF LockInit, LockTypeOK
    <2>2. HoldsLocks /\ Exclusion /\ OneStatusPerQuery /\ OwnGroups
      BY DEF LockInit, HoldsLocks, Exclusion, OneStatusPerQuery, OwnGroups
    <2> QED BY <2>1, <2>2 DEF LockInv
  <1>2. LockInv /\ [LockNext]_lockVars => LockInv'
    <2> SUFFICES ASSUME LockInv, [LockNext]_lockVars PROVE LockInv'
      OBVIOUS
    <2> USE DEF LockInv, LockTypeOK, HoldsLocks, Exclusion,
                OneStatusPerQuery, OwnGroups
    <2>1. ASSUME NEW r \in Readers, StartReading(r) PROVE LockInv'
      <3>1. CASE writer = None
        BY <2>1, <3>1 DEF StartReading, RLock
      <3>2. CASE writer # None
        BY <2>1, <3>2 DEF StartReading, RLock
      <3> QED BY <3>1, <3>2
    <2>2. ASSUME NEW r \in Readers, StartTest(r) PROVE LockInv'
      <3>1. CASE writer = None
        BY <2>2, <3>1 DEF StartTest, RLock, Running
      <3>2. CASE writer # None
        BY <2>2, <3>2 DEF StartTest, RLock, Running
      <3> QED BY <3>1, <3>2
    <2>3. ASSUME NEW r \in Readers, NEW g \in Groups, EndTest(r, g)
          PROVE  LockInv'
      <3> USE <2>3 DEF EndTest, RUnlock, Running
      <3>1. held[r] = 2 /\ held'[r] = 1 /\ pc'[r] = "reading" /\ writer' = writer
        OBVIOUS
      <3>2. LockTypeOK'
        BY <3>1
      <3>3. HoldsLocks' /\ OwnGroups'
        BY <3>1
      <3>4. Exclusion'
        BY <3>1
      <3>5. OneStatusPerQuery'
        BY <3>1
      <3> QED BY <3>2, <3>3, <3>4, <3>5
    <2>4. ASSUME NEW r \in Readers, StopReading(r) PROVE LockInv'
      BY <2>4 DEF StopReading, RUnlock, Running
    <2>5. ASSUME NEW c \in Controllers, CallLock(c) PROVE LockInv'
      BY <2>5 DEF CallLock
    <2>6. ASSUME NEW c \in Controllers, EnterLock(c) PROVE LockInv'
      BY <2>6 DEF EnterLock
    <2>7. ASSUME NEW c \in Controllers, NEW gs \in SUBSET Groups,
                 ChangeAndUnlock(c, gs)
          PROVE  LockInv'
      <3> USE <2>7 DEF ChangeAndUnlock
      <3>1. \A r \in Readers : /\ held[r] = 0
                               /\ held'[r] = IF r \in blocked THEN 1 ELSE 0
        OBVIOUS
      <3>2. LockTypeOK'
        <4>1. held' \in [Readers -> 0..2]
          <5>1. DOMAIN held' = Readers /\ held' = [r \in Readers |-> held'[r]]
            OBVIOUS
          <5> QED BY <3>1, <5>1
        <4> QED BY Zenon, <4>1
      <3>3. HoldsLocks' /\ Exclusion' /\ OwnGroups'
        BY <3>1
      <3>4. OneStatusPerQuery'
        BY <3>1
      <3> QED BY <3>2, <3>3, <3>4
    <2>8. CASE UNCHANGED lockVars
      BY <2>8 DEF lockVars
    <2> QED
      BY <2>1, <2>2, <2>3, <2>4, <2>5, <2>6, <2>7, <2>8
      DEF LockNext, Reader, Controller
  <1> QED
    BY <1>1, <1>2, PTL DEF LockSpec

(* Every reachable state is well typed; in particular no goroutine holds   *)
(* more than the two read locks of groupsToCheckForClient and              *)
(* isGroupDisabled.                                                        *)
THEOREM LockTypeCorrect == LockSpec => []LockTypeOK
  <1>1. LockInv => LockTypeOK
    BY DEF LockInv
  <1> QED
    BY <1>1, LockInvariance, PTL

(* A controller in its critical section is alone. *)
THEOREM ExclusionHolds == LockSpec => []Exclusion
  <1>1. LockInv => Exclusion
    BY DEF LockInv
  <1> QED
    BY <1>1, LockInvariance, PTL

(* A query sees one status, whatever the controllers do meanwhile. *)
THEOREM QuerySeesOneStatus == LockSpec => []OneStatusPerQuery
  <1>1. LockInv => OneStatusPerQuery
    BY DEF LockInv
  <1> QED
    BY <1>1, LockInvariance, PTL

(* The lock implements the atomic status, for any number of readers and    *)
(* controllers: asking is the first RLock, and the answer is the return.   *)
THEOREM LockIsAtomic == LockSpec => StatusIsAtomic
  <1> USE ReadersAssumption
  <1> DEFINE Asking == {r \in Readers : pc[r] # "idle"}
  <1>1. LockInit => Atomic!Init
    BY DEF LockInit, Atomic!Init, Answered
  <1>2. LockInv /\ [LockNext]_lockVars => [Atomic!Next]_(Atomic!vars)
    <2> SUFFICES ASSUME LockInv, [LockNext]_lockVars
                 PROVE  [Atomic!Next]_(Atomic!vars)
      OBVIOUS
    <2> USE DEF LockInv, LockTypeOK
    <2>1. ASSUME NEW r \in Readers, StartReading(r) PROVE Atomic!Ask(r)
      <3>1. pc[r] = "idle" /\ pc' = [pc EXCEPT ![r] = "reading"]
        BY <2>1 DEF StartReading
      <3>2. result' = [result EXCEPT ![r] = {}] /\ disabledGroups' = disabledGroups
        BY <2>1 DEF StartReading
      <3>3. r \notin Asking /\ Asking' = Asking \cup {r}
        BY <3>1
      <3>4. Answered' = [Answered EXCEPT ![r] = {}]
        BY Zenon, <3>1, <3>2 DEF Answered
      <3> QED BY <3>2, <3>3, <3>4 DEF Atomic!Ask
    <2>2. ASSUME NEW r \in Readers, StartTest(r) PROVE UNCHANGED Atomic!vars
      <3>1. pc[r] = "reading" /\ pc' = [pc EXCEPT ![r] = "testing"]
        BY <2>2 DEF StartTest, Running
      <3>2. result' = result /\ disabledGroups' = disabledGroups
        BY <2>2 DEF StartTest
      <3>3. Asking' = Asking /\ Answered' = Answered
        BY <3>1, <3>2 DEF Answered
      <3> QED BY <3>2, <3>3 DEF Atomic!vars
    <2>3. ASSUME NEW r \in Readers, NEW g \in Groups, EndTest(r, g)
          PROVE  UNCHANGED Atomic!vars
      <3>1. pc[r] = "testing" /\ pc' = [pc EXCEPT ![r] = "reading"]
        BY <2>3 DEF EndTest, Running
      <3>2. disabledGroups' = disabledGroups
            /\ result' = [result EXCEPT ![r] = @ \cup ({g} \ disabledGroups)]
        BY <2>3 DEF EndTest
      <3>3. Asking' = Asking /\ Answered' = Answered
        BY <3>1, <3>2 DEF Answered
      <3> QED BY <3>2, <3>3 DEF Atomic!vars
    <2>4. ASSUME NEW r \in Readers, StopReading(r) PROVE Atomic!Answer(r)
      <3>1. /\ pc[r] = "reading" /\ r \notin blocked /\ todo[r] = {}
            /\ pc' = [pc EXCEPT ![r] = "idle"]
            /\ result' = result /\ disabledGroups' = disabledGroups
        BY <2>4 DEF StopReading, Running
      <3>2. held[r] > 0
        BY <3>1 DEF HoldsLocks
      <3>3. result[r] = ClientGroups[r] \ disabledGroups
        BY <3>1, <3>2 DEF OneStatusPerQuery
      <3>4. r \in Asking /\ Asking' = Asking \ {r}
        BY <3>1
      <3>5. Answered' = [Answered EXCEPT ![r] = ClientGroups[r] \ disabledGroups]
        BY Zenon, <3>1, <3>3 DEF Answered
      <3> QED BY <3>1, <3>4, <3>5 DEF Atomic!Answer
    <2>5. ASSUME NEW c \in Controllers, CallLock(c) \/ EnterLock(c)
          PROVE  UNCHANGED Atomic!vars
      BY <2>5 DEF CallLock, EnterLock, Atomic!vars, Answered
    <2>6. ASSUME NEW c \in Controllers, NEW gs \in SUBSET Groups,
                 ChangeAndUnlock(c, gs)
          PROVE  Atomic!Change(gs)
      BY <2>6 DEF ChangeAndUnlock, Atomic!Change, Answered
    <2>7. CASE UNCHANGED lockVars
      BY <2>7 DEF lockVars, Atomic!vars, Answered
    <2> QED
      BY <2>1, <2>2, <2>3, <2>4, <2>5, <2>6, <2>7
      DEF LockNext, Reader, Controller, Atomic!Next
  <1> QED
    BY <1>1, <1>2, LockInvariance, PTL DEF LockSpec, StatusIsAtomic, Atomic!Spec

-----------------------------------------------------------------------------
(* isGroupDisabled is called for a group that is still to be tested. *)
TestsAGroup == \A r \in Readers : pc[r] = "testing" => todo[r] # {}

(* A reader that does not wait can take its next step. *)
ReaderGoesOn(r) ==
  \/ Running(r, "reading")
  \/ Running(r, "testing") /\ todo[r] # {}

(* A reader can take a step, or the controller that has called Lock can    *)
(* enter its critical section or leave it.                                 *)
LockGoesOn ==
  \/ \E r \in Readers : ReaderGoesOn(r)
  \/ writer # None /\ (active \/ \A r \in Readers : held[r] = 0)

(* Whoever uses the lock of the status, somebody can go on, unless a Lock  *)
(* has come between the two RLocks of a reader.                            *)
OnlyNestedLockStops ==
  writer # None \/ (\E r \in Readers : pc[r] # "idle") => LockGoesOn \/ Stuck

(* The nested RLock of groupsToCheckForClient is the only deadlock of the  *)
(* lock, for any number of readers and controllers.                        *)
THEOREM OnlyNestedLockEverStops == LockSpec => []OnlyNestedLockStops
  <1>1. LockInit => TestsAGroup
    BY DEF LockInit, TestsAGroup
  <1>2. LockInv /\ TestsAGroup /\ [LockNext]_lockVars => TestsAGroup'
    <2> SUFFICES ASSUME LockInv, TestsAGroup, [LockNext]_lockVars PROVE TestsAGroup'
      OBVIOUS
    <2> USE DEF LockInv, LockTypeOK, TestsAGroup
    <2>1. ASSUME NEW r \in Readers, StartReading(r) PROVE TestsAGroup'
      BY <2>1 DEF StartReading
    <2>2. ASSUME NEW r \in Readers, StartTest(r) PROVE TestsAGroup'
      BY <2>2 DEF StartTest
    <2>3. ASSUME NEW r \in Readers, NEW g \in Groups, EndTest(r, g)
          PROVE  TestsAGroup'
      BY <2>3 DEF EndTest
    <2>4. ASSUME NEW r \in Readers, StopReading(r) PROVE TestsAGroup'
      BY <2>4 DEF StopReading
    <2>5. ASSUME NEW c \in Controllers, CallLock(c) \/ EnterLock(c)
          PROVE  TestsAGroup'
      BY <2>5 DEF CallLock, EnterLock
    <2>6. ASSUME NEW c \in Controllers, NEW gs \in SUBSET Groups, ChangeAndUnlock(c, gs)
          PROVE  TestsAGroup'
      BY <2>6 DEF ChangeAndUnlock
    <2>7. CASE UNCHANGED lockVars
      BY <2>7 DEF lockVars
    <2> QED
      BY <2>1, <2>2, <2>3, <2>4, <2>5, <2>6, <2>7 DEF LockNext, Reader, Controller
  <1>3. LockInv /\ TestsAGroup => OnlyNestedLockStops
    <2> SUFFICES ASSUME LockInv, TestsAGroup, ~Stuck,
                        writer # None \/ \E r \in Readers : pc[r] # "idle"
                 PROVE  LockGoesOn
      BY DEF OnlyNestedLockStops
    <2>1. \A r \in Readers : pc[r] # "idle" /\ r \notin blocked => ReaderGoesOn(r)
      BY DEF LockInv, LockTypeOK, TestsAGroup, ReaderGoesOn, Running
    <2>2. CASE writer = None
      BY <2>1, <2>2 DEF LockInv, Exclusion, LockGoesOn
    <2>3. CASE writer # None /\ \E r \in Readers : held[r] # 0
      <3>1. PICK r \in Readers : held[r] # 0
        BY <2>3
      <3>2. pc[r] # "idle" /\ r \notin blocked
        BY <3>1 DEF LockInv, LockTypeOK, HoldsLocks, Stuck
      <3> QED BY <2>1, <3>2 DEF LockGoesOn
    <2>4. CASE writer # None /\ \A r \in Readers : held[r] = 0
      BY <2>4 DEF LockGoesOn
    <2> QED BY <2>2, <2>3, <2>4
  <1> QED BY <1>1, <1>2, <1>3, LockInvariance, PTL DEF LockSpec

(* Nobody frees a reader and a controller that wait for each other. *)
StuckForEver == [][Stuck => Stuck']_lockVars

(* The deadlock lasts: the reader keeps its first read lock, so the        *)
(* controller never enters, never unlocks, and admits no reader.           *)
THEOREM StuckRemains == LockSpec => StuckForEver
  <1>1. LockInv /\ [LockNext]_lockVars => [Stuck => Stuck']_lockVars
    <2> SUFFICES ASSUME LockInv, LockNext, Stuck PROVE Stuck'
      OBVIOUS
    <2> USE DEF LockInv, LockTypeOK
    <2>1. PICK s \in Readers : pc[s] = "testing" /\ s \in blocked
      BY DEF Stuck
    <2>2. held[s] = 1 /\ writer # None /\ ~active
      BY <2>1 DEF HoldsLocks, Exclusion
    <2>3. ASSUME NEW r \in Readers, StartReading(r) \/ Reader(r) PROVE Stuck'
      <3>1. r # s
        BY <2>1, <2>3 DEF StartReading, Reader, StartTest, EndTest, StopReading, Running
      <3>2. blocked \subseteq blocked'
        BY <2>3 DEF StartReading, Reader, StartTest, EndTest, StopReading, RLock, RUnlock
      <3>3. pc'[s] = pc[s]
        BY <2>3, <3>1 DEF StartReading, Reader, StartTest, EndTest, StopReading
      <3> QED BY <2>1, <3>2, <3>3 DEF Stuck
    <2>4. ASSUME NEW c \in Controllers, CallLock(c) \/ Controller(c) PROVE FALSE
      BY <2>2, <2>4 DEF CallLock, Controller, EnterLock, ChangeAndUnlock
    <2> QED BY <2>3, <2>4 DEF LockNext
  <1> QED BY <1>1, LockInvariance, PTL DEF LockSpec, StuckForEver

-----------------------------------------------------------------------------
(* Whatever queries, worker and subscriber do, the lock and the status     *)
(* only take steps of StatusLock.                                          *)
THEOREM UsesTheLock == RedisSpec => LockSpec
  <1>1. RedisInit => LockInit
    BY DEF RedisInit
  <1>2. [RedisNext]_allVars => [LockNext]_lockVars
    <2> SUFFICES ASSUME [RedisNext]_allVars PROVE [LockNext]_lockVars
      OBVIOUS
    <2>1. ASSUME NEW r \in Readers, QueryStarts(r) \/ QueryStep(r)
          PROVE  LockNext
      BY <2>1 DEF QueryStarts, QueryStep, QueryTests, QueryHasGroups, LockNext, Reader
    <2>2. ASSUME NEW r \in Readers, PublishCache(r) PROVE UNCHANGED lockVars
      BY <2>2 DEF PublishCache
    <2>3. ASSUME NEW kind, Receive(kind) PROVE UNCHANGED lockVars
      BY <2>3 DEF Receive
    <2>4. ASSUME \/ HandOnEnabled \/ HandOnCache \/ PublishMessageFromBuffer
                 \/ GetRedisCache \/ TakeCacheMessage \/ TakeEnabledMessage
          PROVE  UNCHANGED lockVars
      BY <2>4 DEF HandOnEnabled, HandOnCache, PublishMessageFromBuffer,
                  GetRedisCache, TakeCacheMessage, TakeEnabledMessage
    <2>5. ASSUME NEW c \in Controllers, ControllerCalls(c) \/ ControllerStep(c)
          PROVE  LockNext
      BY <2>5 DEF ControllerCalls, ControllerStep, ControllerEnters,
                  ControllerChanges, LockNext, Controller
    <2>6. CASE UNCHANGED allVars
      BY <2>6 DEF allVars
    <2> QED BY <2>1, <2>2, <2>3, <2>4, <2>5, <2>6 DEF RedisNext
  <1> QED BY <1>1, <1>2, PTL DEF RedisSpec, LockSpec

(* The channels keep their bounds, and only queries publish, for any       *)
(* number of readers and controllers and any capacity.                     *)
THEOREM RedisTypeCorrect == RedisSpec => []RedisTypeOK
  <1> USE ChannelsAssumption
  <1> DEFINE Rest == /\ publishing \in SUBSET Queries
                     /\ {sendBuffer, enabledChannel, cacheChannel} \subseteq 0..ChanCap
                     /\ worker \in {"select", "enabled", "cache"}
                     /\ applying \in BOOLEAN
                     /\ stored \in 0..Stored
  <1>1. RedisInit => Rest
    <2> SUFFICES ASSUME RedisInit PROVE Rest
      OBVIOUS
    <2>1. 0 \in 0..ChanCap /\ Stored \in 0..Stored
      OBVIOUS
    <2> QED BY Zenon, <2>1 DEF RedisInit
  <1>2. Rest /\ [RedisNext]_allVars => Rest'
    <2> SUFFICES ASSUME Rest, [RedisNext]_allVars PROVE Rest'
      OBVIOUS
    <2>1. ASSUME NEW r \in Readers, QueryStarts(r) \/ QueryStep(r) PROVE Rest'
      BY <2>1 DEF QueryStarts, QueryStep, QueryTests, QueryHasGroups,
                  channels, goroutines
    <2>2. ASSUME NEW r \in Readers, PublishCache(r) PROVE Rest'
      BY <2>2 DEF PublishCache
    <2>3. ASSUME NEW kind \in {"enabled", "cache"}, Receive(kind) PROVE Rest'
      BY <2>3 DEF Receive, channels
    <2>4. CASE HandOnEnabled
      BY <2>4 DEF HandOnEnabled
    <2>5. CASE HandOnCache
      BY <2>5 DEF HandOnCache
    <2>6. CASE PublishMessageFromBuffer
      BY <2>6 DEF PublishMessageFromBuffer, goroutines
    <2>7. CASE GetRedisCache
      BY <2>7 DEF GetRedisCache
    <2>8. CASE TakeCacheMessage
      BY <2>8 DEF TakeCacheMessage, goroutines
    <2>9. CASE TakeEnabledMessage
      BY <2>9 DEF TakeEnabledMessage
    <2>10. ASSUME NEW c \in Controllers, ControllerCalls(c) \/ ControllerEnters(c)
           PROVE  Rest'
      BY <2>10 DEF ControllerCalls, ControllerEnters, channels, goroutines
    <2>11. ASSUME NEW c \in Controllers, NEW gs \in SUBSET Groups,
                  ControllerChanges(c, gs)
           PROVE  Rest'
      BY <2>11 DEF ControllerChanges, channels
    <2>12. CASE UNCHANGED allVars
      BY <2>12 DEF allVars, channels, goroutines
    <2> QED
      BY <2>1, <2>2, <2>3, <2>4, <2>5, <2>6, <2>7, <2>8, <2>9, <2>10, <2>11,
         <2>12
      DEF RedisNext, ControllerStep
  <1>3. Rest /\ LockTypeOK => RedisTypeOK
    BY DEF RedisTypeOK
  <1> QED BY <1>1, <1>2, <1>3, UsesTheLock, LockTypeCorrect, PTL DEF RedisSpec

(* With the channels around the lock a query still gets the groups of one  *)
(* moment, and a change still excludes all readers.                        *)
THEOREM RedisKeepsStatusAtomic == RedisSpec => StatusIsAtomic /\ []OneStatusPerQuery
  BY UsesTheLock, LockIsAtomic, QuerySeesOneStatus, PTL

-----------------------------------------------------------------------------
(* The subscriber of the blocking resolver goes on, or somebody who uses   *)
(* the lock that it waits for.                                             *)
SubscriberGoesOn ==
  \/ ~applying /\ enabledChannel > 0
  \/ applying /\ (writer = None \/ LockGoesOn)

(* The worker goes on, or the subscriber that it waits for. *)
WorkerGoesOn ==
  \/ worker = "select" /\ sendBuffer > 0
  \/ worker = "enabled" /\ (enabledChannel < ChanCap \/ SubscriberGoesOn)
  \/ worker = "cache" /\ (cacheChannel < ChanCap \/ cacheChannel > 0)

(* Whoever waits, the one at the end of the line can go on: queries wait   *)
(* for the worker, the worker for a subscriber, the subscriber for the     *)
(* lock, and nobody who has the lock waits for any of them.                *)
NobodyWaitsInVain ==
  \/ Stuck
  \/ /\ writer # None \/ (\E r \in Readers : pc[r] # "idle") => LockGoesOn
     /\ applying => SubscriberGoesOn
     /\ worker # "select" => WorkerGoesOn
     /\ publishing # {} => sendBuffer < ChanCap \/ WorkerGoesOn
     /\ stored > 0 => cacheChannel < ChanCap \/ cacheChannel > 0

(* The channels of the redis client, full or not, and the lock of the      *)
(* status have no circle of waits but the one of the nested RLock, for any *)
(* capacity and any number of queries and controllers.                     *)
THEOREM NobodyEverWaitsInVain == RedisSpec => []NobodyWaitsInVain
  <1>1. RedisTypeOK /\ OnlyNestedLockStops => NobodyWaitsInVain
    <2> SUFFICES ASSUME RedisTypeOK, OnlyNestedLockStops, ~Stuck
                 PROVE  NobodyWaitsInVain
      BY Zenon DEF NobodyWaitsInVain
    <2>1. /\ sendBuffer \in Nat /\ enabledChannel \in Nat /\ cacheChannel \in Nat
          /\ ChanCap \in Nat /\ ChanCap > 0
      BY ChannelsAssumption DEF RedisTypeOK
    <2>2. writer # None \/ (\E r \in Readers : pc[r] # "idle") => LockGoesOn
      BY Zenon DEF OnlyNestedLockStops
    <2>3. applying => SubscriberGoesOn
      BY Zenon, <2>2 DEF SubscriberGoesOn
    <2>4. enabledChannel < ChanCap \/ SubscriberGoesOn
      <3>1. enabledChannel < ChanCap \/ enabledChannel > 0
        BY <2>1
      <3> QED BY Zenon, <2>3, <3>1 DEF SubscriberGoesOn
    <2>5. cacheChannel < ChanCap \/ cacheChannel > 0
      BY <2>1
    <2>6. worker # "select" => WorkerGoesOn
      BY Zenon, <2>4, <2>5 DEF RedisTypeOK, WorkerGoesOn
    <2>7. sendBuffer < ChanCap \/ WorkerGoesOn
      <3>1. sendBuffer < ChanCap \/ sendBuffer > 0
        BY <2>1
      <3> QED BY Zenon, <2>6, <3>1 DEF WorkerGoesOn
    <2> QED BY Zenon, <2>2, <2>3, <2>5, <2>6, <2>7 DEF NobodyWaitsInVain
  <1> QED BY <1>1, UsesTheLock, OnlyNestedLockEverStops, RedisTypeCorrect, PTL
=============================================================================
