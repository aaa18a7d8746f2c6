------------------------ MODULE BlockingStatusProofs ------------------------
(***************************************************************************)
(* Lemmas about the operations of BlockingStatus, one for each critical    *)
(* section, for every set of groups.  BlockingProofs and                   *)
(* BlockingSyncProofs rest on them.                                        *)
(***************************************************************************)
EXTENDS BlockingStatus, TLAPS

(* What every operation of the resolver preserves. *)
GoodStatus(s) == s \in Status /\ Consistent(s) /\ TimerMatches(s)

(* A new resolver starts with a good status. *)
LEMMA InitGood == GoodStatus(InitStatus)
  BY DEF GoodStatus, InitStatus, Status, Consistent, TimerMatches, TimeLeft,
         Stopped

(* internalEnableBlocking. *)
LEMMA EnableGood ==
  ASSUME NEW s, GoodStatus(s)
  PROVE  GoodStatus(EnableStatus(s))
  BY DEF GoodStatus, EnableStatus, StopTimer, Status, Consistent,
         TimerMatches, TimeLeft, Stopped

(* internalDisableBlocking, accepted or rejected. *)
LEMMA DisableGood ==
  ASSUME NEW s, GoodStatus(s), NEW d \in Int, NEW gs
  PROVE  GoodStatus(DisableStatus(s, d, gs))
  <1>1. CASE KnownGroups(gs)
    <2> DEFINE t == AcceptStatus(s, d, gs)
               off == IF gs = {} THEN AllBlockingGroups ELSE gs
    <2>1. off \subseteq AllBlockingGroups /\ off # {}
      BY <1>1 DEF KnownGroups, AllBlockingGroups
    <2>2. AtLeastZero(d) \in Nat
      BY DEF AtLeastZero
    <2>3. t \in Status
      BY <2>1, <2>2 DEF GoodStatus, AcceptStatus, Status, TimeLeft, Stopped
    <2>4. Consistent(t)
      BY <2>1, <2>3 DEF GoodStatus, AcceptStatus, Status, Consistent
    <2>5. TimerMatches(t)
      BY <2>2, <2>3 DEF GoodStatus, AcceptStatus, Status, TimerMatches,
                        TimeLeft, Stopped
    <2> QED
      BY <1>1, <2>3, <2>4, <2>5 DEF DisableStatus, GoodStatus
  <1>2. CASE ~KnownGroups(gs)
    BY <1>2 DEF GoodStatus, DisableStatus, RejectStatus, StopTimer, Status,
                Consistent, TimerMatches, TimeLeft, Stopped
  <1> QED
    BY <1>1, <1>2

(* The passing of time. *)
LEMMA ElapseGood ==
  ASSUME NEW s, GoodStatus(s)
  PROVE  GoodStatus(Elapse(s))
  <1> DEFINE t == Elapse(s)
             timer == IF s.timer > 0 THEN s.timer - 1 ELSE s.timer
             end == IF s.disableEnd > 0 THEN s.disableEnd - 1 ELSE s.disableEnd
  <1>1. t \in Status
    <2>1. timer \in TimeLeft /\ end \in Nat
      BY DEF GoodStatus, Status, TimeLeft, Stopped
    <2>2. t = [s EXCEPT !.timer = timer, !.disableEnd = end]
      BY DEF Elapse
    <2> HIDE DEF timer, end, t
    <2> QED
      BY <2>1, <2>2 DEF GoodStatus, Status
  <1>2. Consistent(t)
    BY DEF GoodStatus, Status, Consistent, Elapse
  <1>3. TimerMatches(t)
    BY DEF GoodStatus, Status, TimerMatches, TimeLeft, Stopped,
           Elapse
  <1> QED
    BY <1>1, <1>2, <1>3 DEF GoodStatus

(* A due timer starts its callback. *)
LEMMA FireGood ==
  ASSUME NEW s, GoodStatus(s)
  PROVE  GoodStatus(FireStatus(s))
  <1> DEFINE t == FireStatus(s)
  <1>1. t \in Status
    <2>1. s.callbacks + 1 \in Nat /\ Stopped \in TimeLeft
      BY DEF GoodStatus, Status, TimeLeft
    <2> QED
      BY <2>1 DEF GoodStatus, Status, FireStatus
  <1>2. Consistent(t)
    BY DEF GoodStatus, Status, Consistent, FireStatus
  <1>3. TimerMatches(t)
    BY DEF GoodStatus, Status, TimerMatches, TimeLeft, Stopped,
           FireStatus
  <1> QED
    BY <1>1, <1>2, <1>3 DEF GoodStatus

(* A callback gets the lock. *)
LEMMA CallbackGood ==
  ASSUME NEW s, GoodStatus(s), s.callbacks > 0
  PROVE  GoodStatus(CallbackStatus(s))
  <1> DEFINE e == EnableStatus(s)
  <1>1. GoodStatus(e) /\ e.callbacks = s.callbacks
    BY EnableGood DEF EnableStatus, StopTimer, GoodStatus, Status
  <1>2. e.callbacks - 1 \in Nat
    BY <1>1 DEF GoodStatus, Status
  <1> HIDE DEF e
  <1>3. [e EXCEPT !.callbacks = @ - 1] \in Status
    BY <1>1, <1>2 DEF GoodStatus, Status
  <1>4. GoodStatus([e EXCEPT !.callbacks = @ - 1])
    BY <1>1, <1>3 DEF GoodStatus, Consistent, TimerMatches, Status
  <1> QED
    BY <1>4 DEF CallbackStatus, e
=============================================================================
