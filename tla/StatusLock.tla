----------------------------- MODULE StatusLock -----------------------------
(***************************************************************************)
(* The read-write lock of the blocking status and the goroutines that take *)
(* it: queries that compute their groups (groupsToCheckForClient, which    *)
(* calls isGroupDisabled while it holds the lock), calls of BlockingStatus *)
(* (a reader with no group to test) and controllers, which change the      *)
(* disabled groups (internalEnableBlocking, internalDisableBlocking).      *)
(*                                                                         *)
(* The lock is Go's sync.RWMutex: a controller that has called Lock waits  *)
(* for the readers inside, and until it has unlocked every later RLock     *)
(* blocks; Unlock admits all the blocked readers.                          *)
(***************************************************************************)
EXTENDS Naturals

CONSTANTS
  Readers,       \* goroutines that read the status
  Controllers,   \* goroutines that change it
  Groups,        \* names of groups
  ClientGroups,  \* ClientGroups[r]: the groups r has to test
  None           \* no controller

ASSUME ReadersAssumption ==
  /\ ClientGroups \in [Readers -> SUBSET Groups]
  /\ None \notin Controllers

VARIABLES
  disabledGroups,  \* r.status.disabledGroups
  held,            \* held[r]: read locks that r holds
  blocked,         \* readers that wait in RLock
  writer,          \* the controller that has called Lock and not unlocked
  active,          \* that controller is in its critical section
  pc,              \* pc[r]: outside, under the first or the nested RLock
  todo,            \* todo[r]: groups that r has not tested yet
  result           \* result[r]: tested groups that were not disabled

lockVars == <<disabledGroups, held, blocked, writer, active, pc, todo, result>>

LockInit ==
  /\ disabledGroups = {}
  /\ held = [r \in Readers |-> 0]
  /\ blocked = {}
  /\ writer = None
  /\ active = FALSE
  /\ pc = [r \in Readers |-> "idle"]
  /\ todo = [r \in Readers |-> {}]
  /\ result = [r \in Readers |-> {}]

-----------------------------------------------------------------------------
(* RLock: at once when no controller has called Lock, else r blocks. *)
RLock(r) ==
  IF writer = None
  THEN held' = [held EXCEPT ![r] = @ + 1] /\ UNCHANGED blocked
  ELSE blocked' = blocked \cup {r} /\ UNCHANGED held

RUnlock(r) ==
  /\ held' = [held EXCEPT ![r] = @ - 1]
  /\ UNCHANGED blocked

Running(r, at) == pc[r] = at /\ r \notin blocked

(* groupsToCheckForClient collects the groups of the client. *)
StartReading(r) ==
  /\ pc[r] = "idle"
  /\ RLock(r)
  /\ pc' = [pc EXCEPT ![r] = "reading"]
  /\ todo' = [todo EXCEPT ![r] = ClientGroups[r]]
  /\ result' = [result EXCEPT ![r] = {}]
  /\ UNCHANGED <<disabledGroups, writer, active>>

(* It calls isGroupDisabled for one of them. *)
StartTest(r) ==
  /\ Running(r, "reading")
  /\ todo[r] # {}
  /\ RLock(r)
  /\ pc' = [pc EXCEPT ![r] = "testing"]
  /\ UNCHANGED <<disabledGroups, writer, active, todo, result>>

EndTest(r, g) ==
  /\ Running(r, "testing")
  /\ g \in todo[r]
  /\ todo' = [todo EXCEPT ![r] = @ \ {g}]
  /\ result' = [result EXCEPT ![r] = @ \cup ({g} \ disabledGroups)]
  /\ RUnlock(r)
  /\ pc' = [pc EXCEPT ![r] = "reading"]
  /\ UNCHANGED <<disabledGroups, writer, active>>

(* Mistake: it returns before it has tested all groups. *)
StopReadingEarly(r) ==
  /\ Running(r, "reading")
  /\ RUnlock(r)
  /\ pc' = [pc EXCEPT ![r] = "idle"]
  /\ UNCHANGED <<disabledGroups, writer, active, todo, result>>

(* It returns the groups that are not disabled. *)
StopReading(r) ==
  /\ Running(r, "reading")
  /\ todo[r] = {}
  /\ RUnlock(r)
  /\ pc' = [pc EXCEPT ![r] = "idle"]
  /\ UNCHANGED <<disabledGroups, writer, active, todo, result>>

-----------------------------------------------------------------------------
CallLock(c) ==
  /\ writer = None
  /\ writer' = c
  /\ UNCHANGED <<disabledGroups, held, blocked, active, pc, todo, result>>

EnterLock(c) ==
  /\ writer = c /\ ~active
  /\ \A r \in Readers : held[r] = 0
  /\ active' = TRUE
  /\ UNCHANGED <<disabledGroups, held, blocked, writer, pc, todo, result>>

(* The body of the critical section and the deferred Unlock. *)
ChangeAndUnlock(c, gs) ==
  /\ writer = c /\ active
  /\ disabledGroups' = gs
  /\ writer' = None
  /\ active' = FALSE
  /\ held' = [r \in Readers |-> IF r \in blocked THEN held[r] + 1 ELSE held[r]]
  /\ blocked' = {}
  /\ UNCHANGED <<pc, todo, result>>

-----------------------------------------------------------------------------
Reader(r) ==
  \/ StartTest(r)
  \/ \E g \in Groups : EndTest(r, g)
  \/ StopReading(r)

Controller(c) ==
  \/ EnterLock(c)
  \/ \E gs \in SUBSET Groups : ChangeAndUnlock(c, gs)

LockNext ==
  \/ \E r \in Readers : StartReading(r) \/ Reader(r)
  \/ \E c \in Controllers : CallLock(c) \/ Controller(c)

LockSpec == LockInit /\ [][LockNext]_lockVars

(* A goroutine that can go on goes on; no query and no call has to come. *)
LockFairSpec ==
  /\ LockSpec
  /\ \A r \in Readers : WF_lockVars(Reader(r))
  /\ \A c \in Controllers : WF_lockVars(Controller(c))

-----------------------------------------------------------------------------
(* Types of the variables. *)
LockTypeOK ==
  /\ disabledGroups \in SUBSET Groups
  /\ held \in [Readers -> 0..2]
  /\ blocked \in SUBSET Readers
  /\ writer \in Controllers \cup {None}
  /\ active \in BOOLEAN
  /\ pc \in [Readers -> {"idle", "reading", "testing"}]
  /\ todo \in [Readers -> SUBSET Groups]
  /\ result \in [Readers -> SUBSET Groups]

(* The groups that groupsToCheckForClient has collected so far are those   *)
(* of one status: what a reader inside has accepted is exactly what it has *)
(* tested less the groups that are disabled now.                           *)
OneStatusPerQuery ==
  \A r \in Readers :
    held[r] > 0 =>
      result[r] = (ClientGroups[r] \ todo[r]) \ disabledGroups

(* What a reader gets, while it waits nothing. *)
Answered == [r \in Readers |-> IF pc[r] = "idle" THEN result[r] ELSE {}]

Atomic == INSTANCE AtomicStatus WITH
  asking <- {r \in Readers : pc[r] # "idle"},
  answer <- Answered

(* Seen from outside, groupsToCheckForClient and the changes of the status *)
(* are atomic: the lock makes each query get the groups of one moment      *)
(* between its call and its return.                                        *)
StatusIsAtomic == Atomic!Spec

(* A goroutine that has started to read the status gets its groups. *)
ReaderReturns ==
  \A r \in Readers : pc[r] # "idle" ~> pc[r] = "idle"

(* A reader waits for the controller that waits for it. *)
Stuck == \E r \in Readers : pc[r] = "testing" /\ r \in blocked
=============================================================================
