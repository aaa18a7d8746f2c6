--------------------------- MODULE BlockingStatus ---------------------------
(***************************************************************************)
(* The `status` struct of the blocking resolver and the operations on it   *)
(* (resolver/blocking_resolver.go).  Every operation runs under the write  *)
(* lock of the struct, so each one is a function from the status before to *)
(* the status after.  The state machines that call them are in Blocking    *)
(* (one resolver) and BlockingSync (several resolvers behind redis).       *)
(*                                                                         *)
(* Time is relative: `timer` and `disableEnd` hold the time that is left,  *)
(* which Elapse lets pass.                                                 *)
(***************************************************************************)
EXTENDS Integers

CONSTANTS
  DenylistGroups,  \* keys of cfg.Denylists
  DefaultGroup,    \* the group named "default"
  Durations        \* durations a caller may ask for; 0 is "forever"

ASSUME DurationsAssumption == Durations \subseteq Int

(* retrieveAllBlockingGroups: a group that has only an allowlist is not    *)
(* among them.                                                             *)
AllBlockingGroups == DenylistGroups \cup {DefaultGroup}

(* The value of `timer` when enableTimer will not fire: it was stopped, or *)
(* it has fired already.                                                   *)
Stopped == -1

TimeLeft == Nat \cup {Stopped}

(***************************************************************************)
(* enabled, disabledGroups  the fields of the struct                       *)
(* timer        time until enableTimer fires, or Stopped                   *)
(* disableEnd   time until disableEnd, 0 once it has passed                *)
(* callbacks    callbacks of fired timers that do not have the lock yet;   *)
(*              Timer.Stop has no effect on them                           *)
(* gauge        the metric that follows BlockingEnabledEvent               *)
(***************************************************************************)
Status ==
  [enabled        : BOOLEAN,
   disabledGroups : SUBSET AllBlockingGroups,
   timer          : TimeLeft,
   disableEnd     : Nat,
   callbacks      : Nat,
   gauge          : BOOLEAN]

InitStatus ==
  [enabled |-> TRUE, disabledGroups |-> {}, timer |-> Stopped,
   disableEnd |-> 0, callbacks |-> 0, gauge |-> TRUE]

-----------------------------------------------------------------------------
AtLeastZero(d) == IF d > 0 THEN d ELSE 0

StopTimer(s) == [s EXCEPT !.timer = Stopped]

(* Mistake: the disabled groups are not reset. *)
EnableStatusKeepsGroups(s) ==
  [StopTimer(s) EXCEPT !.enabled = TRUE, !.gauge = TRUE]

(* Mistake: the timer is not stopped. *)
EnableStatusKeepsTimer(s) ==
  [s EXCEPT !.enabled = TRUE, !.disabledGroups = {}, !.gauge = TRUE]

EnableStatus(s) ==
  [StopTimer(s) EXCEPT !.enabled = TRUE,
                       !.disabledGroups = {},
                       !.gauge = TRUE]

(* internalDisableBlocking knows every group it was asked to disable. *)
KnownGroups(gs) == gs \subseteq AllBlockingGroups

(* A rejected call returns after the timer has been stopped. *)
RejectStatus(s) == StopTimer(s)

(* Mistake: the duration is rounded down. *)
AcceptStatusTooShort(s, d, gs) ==
  [s EXCEPT !.disabledGroups = IF gs = {} THEN AllBlockingGroups ELSE gs,
            !.enabled = FALSE,
            !.gauge = FALSE,
            !.disableEnd = AtLeastZero(d - 1),
            !.timer = IF d = 0 THEN Stopped ELSE AtLeastZero(d - 1)]

(* Mistake: the timer is not armed. *)
AcceptStatusUnarmed(s, d, gs) ==
  [s EXCEPT !.disabledGroups = IF gs = {} THEN AllBlockingGroups ELSE gs,
            !.enabled = FALSE,
            !.gauge = FALSE,
            !.disableEnd = AtLeastZero(d),
            !.timer = Stopped]

AcceptStatus(s, d, gs) ==
  [s EXCEPT !.disabledGroups = IF gs = {} THEN AllBlockingGroups ELSE gs,
            !.enabled = FALSE,
            !.gauge = FALSE,
            !.disableEnd = AtLeastZero(d),
            !.timer = IF d = 0 THEN Stopped ELSE AtLeastZero(d)]

DisableStatus(s, d, gs) ==
  IF KnownGroups(gs) THEN AcceptStatus(s, d, gs) ELSE RejectStatus(s)

-----------------------------------------------------------------------------
(* One unit of time passes. *)
Elapse(s) ==
  [s EXCEPT !.timer = IF @ > 0 THEN @ - 1 ELSE @,
            !.disableEnd = IF @ > 0 THEN @ - 1 ELSE @]

(* The runtime starts the callback of a due timer in a goroutine. *)
TimerDue(s) == s.timer = 0

FireStatus(s) == [s EXCEPT !.timer = Stopped, !.callbacks = @ + 1]

(* A callback gets the lock and enables blocking. *)
CallbackStatus(s) == [EnableStatus(s) EXCEPT !.callbacks = @ - 1]

-----------------------------------------------------------------------------
(* Blocking is enabled exactly when no group is disabled, and the metric   *)
(* says the same.                                                          *)
Consistent(s) ==
  /\ s.enabled <=> s.disabledGroups = {}
  /\ s.gauge = s.enabled

(* An armed timer belongs to the disable in force, and it is the one whose *)
(* end BlockingStatus reports.                                             *)
TimerMatches(s) ==
  s.timer # Stopped => ~s.enabled /\ s.timer = s.disableEnd
=============================================================================
