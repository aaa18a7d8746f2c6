----------------------------- MODULE AtomicStatus ---------------------------
(***************************************************************************)
(* What the blocking status promises to the queries that read it: a query  *)
(* asks for the groups to check, and at one moment before it returns it    *)
(* gets the groups of its client that are not disabled at that moment.     *)
(* There are no locks and no partial results.                              *)
(***************************************************************************)
CONSTANTS Readers, Groups, ClientGroups

VARIABLES
  disabledGroups,  \* groups that are disabled
  asking,          \* readers that wait for their groups
  answer           \* answer[r]: the groups that r got last

vars == <<disabledGroups, asking, answer>>

Init ==
  /\ disabledGroups = {}
  /\ asking = {}
  /\ answer = [r \in Readers |-> {}]

Ask(r) ==
  /\ r \notin asking
  /\ asking' = asking \cup {r}
  /\ answer' = [answer EXCEPT ![r] = {}]
  /\ UNCHANGED disabledGroups

Answer(r) ==
  /\ r \in asking
  /\ asking' = asking \ {r}
  /\ answer' = [answer EXCEPT ![r] = ClientGroups[r] \ disabledGroups]
  /\ UNCHANGED disabledGroups

Change(gs) ==
  /\ disabledGroups' = gs
  /\ UNCHANGED <<asking, answer>>

Next ==
  \/ \E r \in Readers : Ask(r) \/ Answer(r)
  \/ \E gs \in SUBSET Groups : Change(gs)

Spec == Init /\ [][Next]_vars
=============================================================================
