------------------------------ MODULE ListCache -----------------------------
(***************************************************************************)
(* The lists of a blocking resolver (lists/list_cache.go) on top of the    *)
(* chained grouped cache (cache/stringcache).  A list is kept in three     *)
(* caches, one per kind of entry.  A refresh of a group collects a whole   *)
(* new list and then replaces the group in the three caches, one cache     *)
(* after the other; a lookup asks the three caches in the same order, one  *)
(* group after the other, and takes the lock of a cache for each group.    *)
(*                                                                         *)
(* A refresh runs in the periodic goroutine or in one of an API call;      *)
(* nothing keeps two of them apart.                                        *)
(***************************************************************************)
EXTENDS Naturals, FiniteSets

CONSTANTS
  Groups,      \* groups of the configuration
  Names,       \* names that are looked up
  Sources,     \* sources of a group
  Contents,    \* lists a source may deliver, cut off ones included
  Refreshers,  \* goroutines that refresh
  MaxImports   \* bound: lists that are accepted for a group

(* regex, wildcard, string: the order of NewChainedGroupedCache. *)
Kinds == 1..3

(* A list: the names that its entries of each kind match. *)
List == [Kinds -> SUBSET Names]

ASSUME ListAssumption == Contents \subseteq List /\ MaxImports \in Nat

Nothing == [k \in Kinds |-> {}]

NamesOf(list) == UNION {list[k] : k \in Kinds}

VARIABLES
  caches,    \* caches[k][g]: what cache k holds for group g
  stage,     \* stage[r][g]: what r does for group g
  built,     \* built[r][g]: list that r has collected for g
  accepted,  \* history: lists that were accepted for g, the first one included
  last,      \* history: the one accepted last
  alone,     \* history: no other refresh was in Finish at that time
  lookup     \* the lookup that is running

vars == <<caches, stage, built, accepted, last, alone, lookup>>

(* Stages of a refresh: not running, collecting, or about to replace the   *)
(* group in cache k.                                                       *)
Idle == 0
Collecting == 4

NoLookup == [name |-> "none", kind |-> Idle, groups |-> {}, todo |-> {},
             found |-> {}]

Listed(g) == [k \in Kinds |-> caches[k][g]]

(* The first load has ended, with a list or, after errors, without one. *)
Init ==
  \E first \in [Groups -> Contents \cup {Nothing}] :
    /\ caches = [k \in Kinds |-> [g \in Groups |-> first[g][k]]]
    /\ accepted = [g \in Groups |-> {first[g]}]
    /\ last = first
    /\ alone = [g \in Groups |-> TRUE]
    /\ stage = [r \in Refreshers |-> [g \in Groups |-> Idle]]
    /\ built = [r \in Refreshers |-> [g \in Groups |-> Nothing]]
    /\ lookup = NoLookup

-----------------------------------------------------------------------------
(* refresh *)
StartRefresh(r) ==
  /\ \A g \in Groups : stage[r][g] = Idle
  /\ stage' = [stage EXCEPT ![r] = [g \in Groups |-> Collecting]]
  /\ UNCHANGED <<caches, built, accepted, last, alone, lookup>>

(* DownloadFile, after its last attempt: a timeout is transient. *)
DownloadErrors == {"transient", "permanent"}

(* parseFile: a source delivers a list, cut off after an error or when     *)
(* another source failed; it fails only if it has delivered nothing.       *)
Outcome ==
  [list : Contents \cup {Nothing}, error : {"none"}]
    \cup [list : {Nothing}, error : DownloadErrors]

Collected(outcomes) ==
  [k \in Kinds |-> UNION {outcomes[s].list[k] : s \in Sources}]

(* Errors the group may end with: one of those of its sources. *)
Errors(outcomes) ==
  LET errors == {outcomes[s].error : s \in Sources} \ {"none"}
  IN  IF errors = {} THEN {"none"} ELSE errors

(* createCacheForGroup up to Finish: an error counts if there is no entry  *)
(* or if it is transient.                                                  *)
Fails(error, list) ==
  error # "none" /\ (list = Nothing \/ error = "transient")

(* Mistake: Finish after an error. *)
CollectFailsAndFinishes(r, g, outcomes) ==
  /\ stage[r][g] = Collecting
  /\ \E error \in Errors(outcomes) : Fails(error, Collected(outcomes))
  /\ stage' = [stage EXCEPT ![r][g] = Idle]
  /\ caches' = [k \in Kinds |-> [caches[k] EXCEPT ![g] = Collected(outcomes)[k]]]
  /\ UNCHANGED <<built, accepted, last, alone, lookup>>

CollectFails(r, g, outcomes) ==
  /\ stage[r][g] = Collecting
  /\ \E error \in Errors(outcomes) : Fails(error, Collected(outcomes))
  /\ stage' = [stage EXCEPT ![r][g] = Idle]
  /\ UNCHANGED <<caches, built, accepted, last, alone, lookup>>

(* A refresh replaces the list of the group. *)
Refreshing(g) == \E r \in Refreshers : stage[r][g] \in Kinds

Collect(r, g, outcomes) ==
  /\ stage[r][g] = Collecting
  /\ Cardinality(accepted[g]) < MaxImports
  /\ \E error \in Errors(outcomes) : ~Fails(error, Collected(outcomes))
  /\ stage' = [stage EXCEPT ![r][g] = 1]
  /\ built' = [built EXCEPT ![r][g] = Collected(outcomes)]
  /\ accepted' = [accepted EXCEPT ![g] = @ \cup {Collected(outcomes)}]
  /\ last' = [last EXCEPT ![g] = Collected(outcomes)]
  /\ alone' = [alone EXCEPT ![g] = ~Refreshing(g)]
  /\ UNCHANGED <<caches, lookup>>

(* Finish of chainedGroupFactory: one cache at a time. *)
Finish(r, g) ==
  LET k == stage[r][g]
  IN  /\ k \in Kinds
      /\ caches' = [caches EXCEPT ![k][g] = built[r][g][k]]
      /\ stage' = [stage EXCEPT ![r][g] = IF k = 3 THEN Idle ELSE k + 1]
      /\ UNCHANGED <<built, accepted, last, alone, lookup>>

-----------------------------------------------------------------------------
(* Contains of ChainedGroupedCache; the order of the groups does not       *)
(* matter.                                                                 *)
StartLookup(n, gs) ==
  /\ lookup.kind = Idle
  /\ lookup' = [name |-> n, kind |-> 1, groups |-> gs, todo |-> gs,
                found |-> {}]
  /\ UNCHANGED <<caches, stage, built, accepted, last, alone>>

LookupGroup(g) ==
  /\ g \in lookup.todo
  /\ lookup' = [lookup EXCEPT
       !.todo = @ \ {g},
       !.found = IF lookup.name \in caches[lookup.kind][g] THEN @ \cup {g} ELSE @]
  /\ UNCHANGED <<caches, stage, built, accepted, last, alone>>

(* Mistake: one cache too many. *)
NextCacheTooFar ==
  /\ lookup.kind # Idle /\ lookup.todo = {}
  /\ lookup' = IF lookup.kind > 3
               THEN [lookup EXCEPT !.kind = Idle]
               ELSE [lookup EXCEPT !.kind = @ + 1, !.todo = lookup.groups]
  /\ UNCHANGED <<caches, stage, built, accepted, last, alone>>

(* Mistake: the last cache is not asked. *)
NextCacheTooShort ==
  /\ lookup.kind \in Kinds /\ lookup.todo = {}
  /\ lookup' = IF lookup.kind = 2
               THEN [lookup EXCEPT !.kind = Idle]
               ELSE [lookup EXCEPT !.kind = @ + 1, !.todo = lookup.groups]
  /\ UNCHANGED <<caches, stage, built, accepted, last, alone>>

NextCache ==
  /\ lookup.kind \in Kinds /\ lookup.todo = {}
  /\ lookup' = IF lookup.kind = 3
               THEN [lookup EXCEPT !.kind = Idle]
               ELSE [lookup EXCEPT !.kind = @ + 1, !.todo = lookup.groups]
  /\ UNCHANGED <<caches, stage, built, accepted, last, alone>>

-----------------------------------------------------------------------------
Next ==
  \/ \E r \in Refreshers :
       \/ StartRefresh(r)
       \/ \E g \in Groups :
            \/ \E outcomes \in [Sources -> Outcome] :
                 CollectFails(r, g, outcomes) \/ Collect(r, g, outcomes)
            \/ Finish(r, g)
  \/ \E n \in Names, gs \in SUBSET Groups : StartLookup(n, gs)
  \/ \E g \in Groups : LookupGroup(g)
  \/ NextCache

Spec == Init /\ [][Next]_vars

-----------------------------------------------------------------------------
(* Types of the variables. *)
TypeOK ==
  /\ \A g \in Groups : Listed(g) \in List /\ last[g] \in accepted[g]
  /\ stage \in [Refreshers -> [Groups -> Kinds \cup {Idle, Collecting}]]
  /\ built \in [Refreshers -> [Groups -> List]]
  /\ lookup.kind \in Kinds \cup {Idle}
  /\ lookup.todo \subseteq lookup.groups /\ lookup.found \subseteq lookup.groups

(* The list of a group that nobody is replacing is the last list that was  *)
(* accepted: a refresh that fails leaves the list alone, and a refresh     *)
(* that succeeds replaces all of it, unless another one was replacing the  *)
(* list when it was accepted.                                              *)
LastListInForce ==
  \A g \in Groups : ~Refreshing(g) /\ alone[g] => Listed(g) = last[g]

(* The list of a group that nobody is replacing is one list that was       *)
(* accepted for it, never a mixture of two.                                *)
NoMixture ==
  \A g \in Groups : ~Refreshing(g) => Listed(g) \in accepted[g]

(* All lists of the group have the name in an entry of one kind. *)
SameKind(g, n) == \E k \in Kinds : \A list \in accepted[g] : n \in list[k]

(* A lookup during refreshes finds a name that all the lists contain in an *)
(* entry of one kind, and finds no name that none of them contains.        *)
LookupIsRight ==
  \A g \in lookup.groups :
    /\ g \in lookup.found => \E list \in accepted[g] : lookup.name \in NamesOf(list)
    /\ lookup.kind = Idle /\ SameKind(g, lookup.name) => g \in lookup.found
=============================================================================
