---------------------------- MODULE ClientNames -----------------------------
(***************************************************************************)
(* The names of a client (resolver/client_names_resolver.go) and the group *)
(* of upstreams that they select (resolver/upstream_tree_resolver.go).     *)
(* The names of an address are configured, or are asked from a router and  *)
(* kept for an hour, also when the router gives none.  Queries of one      *)
(* address run in parallel; the router may give the address to another     *)
(* client at any time.                                                     *)
(***************************************************************************)
EXTENDS Naturals, Sequences

CONSTANTS
  Address,      \* the address, as a name
  Workers,      \* queries that run at a time
  NameLists,    \* names that the router may give for the address
  Failed,       \* the router fails
  Setups,       \* configurations [mapped, external, order]
  ByAddress,    \* a group is named as the address
  ByName,       \* ByName[n]: groups that the name n matches
  ByNetwork,    \* groups that are networks with the address
  Default,      \* the group "default"
  TTL,          \* an hour
  Interval,     \* time between two cleanups of the cache
  Timeout       \* time that an answer of the router may take

ASSUME NamesAssumption ==
  /\ TTL \in Nat \ {0} /\ Interval \in Nat /\ Timeout \in Nat
  /\ Failed \notin NameLists

VARIABLES
  setup,    \* configuration, fixed at the start
  router,   \* what the router says
  said,     \* history: said[n]: time since the router last said n
  cached,   \* the entry of the cache, at most one
  lookup,   \* lookup[w]: what w has got from the router
  used      \* what the last query went on with, until time passes

nameVars == <<setup, router, said, cached, lookup, used>>

Saying == NameLists \cup {Failed}

(* The oldest names that may be used. *)
Oldest == TTL + Interval + Timeout

Capped(t) == IF t > Oldest THEN Oldest + 1 ELSE t

NotLookingUp == [stage |-> "idle", names |-> <<>>, age |-> 0]

-----------------------------------------------------------------------------
ExtractClientNames(answer) == IF answer = <<>> THEN <<Address>> ELSE answer

(* singleNameOrder: the first index that there is a name for. *)
SingleName(order, names) ==
  LET fits == {i \in DOMAIN order : order[i] \in DOMAIN names}
      first == CHOOSE i \in fits : \A j \in fits : i <= j
  IN  IF fits = {} THEN <<>> ELSE <<names[order[first]]>>

(* resolveClientNames *)
ResolveClientNames(s, answer) ==
  IF s.mapped # <<>> THEN s.mapped
  ELSE IF ~s.external \/ answer = Failed THEN <<Address>>
  ELSE IF s.order = <<>> THEN ExtractClientNames(answer)
  ELSE SingleName(s.order, ExtractClientNames(answer))

(* upstreamGroupByClient: which of several groups is taken is open. *)
GroupsByClient(names) ==
  LET named == UNION {ByName[names[i]] : i \in DOMAIN names}
  IN  IF ByAddress # {} THEN ByAddress
      ELSE IF named # {} THEN named
      ELSE IF ByNetwork # {} THEN ByNetwork
      ELSE {Default}

Used(by, names, group) == [by |-> by, names |-> names, group |-> group]

NotUsed == Used("none", <<>>, Default)

Use(by, names) ==
  \E g \in GroupsByClient(names) : used' = Used(by, names, g)

-----------------------------------------------------------------------------
NamesInit ==
  /\ setup \in Setups
  /\ router \in Saying
  /\ said = [n \in Saying |-> IF n = router THEN 0 ELSE Oldest + 1]
  /\ cached = <<>>
  /\ lookup = [w \in Workers |-> NotLookingUp]
  /\ used = NotUsed

RouterSays(n) ==
  /\ n # router
  /\ router' = n
  /\ said' = [said EXCEPT ![n] = 0]
  /\ UNCHANGED <<setup, cached, lookup, used>>

(* A query with an identifier of the client, or without an address. *)
QueryWithId(names) ==
  /\ Use("id", names)
  /\ UNCHANGED <<setup, router, said, cached, lookup>>

(* Mistake: a hit extends the life of the entry. *)
QueryHitsAndRenews ==
  /\ cached # <<>>
  /\ Use("address", cached[1].names)
  /\ cached' = <<[cached[1] EXCEPT !.age = 0]>>
  /\ UNCHANGED <<setup, router, said, lookup>>

(* getClientNames: the cache has the address, expired or not. *)
QueryHits ==
  /\ cached # <<>>
  /\ Use("address", cached[1].names)
  /\ UNCHANGED <<setup, router, said, cached, lookup>>

(* The cache has not, or does not return what has expired. *)
QueryMisses(w) ==
  /\ lookup[w].stage = "idle"
  /\ \A i \in DOMAIN cached : cached[i].age >= TTL
  /\ lookup' = [lookup EXCEPT ![w].stage = "asking"]
  /\ UNCHANGED <<setup, router, said, cached, used>>

RouterAnswers(w) ==
  /\ lookup[w].stage = "asking"
  /\ lookup' = [lookup EXCEPT
       ![w] = [stage |-> "answered", age |-> 0,
               names |-> ResolveClientNames(setup, router)]]
  /\ UNCHANGED <<setup, router, said, cached, used>>

QueryPuts(w) ==
  /\ lookup[w].stage = "answered"
  /\ cached' = <<[names |-> lookup[w].names, age |-> 0]>>
  /\ Use("address", lookup[w].names)
  /\ lookup' = [lookup EXCEPT ![w] = NotLookingUp]
  /\ UNCHANGED <<setup, router, said>>

(* The cleanup of the cache, or FlushCache. *)
Removed ==
  /\ cached # <<>>
  /\ cached' = <<>>
  /\ UNCHANGED <<setup, router, said, lookup, used>>

(* An answer is on its way for at most Timeout, and a cleanup comes at     *)
(* most Interval after the entry has expired.                              *)
Tick ==
  /\ \A w \in Workers : lookup[w].stage = "answered" => lookup[w].age < Timeout
  /\ \A i \in DOMAIN cached : cached[i].age < TTL + Interval
  /\ said' = [n \in Saying |-> IF n = router THEN 0 ELSE Capped(said[n] + 1)]
  /\ cached' = [i \in DOMAIN cached |-> [cached[i] EXCEPT !.age = @ + 1]]
  /\ lookup' = [w \in Workers |->
       IF lookup[w].stage = "answered" THEN [lookup[w] EXCEPT !.age = @ + 1]
                                       ELSE lookup[w]]
  /\ used' = NotUsed
  /\ UNCHANGED <<setup, router>>

NamesNext ==
  \/ \E n \in Saying : RouterSays(n)
  \/ \E n \in DOMAIN ByName : QueryWithId(<<n>>)
  \/ QueryWithId(<<>>)
  \/ QueryHits
  \/ \E w \in Workers : QueryMisses(w) \/ RouterAnswers(w) \/ QueryPuts(w)
  \/ Removed
  \/ Tick

NamesSpec == NamesInit /\ [][NamesNext]_nameVars

-----------------------------------------------------------------------------
(* A query that has only an address goes on with names that the router     *)
(* gave, or with those that stand for a failure of it, at a time that is   *)
(* not longer ago than the life of an entry, the time to the next cleanup  *)
(* and the time of an answer, and with a group that these names select;    *)
(* neither hits nor lookups in parallel make the names older.              *)
NamesAreRecent ==
  used.by = "address" =>
    \E n \in Saying :
      /\ said[n] <= Oldest
      /\ used.names = ResolveClientNames(setup, n)
      /\ used.group \in GroupsByClient(ResolveClientNames(setup, n))
=============================================================================
