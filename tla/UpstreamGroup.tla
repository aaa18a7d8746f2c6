---------------------------- MODULE UpstreamGroup ---------------------------
(***************************************************************************)
(* A group of upstreams: how a query picks the resolvers it asks, races    *)
(* them or tries them in turn, and what it makes of their errors           *)
(* (resolver/parallel_best_resolver.go, resolver/strict_resolver.go), and  *)
(* the initialisation that exchanges the resolvers of the group under the  *)
(* queries (initGroupResolvers in resolver/resolver.go).                   *)
(*                                                                         *)
(* The weights of the random choice are left out: they are at least one,   *)
(* so every resolver that is not excluded may be picked.                   *)
(***************************************************************************)
EXTENDS Naturals, Sequences, FiniteSets, Functions

CONSTANTS
  Upstreams,     \* the upstreams of the group, in the order configured
  Bootstrap,     \* the bootstrap resolver
  Configs,       \* configurations of the group, see Config
  Queries        \* queries

Config ==
  [strategy : {"parallel_best", "random", "strict"},
   init     : {"fast", "blocking", "failOnError"}]

ASSUME GroupAssumption ==
  /\ Upstreams \in Seq(Range(Upstreams))
  /\ Upstreams # <<>> /\ IsInjective(Upstreams)
  /\ Bootstrap \notin Range(Upstreams)
  /\ Configs \subseteq Config

VARIABLES
  config,     \* the configuration, which never changes
  resolvers,  \* what r.resolvers points to
  starting,   \* the goroutine of the fast initialisation runs
  stage,      \* stage[q]: where q is
  list,       \* list[q]: the resolvers that q has loaded
  asked,      \* asked[q]: those it has asked, in that order
  calls,      \* calls under way, <<q, resolver>>; they may outlive q
  results,    \* results[q]: channel of <<resolver, result>>
  errors,     \* errors[q]: resolvers whose errors q has received
  left,       \* queries whose client has given up
  blamed,     \* resolvers with a lastErrorTime
  failures    \* history: calls that failed by themselves

queryVars == <<stage, list, asked, results, errors>>
groupVars == <<config, resolvers, starting, queryVars, calls, left, blamed, failures>>

(* The sequence us has upstreams in the order configured. *)
InOrder(us) ==
  \A i, j \in DOMAIN us : i < j =>
    \E k, l \in DOMAIN Upstreams :
      k < l /\ us[i] = Upstreams[k] /\ us[j] = Upstreams[l]

(* createGroupResolvers: only failOnError leaves out upstreams whose test  *)
(* fails; with the other strategies the test is only logged.               *)
GroupsOfInit ==
  IF config.init = "failOnError"
  THEN {us \in UNION {[1..n -> Range(Upstreams)] : n \in 1..Len(Upstreams)} :
          InOrder(us)}
  ELSE {Upstreams}

(* A panic of the initialisation is recovered: unless it is fatal, the     *)
(* group goes on with the bootstrap resolver.                              *)
Kept == IF config.init = "failOnError" THEN {} ELSE {<<Bootstrap>>}

GroupInit ==
  /\ config \in Configs
  /\ IF config.init = "fast"
     THEN resolvers = <<Bootstrap>> /\ starting = TRUE
     ELSE resolvers \in GroupsOfInit \cup Kept /\ starting = FALSE
  /\ stage = [q \in Queries |-> "idle"]
  /\ list = [q \in Queries |-> <<>>]
  /\ asked = [q \in Queries |-> <<>>]
  /\ results = [q \in Queries |-> <<>>]
  /\ errors = [q \in Queries |-> {}]
  /\ calls = {} /\ left = {} /\ blamed = {} /\ failures = {}

-----------------------------------------------------------------------------
(* The fast initialisation ends: setResolvers. *)
SetResolvers ==
  /\ starting
  /\ starting' = FALSE
  /\ resolvers' \in GroupsOfInit
  /\ UNCHANGED <<config, queryVars, calls, left, blamed, failures>>

(* It fails, and the group goes on with the bootstrap resolver. *)
InitFails ==
  /\ starting
  /\ starting' = FALSE
  /\ UNCHANGED <<config, resolvers, queryVars, calls, left, blamed, failures>>

-----------------------------------------------------------------------------
(* resolverCount: how many of the resolvers are asked at once. *)
ResolverCount(rs) ==
  IF Len(rs) > 1 /\ config.strategy = "parallel_best" THEN 2 ELSE 1

(* pickRandom and weightedRandom; strict takes the first one. *)
Picks(rs) ==
  IF config.strategy = "strict" THEN {<<rs[1]>>}
  ELSE {us \in [1..ResolverCount(rs) -> Range(rs)] : IsInjective(us)}

(* A call of resolve for each of them. *)
Ask(q, us) ==
  /\ asked' = [asked EXCEPT ![q] = @ \o us]
  /\ calls' = calls \cup ({q} \X Range(us))

Start(q) ==
  /\ stage[q] = "idle"
  /\ stage' = [stage EXCEPT ![q] = "asking"]
  /\ list' = [list EXCEPT ![q] = resolvers]
  /\ \E us \in Picks(resolvers) : Ask(q, us)
  /\ UNCHANGED <<config, resolvers, starting, results, errors, left, blamed, failures>>

(* The context of q is cancelled when it returns or its client gives up. *)
Cancelled(q) == stage[q] \in {"answered", "failed"} \/ q \in left

ClientLeaves(q) ==
  /\ stage[q] \in {"asking", "retry"} /\ q \notin left
  /\ left' = left \cup {q}
  /\ UNCHANGED <<config, resolvers, starting, queryVars, calls, blamed, failures>>

-----------------------------------------------------------------------------
Return(q, u, result) ==
  /\ <<q, u>> \in calls
  /\ calls' = calls \ {<<q, u>>}
  /\ results' = [results EXCEPT ![q] = Append(@, <<u, result>>)]
  /\ UNCHANGED <<config, resolvers, starting, stage, list, asked, errors, left>>

CallAnswers(q, u) ==
  /\ Return(q, u, "answer")
  /\ UNCHANGED <<blamed, failures>>

(* Mistake: a cancelled call sends no result. *)
CallCancelledSilent(q, u) ==
  /\ Cancelled(q) /\ <<q, u>> \in calls
  /\ calls' = calls \ {<<q, u>>}
  /\ UNCHANGED <<config, resolvers, starting, queryVars, left, blamed, failures>>

(* Mistake: an upstream that lost the race is blamed, too. *)
CallCancelledBlames(q, u) ==
  /\ Cancelled(q)
  /\ Return(q, u, "error")
  /\ blamed' = blamed \cup {u}
  /\ UNCHANGED failures

(* resolve: an error that is not a cancellation counts against u. *)
CallFails(q, u) ==
  /\ Return(q, u, "error")
  /\ blamed' = blamed \cup {u}
  /\ failures' = failures \cup {<<q, u>>}

CallCancelled(q, u) ==
  /\ Cancelled(q)
  /\ Return(q, u, "error")
  /\ UNCHANGED <<blamed, failures>>

-----------------------------------------------------------------------------
Finish(q, outcome) ==
  /\ stage' = [stage EXCEPT ![q] = outcome]
  /\ UNCHANGED <<asked, calls>>

(* evaluateResponses receives an answer. *)
UseAnswer(q) ==
  /\ stage[q] = "asking" /\ results[q] # <<>>
  /\ Head(results[q])[2] = "answer"
  /\ results' = [results EXCEPT ![q] = Tail(@)]
  /\ Finish(q, "answered")
  /\ UNCHANGED <<config, resolvers, starting, list, errors, left, blamed, failures>>

(* Mistake: the random resolver tries again if it has only one upstream. *)
AllFailedRetries(q) ==
  IF Len(asked[q]) = 1
  THEN stage' = [stage EXCEPT ![q] = "retry"] /\ UNCHANGED <<asked, calls>>
  ELSE Finish(q, "failed")

(* What follows when all that were asked have failed: the strict resolver  *)
(* asks the next one of its list, the random one tries once more.          *)
AllFailed(q) ==
  LET next == Len(asked[q]) + 1
  IN  \/ /\ config.strategy = "strict" /\ next <= Len(list[q])
         /\ Ask(q, <<list[q][next]>>)
         /\ UNCHANGED stage
      \/ /\ config.strategy = "random" /\ Len(list[q]) > 1 /\ Len(asked[q]) = 1
         /\ stage' = [stage EXCEPT ![q] = "retry"]
         /\ UNCHANGED <<asked, calls>>
      \/ /\ \/ config.strategy = "parallel_best"
            \/ config.strategy = "strict" /\ next > Len(list[q])
            \/ config.strategy = "random" /\ (Len(list[q]) = 1 \/ Len(asked[q]) = 2)
         /\ Finish(q, "failed")

(* Mistake: the first error decides. *)
TakeErrorAtOnce(q) ==
  /\ stage[q] = "asking" /\ results[q] # <<>>
  /\ Head(results[q])[2] = "error"
  /\ results' = [results EXCEPT ![q] = Tail(@)]
  /\ errors' = [errors EXCEPT ![q] = @ \cup {Head(results[q])[1]}]
  /\ AllFailed(q)
  /\ UNCHANGED <<config, resolvers, starting, list, left, blamed, failures>>

TakeError(q) ==
  /\ stage[q] = "asking" /\ results[q] # <<>>
  /\ Head(results[q])[2] = "error"
  /\ results' = [results EXCEPT ![q] = Tail(@)]
  /\ errors' = [errors EXCEPT ![q] = @ \cup {Head(results[q])[1]}]
  /\ IF Range(asked[q]) \subseteq errors'[q]
     THEN AllFailed(q)
     ELSE UNCHANGED <<stage, asked, calls>>
  /\ UNCHANGED <<config, resolvers, starting, list, left, blamed, failures>>

(* What weightedRandom may choose from for the second attempt. *)
Candidates(q) == Range(resolvers) \ Range(asked[q])

(* Mistake: the second attempt may ask the same upstream again. *)
RetryWithAny(q) ==
  /\ stage[q] = "retry"
  /\ \E u \in Range(resolvers) : Ask(q, <<u>>)
  /\ stage' = [stage EXCEPT ![q] = "asking"]
  /\ UNCHANGED <<config, resolvers, starting, list, results, errors, left, blamed, failures>>

(* retryWithDifferent loads the resolvers of the group again. *)
RetryWithDifferent(q) ==
  /\ stage[q] = "retry"
  /\ \E u \in Candidates(q) : Ask(q, <<u>>)
  /\ stage' = [stage EXCEPT ![q] = "asking"]
  /\ UNCHANGED <<config, resolvers, starting, list, results, errors, left, blamed, failures>>

-----------------------------------------------------------------------------
CallReturns(q, u) == CallAnswers(q, u) \/ CallFails(q, u) \/ CallCancelled(q, u)

QueryStep(q) == UseAnswer(q) \/ TakeError(q) \/ RetryWithDifferent(q)

Resolvers == Range(Upstreams) \cup {Bootstrap}

GroupNext ==
  \/ SetResolvers \/ InitFails
  \/ \E q \in Queries :
       \/ Start(q) \/ ClientLeaves(q) \/ QueryStep(q)
       \/ \E u \in Resolvers : CallReturns(q, u)

GroupSpec == GroupInit /\ [][GroupNext]_groupVars

(* Calls of upstreams end, at the latest with a timeout, and goroutines    *)
(* that are ready run.                                                     *)
GroupFairSpec ==
  /\ GroupSpec
  /\ \A q \in Queries :
       /\ WF_groupVars(QueryStep(q))
       /\ \A u \in Resolvers : WF_groupVars(CallReturns(q, u))

-----------------------------------------------------------------------------
(* Types of the variables. *)
GroupTypeOK ==
  /\ resolvers \in {<<Bootstrap>>} \cup Seq(Range(Upstreams))
  /\ \A q \in Queries :
       /\ stage[q] \in {"idle", "asking", "retry", "answered", "failed"}
       /\ IsInjective(asked[q])
       /\ errors[q] \subseteq Range(asked[q])
  /\ calls \subseteq Queries \X Resolvers
  /\ blamed \subseteq Resolvers

(* A query fails only for a good reason: its client has left, or all that  *)
(* it has asked really failed, and these were all the strict resolver has, *)
(* and otherwise two upstreams if the group has two.                       *)
FailsForAReason ==
  \A q \in Queries :
    stage[q] = "failed" /\ q \notin left =>
      /\ {q} \X Range(asked[q]) \subseteq failures
      /\ Cardinality(Range(asked[q])) >=
           IF config.strategy = "strict" \/ Len(list[q]) = 1 THEN Len(list[q]) ELSE 2

(* weightedRandom has something to choose from in the second attempt, even *)
(* if the resolvers were exchanged after the first one; if it had nothing, *)
(* it would panic.                                                         *)
SomethingToChoose ==
  \A q \in Queries : stage[q] = "retry" => Candidates(q) # {}

(* An upstream gets a lower weight only if a call of it failed by itself:  *)
(* to lose the race is no error.                                           *)
BlamedForFailures ==
  \A u \in blamed : \E q \in Queries : <<q, u>> \in failures

(* Every query is answered or fails. *)
QueryEnds ==
  \A q \in Queries : stage[q] = "asking" ~> stage[q] \in {"answered", "failed"}
=============================================================================
