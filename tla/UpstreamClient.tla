--------------------------- MODULE UpstreamClient ---------------------------
(***************************************************************************)
(* One query of an upstream resolver (resolver/upstream_resolver.go): it   *)
(* asks the bootstrap (resolver/bootstrap.go) for the addresses of the     *)
(* upstream, sends the request, over TCP and UDP at the same time where    *)
(* the upstream speaks both, and tries the next address after a timeout.   *)
(* Queries share nothing here, so one query stands for all.                *)
(*                                                                         *)
(* An exchange ends with a complete or a truncated answer, a SERVFAIL, a   *)
(* timeout or another error.  It goes on after the query has returned,     *)
(* until it sees that its context is cancelled.                            *)
(***************************************************************************)
EXTENDS Naturals, Sequences, FiniteSets

CONSTANTS
  Addresses,  \* addresses of the upstream
  MaxIPs,     \* bound: addresses in one list
  Attempts,   \* retryAttempts
  ChanCap,    \* capacity of the channel of a race
  Failed      \* error of a lookup

ASSUME ClientAssumption ==
  /\ MaxIPs \in Nat
  /\ Attempts \in Nat \ {0}
  /\ ChanCap \in Nat
  /\ Failed \notin Seq(Addresses)

Nets == {"tcp+udp", "tcp-tls", "https"}
Protocols == {"tcp", "udp"}

(* Where the host is looked up: it is an address, it is configured for the *)
(* bootstrap, by the system (without a bootstrap), or by the bootstrap.    *)
Lookups == {"literal", "bootstraped", "system", "bootstrap"}

Kinds == {"complete", "truncated", "servfail", "timeout", "error"}

(* Lists of addresses. *)
IPLists == UNION {[1..n -> Addresses] : n \in 0..MaxIPs}

VARIABLES
  cfg,       \* the upstream and the protocol of the request; never changes
  pc,        \* "start", "call", "wait" or "second" (in the race), "done"
  ips,       \* IPSet
  index,
  attempt,   \* number of the attempt
  exchange,  \* exchange[a][p]: "none", "running", or how it ended
  ch,        \* ch[a]: protocols whose result waits in the channel of a race
  first,     \* protocol of res1
  result,    \* what Resolve returns
  called     \* history: the index of each attempt

vars == <<cfg, pc, ips, index, attempt, exchange, ch, first, result, called>>

Init ==
  /\ cfg \in [net : Nets, lookup : Lookups, protocol : Protocols]
  /\ pc = "start"
  /\ ips = <<>> /\ index = 0
  /\ attempt = 1
  /\ exchange = [a \in 1..Attempts |-> [p \in Protocols |-> "none"]]
  /\ ch = [a \in 1..Attempts |-> <<>>]
  /\ first = "tcp"
  /\ result = "none"
  /\ called = <<>>

-----------------------------------------------------------------------------
(* Mistake: no addresses are a result like any other. *)
ResolveMaybeEmpty(a, aaaa) ==
  IF a = Failed \/ aaaa = Failed THEN Failed ELSE a \o aaaa

(* Bootstrap.resolve, from the outcomes for both types; a type that is not *)
(* asked for, and an answer other than NOERROR, gives no addresses.        *)
Resolve(a, aaaa) ==
  IF a = Failed \/ aaaa = Failed \/ a \o aaaa = <<>> THEN Failed
  ELSE a \o aaaa

(* UpstreamIPs *)
UpstreamIPs ==
  CASE cfg.lookup = "literal" -> {<<ip>> : ip \in Addresses}
    [] cfg.lookup = "bootstraped" -> IPLists \ {<<>>}
    [] cfg.lookup = "system" -> {Failed} \cup (IPLists \ {<<>>})
    [] OTHER -> {Resolve(a, aaaa) : a, aaaa \in IPLists \cup {Failed}}

Lookup(found) ==
  /\ pc = "start"
  /\ found \in UpstreamIPs
  /\ IF found = Failed
     THEN pc' = "done" /\ result' = "error" /\ UNCHANGED ips
     ELSE pc' = "call" /\ ips' = found /\ UNCHANGED result
  /\ UNCHANGED <<cfg, index, attempt, exchange, ch, first, called>>

-----------------------------------------------------------------------------
Races == cfg.net = "tcp+udp"
Clients == IF Races THEN Protocols ELSE {"tcp"}

(* callExternal is called for the current address. *)
Call ==
  /\ pc = "call"
  /\ pc' = "wait"
  /\ exchange' = [exchange EXCEPT ![attempt] =
       [p \in Protocols |-> IF p \in Clients THEN "running" ELSE "none"]]
  /\ called' = Append(called, index)
  /\ UNCHANGED <<cfg, ips, index, attempt, ch, first, result>>

(* Mistake: the channel of the race has no buffer. *)
EndExchangeUnbuffered(a, p, kind) ==
  /\ exchange[a][p] = "running"
  /\ a = attempt /\ pc \in {"wait", "second"} /\ ch[a] = <<>>
  /\ exchange' = [exchange EXCEPT ![a][p] = kind]
  /\ ch' = [ch EXCEPT ![a] = Append(@, p)]
  /\ UNCHANGED <<cfg, pc, ips, index, attempt, first, result, called>>

(* An exchange ends and sends its result.  Without a race there is no      *)
(* channel in the code; its one result is handed over in the same way.     *)
EndExchange(a, p, kind) ==
  /\ exchange[a][p] = "running"
  /\ Len(ch[a]) < ChanCap
  /\ exchange' = [exchange EXCEPT ![a][p] = kind]
  /\ ch' = [ch EXCEPT ![a] = Append(@, p)]
  /\ UNCHANGED <<cfg, pc, ips, index, attempt, first, result, called>>

(* Only the race makes SERVFAIL an error (UpstreamServerError). *)
IsErr(kind) ==
  kind \in {"timeout", "error"} \/ (Races /\ kind = "servfail")

(* Mistake: the address stays the same. *)
EndAttemptSameAddress(kind) ==
  IF kind = "timeout" /\ attempt < Attempts
  THEN /\ pc' = "call"
       /\ attempt' = attempt + 1
       /\ UNCHANGED <<index, result>>
  ELSE /\ pc' = "done"
       /\ result' = kind
       /\ UNCHANGED <<index, attempt>>

(* retry.Do: timeouts are retried with the next address (IPSet.Next). *)
EndAttempt(kind) ==
  IF kind = "timeout" /\ attempt < Attempts
  THEN /\ pc' = "call"
       /\ attempt' = attempt + 1
       /\ index' = (index + 1) % Len(ips)
       /\ UNCHANGED result
  ELSE /\ pc' = "done"
       /\ result' = kind
       /\ UNCHANGED <<index, attempt>>

(* Mistake: the first answer is taken although it is truncated. *)
ReceiveFirstAnyAnswer ==
  /\ pc = "wait" /\ ch[attempt] # <<>>
  /\ LET p == Head(ch[attempt]) IN
       /\ ch' = [ch EXCEPT ![attempt] = Tail(@)]
       /\ IF Races /\ IsErr(exchange[attempt][p])
          THEN pc' = "second" /\ first' = p /\ UNCHANGED <<index, attempt, result>>
          ELSE EndAttempt(exchange[attempt][p]) /\ UNCHANGED first
  /\ UNCHANGED <<cfg, ips, exchange, called>>

(* res1 := <-ch: a complete answer is returned, else the race goes on. *)
ReceiveFirst ==
  /\ pc = "wait" /\ ch[attempt] # <<>>
  /\ LET p == Head(ch[attempt]) IN
       /\ ch' = [ch EXCEPT ![attempt] = Tail(@)]
       /\ IF Races /\ (IsErr(exchange[attempt][p]) \/ exchange[attempt][p] = "truncated")
          THEN pc' = "second" /\ first' = p /\ UNCHANGED <<index, attempt, result>>
          ELSE EndAttempt(exchange[attempt][p]) /\ UNCHANGED first
  /\ UNCHANGED <<cfg, ips, exchange, called>>

(* Both have answered, p before q: the result of the race. *)
OfBoth(p, q) ==
  LET kind(r) == exchange[attempt][r]
  IN  IF ~IsErr(kind(q)) /\ kind(q) # "truncated" THEN kind(q)
      ELSE IF IsErr(kind(p)) /\ IsErr(kind(q)) THEN kind(cfg.protocol)
      ELSE IF ~IsErr(kind(p)) THEN kind(p) ELSE kind(q)

ReceiveSecond ==
  /\ pc = "second" /\ ch[attempt] # <<>>
  /\ EndAttempt(OfBoth(first, Head(ch[attempt])))
  /\ ch' = [ch EXCEPT ![attempt] = Tail(@)]
  /\ UNCHANGED <<cfg, ips, exchange, first, called>>

-----------------------------------------------------------------------------
Query ==
  Call \/ ReceiveFirst \/ ReceiveSecond \/ \E found \in UpstreamIPs : Lookup(found)

Exchange(a, p) == \E kind \in Kinds : EndExchange(a, p, kind)

Next == Query \/ \E a \in 1..Attempts, p \in Protocols : Exchange(a, p)

Spec == Init /\ [][Next]_vars

(* The query runs, and every exchange ends, at the latest by its timeout. *)
FairSpec ==
  /\ Spec
  /\ WF_vars(Query)
  /\ \A a \in 1..Attempts, p \in Protocols : WF_vars(Exchange(a, p))

-----------------------------------------------------------------------------
(* Types of the variables. *)
TypeOK ==
  /\ cfg \in [net : Nets, lookup : Lookups, protocol : Protocols]
  /\ pc \in {"start", "call", "wait", "second", "done"}
  /\ ips \in Seq(Addresses) /\ index \in Nat
  /\ attempt \in 1..Attempts
  /\ exchange \in [1..Attempts -> [Protocols -> {"none", "running"} \cup Kinds]]
  /\ ch \in [1..Attempts -> Seq(Protocols)]
  /\ first \in Protocols
  /\ result \in {"none"} \cup Kinds
  /\ called \in Seq(Nat)

(* A call always has an address: the index, after any number of rotations, *)
(* is one of a list that is not empty (IPSet.Current would panic).         *)
AlwaysAnAddress == pc \in {"call", "wait", "second"} => index < Len(ips)

Ended(p) == exchange[attempt][p] \in Kinds

(* A race returns the best that either protocol delivers: an error only if *)
(* both have failed, then the one of the request's own protocol, and a     *)
(* truncated answer only if both have ended and none is complete.          *)
BestOfBoth ==
  pc = "done" /\ Races /\ ips # <<>> =>
    /\ IsErr(result) =>
         /\ \A p \in Protocols : Ended(p) /\ IsErr(exchange[attempt][p])
         /\ result = exchange[attempt][cfg.protocol]
    /\ result = "truncated" =>
         \A p \in Protocols : Ended(p) /\ exchange[attempt][p] # "complete"

(* A query times out only if every exchange of every attempt has failed,   *)
(* and the attempts went to as many different addresses as there are       *)
(* attempts or addresses.                                                  *)
TimesOutLast ==
  result = "timeout" =>
    /\ \A a \in 1..Attempts, p \in Clients : IsErr(exchange[a][p])
    /\ Len(called) = Attempts
    /\ {called[a] : a \in 1..Attempts} =
         {i \in 0..(Len(ips) - 1) : i < Attempts}

(* The query returns, and no exchange is left behind in its channel. *)
NothingLeftBehind ==
  <>[](pc = "done" /\ \A a \in 1..Attempts, p \in Protocols :
                        exchange[a][p] # "running")
=============================================================================
