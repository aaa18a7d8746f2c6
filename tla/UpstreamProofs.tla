--------------------------- MODULE UpstreamProofs ---------------------------
(***************************************************************************)
(* Proofs about the upstreams.                                             *)
(*                                                                         *)
(* UpstreamClient, one upstream: for any addresses, number of attempts     *)
(* and length of the lists of addresses.                                   *)
(*                                                                         *)
(* UpstreamGroup, the resolvers of a group: for any upstreams and any      *)
(* number of queries.                                                      *)
(***************************************************************************)
EXTENDS UpstreamClient, UpstreamGroup, FiniteSetTheorems, TLAPS

(***************************************************************************)
(* UpstreamClient: the race and its addresses                              *)
(***************************************************************************)
(* An attempt that has not begun has left no traces. *)
Untouched ==
  \A a \in 1..Attempts :
    (a > attempt \/ (a = attempt /\ pc \in {"start", "call"})) =>
      ch[a] = <<>> /\ \A p \in Protocols : exchange[a][p] = "none"

(* Results in a channel come from exchanges that have ended, one of each. *)
Sent ==
  \A a \in 1..Attempts :
    /\ \A i \in 1..Len(ch[a]) : exchange[a][ch[a][i]] \in Kinds
    /\ \A i, j \in 1..Len(ch[a]) : ch[a][i] = ch[a][j] => i = j

(* The race goes on after a first result that is not complete. *)
FirstUnusable ==
  pc = "second" =>
    /\ Races
    /\ exchange[attempt][first] \in Kinds
    /\ IsErr(exchange[attempt][first]) \/ exchange[attempt][first] = "truncated"
    /\ \A i \in 1..Len(ch[attempt]) : ch[attempt][i] # first

(* Nothing is returned before the end. *)
NoResult == pc # "done" => result = "none"

(* No address is known before the lookup. *)
NoAddress == pc = "start" => ips = <<>> /\ index = 0

ClientInv ==
  /\ TypeOK /\ AlwaysAnAddress /\ Untouched /\ Sent /\ FirstUnusable
  /\ NoResult /\ NoAddress /\ BestOfBoth

(* What the lookup finds is a list with an address, or it has failed. *)
LEMMA FoundIsUsable ==
  ASSUME TypeOK, NEW found \in UpstreamIPs, found # Failed
  PROVE  found \in Seq(Addresses) /\ Len(found) > 0
  <1> USE ClientAssumption
  <1>1. \A l \in IPLists : l \in Seq(Addresses) /\ (l # <<>> => Len(l) > 0)
    BY DEF IPLists
  <1>2. CASE cfg.lookup = "literal"
    <2>1. PICK ip \in Addresses : found = <<ip>>
      BY <1>2 DEF UpstreamIPs
    <2> QED BY <2>1
  <1>3. CASE cfg.lookup \in {"bootstraped", "system"}
    BY <1>1, <1>3 DEF UpstreamIPs
  <1>4. CASE cfg.lookup = "bootstrap"
    <2>1. PICK a \in IPLists \cup {Failed}, aaaa \in IPLists \cup {Failed} :
            found = Resolve(a, aaaa)
      BY <1>4 DEF UpstreamIPs
    <2>2. a \in Seq(Addresses) /\ aaaa \in Seq(Addresses)
          /\ found = a \o aaaa /\ found # <<>>
      BY <2>1, <1>1 DEF Resolve
    <2> QED BY <2>2
  <1> QED BY <1>2, <1>3, <1>4 DEF TypeOK, Lookups

LEMMA ClientInitial == Init => ClientInv
  <1> SUFFICES ASSUME Init PROVE ClientInv
    OBVIOUS
  <1> USE ClientAssumption DEF Init
  <1>1. TypeOK
    <2>1. 1 \in 1..Attempts /\ <<>> \in Seq(Addresses) /\ <<>> \in Seq(Nat)
          /\ <<>> \in Seq(Protocols)
      OBVIOUS
    <2>2. exchange \in [1..Attempts -> [Protocols -> {"none", "running"} \cup Kinds]]
      OBVIOUS
    <2>3. ch \in [1..Attempts -> Seq(Protocols)]
      BY <2>1
    <2> QED BY <2>1, <2>2, <2>3 DEF TypeOK, Protocols
  <1>2. Untouched /\ Sent
    BY DEF Untouched, Sent
  <1> QED
    BY <1>1, <1>2 DEF ClientInv, AlwaysAnAddress, FirstUnusable, NoResult,
                          NoAddress, BestOfBoth

LEMMA LookupKeeps ==
  ASSUME ClientInv, NEW found \in UpstreamIPs, Lookup(found)
  PROVE  ClientInv'
  <1> USE DEF ClientInv, Lookup
  <1>1. found # Failed => found \in Seq(Addresses) /\ Len(found) > 0
    BY FoundIsUsable
  <1>2. TypeOK'
    BY <1>1 DEF TypeOK, Kinds
  <1>3. Untouched' /\ Sent'
    BY DEF Untouched, Sent
  <1>4. ips = <<>> /\ index = 0
    BY DEF NoAddress
  <1>5. AlwaysAnAddress' /\ FirstUnusable' /\ NoResult' /\ BestOfBoth'
    BY <1>1, <1>4
    DEF TypeOK, AlwaysAnAddress, FirstUnusable, NoResult, BestOfBoth
  <1>6. NoAddress'
    BY DEF NoAddress
  <1> QED BY <1>2, <1>3, <1>5, <1>6

LEMMA CallKeeps ==
  ASSUME ClientInv, Call
  PROVE  ClientInv'
  <1> USE DEF ClientInv, Call, TypeOK
  <1>1. TypeOK'
    BY DEF Clients
  <1>2. AlwaysAnAddress' /\ FirstUnusable' /\ NoResult' /\ NoAddress' /\ BestOfBoth'
    BY DEF AlwaysAnAddress, FirstUnusable, NoResult, NoAddress, BestOfBoth
  <1>3. Untouched'
    BY DEF Untouched
  <1>4. Sent'
    BY DEF Untouched, Sent
  <1> QED BY <1>1, <1>2, <1>3, <1>4

LEMMA AppendType ==
  ASSUME NEW S, NEW s \in Seq(S), NEW e \in S
  PROVE  Append(s, e) \in Seq(S)
  OBVIOUS

LEMMA ExchangeKeeps ==
  ASSUME ClientInv, NEW a \in 1..Attempts, NEW p \in Protocols, NEW kind \in Kinds,
         EndExchange(a, p, kind)
  PROVE  ClientInv'
  <1> USE DEF ClientInv, EndExchange, TypeOK
  <1>1. TypeOK'
    <2>4. ch[a] \in Seq(Protocols)
      BY Zenon
    <2>1. Append(ch[a], p) \in Seq(Protocols)
      BY <2>4, AppendType
    <2>2. exchange' \in [1..Attempts -> [Protocols -> {"none", "running"} \cup Kinds]]
      OBVIOUS
    <2>3. ch' \in [1..Attempts -> Seq(Protocols)]
      BY <2>1
    <2> QED BY <2>2, <2>3
  <1>2. AlwaysAnAddress' /\ NoResult' /\ NoAddress'
    BY DEF AlwaysAnAddress, NoResult, NoAddress
  <1>3. Untouched'
    BY DEF Untouched
  <1>4. \A b \in 1..Attempts, q \in Protocols :
          exchange'[b][q] = IF b = a /\ q = p THEN kind ELSE exchange[b][q]
    OBVIOUS
  <1>5. \A i \in 1..Len(ch[a]) : ch[a][i] # p
    BY Zenon DEF Sent, Kinds
  <1>6. Len(ch'[a]) = Len(ch[a]) + 1 /\ ch'[a][Len(ch[a]) + 1] = p
        /\ \A i \in 1..Len(ch[a]) : ch'[a][i] = ch[a][i]
    OBVIOUS
  <1>7. Sent'
    <2> SUFFICES ASSUME NEW b \in 1..Attempts
                 PROVE  /\ \A i \in 1..Len(ch'[b]) : exchange'[b][ch'[b][i]] \in Kinds
                        /\ \A i, j \in 1..Len(ch'[b]) : ch'[b][i] = ch'[b][j] => i = j
      BY DEF Sent
    <2>1. CASE b # a
      BY <2>1 DEF Sent
    <2>2. CASE b = a
      <3>1. \A i \in 1..Len(ch'[a]) : ch'[a][i] \in Protocols
        BY <1>1
      <3> QED BY <2>2, <1>4, <1>5, <1>6, <3>1 DEF Sent
    <2> QED BY <2>1, <2>2
  <1>8. FirstUnusable'
    <2> SUFFICES ASSUME pc = "second" PROVE FirstUnusable'
      BY DEF FirstUnusable
    <2>1. exchange'[attempt][first] = exchange[attempt][first]
      BY <1>4 DEF FirstUnusable, Kinds
    <2>2. a = attempt => p # first
      BY DEF FirstUnusable, Kinds
    <2> QED BY <2>1, <2>2, <1>6 DEF FirstUnusable, Races, IsErr
  <1>9. BestOfBoth'
    BY <1>4 DEF BestOfBoth, Ended, IsErr, Races, Kinds
  <1> QED BY <1>1, <1>2, <1>3, <1>7, <1>8, <1>9

(* Taking a result from the channel leaves the others. *)
LEMMA TailKeeps ==
  ASSUME TypeOK, Sent, ch[attempt] # <<>>,
         ch' = [ch EXCEPT ![attempt] = Tail(@)], exchange' = exchange
  PROVE  Sent' /\ ch' \in [1..Attempts -> Seq(Protocols)]
  <1> USE DEF TypeOK
  <1>1. ch[attempt] \in Seq(Protocols) /\ Len(ch[attempt]) > 0
    OBVIOUS
  <1>2. Tail(ch[attempt]) \in Seq(Protocols)
        /\ Len(Tail(ch[attempt])) = Len(ch[attempt]) - 1
        /\ \A i \in 1..Len(Tail(ch[attempt])) : Tail(ch[attempt])[i] = ch[attempt][i + 1]
    BY <1>1
  <1>3. ch'[attempt] = Tail(ch[attempt])
        /\ \A a \in 1..Attempts : a # attempt => ch'[a] = ch[a]
    OBVIOUS
  <1>4. ch' \in [1..Attempts -> Seq(Protocols)]
    BY <1>2
  <1>5. Sent'
    <2> SUFFICES ASSUME NEW a \in 1..Attempts
                 PROVE  /\ \A i \in 1..Len(ch'[a]) : exchange[a][ch'[a][i]] \in Kinds
                        /\ \A i, j \in 1..Len(ch'[a]) : ch'[a][i] = ch'[a][j] => i = j
      BY DEF Sent
    <2>1. CASE a # attempt
      BY <2>1, <1>3 DEF Sent
    <2>2. CASE a = attempt
      <3>1. \A i \in 1..Len(ch'[a]) :
              i \in Nat /\ i + 1 \in 1..Len(ch[a]) /\ ch'[a][i] = ch[a][i + 1]
        BY <2>2, <1>1, <1>2, <1>3
      <3>2. \A i \in 1..Len(ch'[a]) : exchange[a][ch'[a][i]] \in Kinds
        BY <3>1 DEF Sent
      <3>3. ASSUME NEW i \in 1..Len(ch'[a]), NEW j \in 1..Len(ch'[a]),
                   ch'[a][i] = ch'[a][j]
            PROVE  i = j
        <4>1. i + 1 = j + 1
          BY <3>1, <3>3 DEF Sent
        <4> QED BY <4>1, <3>1
      <3> QED BY Zenon, <3>2, <3>3
    <2> QED BY Zenon, <2>1, <2>2
  <1> QED BY <1>4, <1>5

(* The end of an attempt, for a result that the race may return. *)
LEMMA EndAttemptKeeps ==
  ASSUME ClientInv, NEW kind \in Kinds, EndAttempt(kind),
         pc \in {"wait", "second"}, ch[attempt] # <<>>,
         ch' = [ch EXCEPT ![attempt] = Tail(@)],
         UNCHANGED <<cfg, ips, exchange, called>>, first' \in Protocols,
         Races /\ IsErr(kind) =>
           /\ \A p \in Protocols : Ended(p) /\ IsErr(exchange[attempt][p])
           /\ kind = exchange[attempt][cfg.protocol],
         Races /\ kind = "truncated" =>
           \A p \in Protocols : Ended(p) /\ exchange[attempt][p] # "complete"
  PROVE  ClientInv'
  <1> USE ClientAssumption DEF ClientInv, TypeOK
  <1>1. Len(ips) \in Nat /\ Len(ips) > 0
    BY DEF AlwaysAnAddress
  <1>2. (index + 1) % Len(ips) \in 0..(Len(ips) - 1)
    BY <1>1
  <1>6. Sent' /\ ch' \in [1..Attempts -> Seq(Protocols)]
    BY TailKeeps
  <1>3. TypeOK'
    BY <1>2, <1>6 DEF EndAttempt
  <1>4. AlwaysAnAddress' /\ NoResult' /\ NoAddress' /\ FirstUnusable'
    <2>1. CASE kind = "timeout" /\ attempt < Attempts
      BY <1>1, <1>2, <2>1
      DEF EndAttempt, AlwaysAnAddress, NoResult, NoAddress, FirstUnusable
    <2>2. CASE ~(kind = "timeout" /\ attempt < Attempts)
      BY <2>2
      DEF EndAttempt, AlwaysAnAddress, NoResult, NoAddress, FirstUnusable
    <2> QED BY <2>1, <2>2
  <1>5. Untouched'
    <2>1. attempt' \in 1..Attempts /\ attempt' >= attempt
          /\ (pc' \in {"start", "call"} => attempt' > attempt)
      BY DEF EndAttempt
    <2>2. ASSUME NEW a \in 1..Attempts,
                 a > attempt' \/ (a = attempt' /\ pc' \in {"start", "call"})
          PROVE  ch'[a] = <<>> /\ \A p \in Protocols : exchange'[a][p] = "none"
      <3>1. a > attempt
        BY <2>1, <2>2
      <3> QED BY <3>1 DEF Untouched
    <2> QED BY <2>2 DEF Untouched
  <1>7. BestOfBoth'
    BY DEF EndAttempt, BestOfBoth, Ended, IsErr, Races, Kinds
  <1> QED BY <1>3, <1>4, <1>5, <1>6, <1>7

LEMMA ReceiveFirstKeeps ==
  ASSUME ClientInv, ReceiveFirst
  PROVE  ClientInv'
  <1> USE DEF ClientInv, TypeOK
  <1> DEFINE p == Head(ch[attempt])
             kind == exchange[attempt][p]
  <1>1. pc = "wait" /\ ch[attempt] # <<>> /\ Len(ch[attempt]) > 0
        /\ ch' = [ch EXCEPT ![attempt] = Tail(@)]
        /\ UNCHANGED <<cfg, ips, exchange, called>>
    BY DEF ReceiveFirst
  <1>2. p = ch[attempt][1] /\ p \in Protocols /\ kind \in Kinds
    BY <1>1 DEF Sent
  <1>3. CASE Races /\ (IsErr(kind) \/ kind = "truncated")
    <2>1. pc' = "second" /\ first' = p /\ UNCHANGED <<index, attempt, result>>
      BY <1>3 DEF ReceiveFirst
    <2>4. Sent' /\ ch' \in [1..Attempts -> Seq(Protocols)]
      BY <1>1, TailKeeps
    <2>2. TypeOK'
      BY <1>1, <1>2, <2>1, <2>4
    <2>7. AlwaysAnAddress' /\ NoResult' /\ NoAddress' /\ BestOfBoth'
      BY <1>1, <2>1 DEF AlwaysAnAddress, NoResult, NoAddress, BestOfBoth
    <2>3. Untouched'
      BY <1>1, <2>1 DEF Untouched
    <2>5. \A i \in 1..Len(ch'[attempt]) : ch'[attempt][i] # p
      BY <1>1, <1>2 DEF Sent
    <2>6. FirstUnusable'
      BY <1>1, <1>2, <1>3, <2>1, <2>5 DEF FirstUnusable, Races, IsErr
    <2> QED BY <2>2, <2>3, <2>4, <2>6, <2>7
  <1>4. CASE ~(Races /\ (IsErr(kind) \/ kind = "truncated"))
    <2>1. EndAttempt(kind) /\ first' = first
      BY <1>4 DEF ReceiveFirst
    <2> QED BY <1>1, <1>2, <1>4, <2>1, EndAttemptKeeps
  <1> QED BY <1>3, <1>4

LEMMA ReceiveSecondKeeps ==
  ASSUME ClientInv, ReceiveSecond
  PROVE  ClientInv'
  <1> USE DEF ClientInv, TypeOK
  <1> DEFINE q == Head(ch[attempt])
             kind == OfBoth(first, q)
  <1>1. pc = "second" /\ ch[attempt] # <<>> /\ Len(ch[attempt]) > 0
        /\ ch' = [ch EXCEPT ![attempt] = Tail(@)] /\ EndAttempt(kind)
        /\ UNCHANGED <<cfg, ips, exchange, first, called>>
    BY DEF ReceiveSecond
  <1>2. q = ch[attempt][1] /\ q \in Protocols /\ q # first
        /\ exchange[attempt][q] \in Kinds /\ exchange[attempt][first] \in Kinds
    BY <1>1 DEF Sent, FirstUnusable
  <1>3. Protocols = {first, q} /\ cfg.protocol \in Protocols
    BY <1>2 DEF Protocols
  <1>4. Races /\ exchange[attempt][first] # "complete"
    BY <1>1 DEF FirstUnusable, IsErr
  <1>5. kind \in Kinds
    BY <1>2, <1>3 DEF OfBoth
  <1>6. IsErr(kind) =>
          /\ \A p \in Protocols : Ended(p) /\ IsErr(exchange[attempt][p])
          /\ kind = exchange[attempt][cfg.protocol]
    BY <1>2, <1>3 DEF OfBoth, Ended
  <1>7. kind = "truncated" =>
          \A p \in Protocols : Ended(p) /\ exchange[attempt][p] # "complete"
    BY <1>2, <1>3, <1>4 DEF OfBoth, Ended, IsErr
  <1> HIDE DEF kind
  <1> QED BY <1>1, <1>5, <1>6, <1>7, EndAttemptKeeps

(* The inductive invariant. *)
THEOREM ClientInvariance == Spec => []ClientInv
  <1>1. ClientInv /\ [Next]_vars => ClientInv'
    <2> SUFFICES ASSUME ClientInv, [Next]_vars PROVE ClientInv'
      OBVIOUS
    <2>1. CASE UNCHANGED vars
      BY <2>1 DEF vars, ClientInv, TypeOK, AlwaysAnAddress, Untouched, Sent,
                  FirstUnusable, NoResult, NoAddress, BestOfBoth, Ended, Races, IsErr
    <2> QED
      BY <2>1, LookupKeeps, CallKeeps, ExchangeKeeps, ReceiveFirstKeeps,
         ReceiveSecondKeeps
      DEF Next, Query, Exchange
  <1> QED BY <1>1, ClientInitial, PTL DEF Spec

(* The variables keep their types. *)
THEOREM ClientTypeCorrect == Spec => []TypeOK
  BY ClientInvariance, PTL DEF ClientInv

(* Current() never indexes beyond the addresses, whatever the lookup finds *)
(* and however often Next() rotates them.                                  *)
THEOREM AddressAlwaysThere == Spec => []AlwaysAnAddress
  BY ClientInvariance, PTL DEF ClientInv

(* raceClients never drops an answer of one protocol for an error or a     *)
(* truncated answer of the other.                                          *)
THEOREM RaceReturnsBest == Spec => []BestOfBoth
  BY ClientInvariance, PTL DEF ClientInv

-----------------------------------------------------------------------------
(***************************************************************************)
(* UpstreamClient: the attempts after timeouts                             *)
(***************************************************************************)
(* Only the clients of the upstream are used, and an attempt that was      *)
(* given up, the last one included, has failed with all of them.           *)
GivenUp ==
  /\ \A a \in 1..Attempts, p \in Protocols \ Clients : exchange[a][p] = "none"
  /\ \A a \in 1..Attempts, p \in Clients :
       a < attempt \/ (a = attempt /\ result = "timeout") => IsErr(exchange[a][p])
  /\ result = "timeout" => pc = "done" /\ ips # <<>> /\ attempt = Attempts

(* The attempts so far went to the first addresses of the list, or to all  *)
(* of them.                                                                *)
Visited ==
  {called[a] : a \in 1..Len(called)} = {i \in 0..(Len(ips) - 1) : i < Len(called)}

Rotates ==
  /\ pc = "start" => called = <<>> /\ attempt = 1
  /\ pc = "call" => Len(called) = attempt - 1
  /\ pc \in {"wait", "second"} \/ (pc = "done" /\ ips # <<>>) => Len(called) = attempt
  /\ pc \in {"call", "wait", "second"} /\ attempt <= Len(ips) => index = attempt - 1
  /\ pc # "start" /\ ips # <<>> => Visited

TimeInv == GivenUp /\ Rotates

-----------------------------------------------------------------------------
LEMMA TimeInitial == Init => TimeInv
  <1> SUFFICES ASSUME Init PROVE TimeInv
    OBVIOUS
  <1>1. GivenUp
    BY DEF Init, GivenUp, Clients
  <1>2. Rotates
    BY DEF Init, Rotates
  <1> QED BY <1>1, <1>2 DEF TimeInv

(* GivenUp depends on little. *)
LEMMA GivenUpKept ==
  ASSUME GivenUp, UNCHANGED <<cfg, exchange, attempt>>, result' = result \/ result' # "timeout",
         result = "timeout" => UNCHANGED <<pc, ips>>
  PROVE  GivenUp'
  BY DEF GivenUp, Clients, Races, IsErr

(* One lemma for each action.                                              *)
LEMMA LookupKeepsTime ==
  ASSUME ClientInv, TimeInv, NEW found \in UpstreamIPs, Lookup(found)
  PROVE  TimeInv'
  <1>1. /\ pc = "start" /\ UNCHANGED <<cfg, index, attempt, exchange, called>>
        /\ IF found = Failed
           THEN pc' = "done" /\ result' = "error" /\ UNCHANGED ips
           ELSE pc' = "call" /\ ips' = found /\ UNCHANGED result
    BY DEF Lookup
  <1>2. index = 0 /\ ips = <<>> /\ result = "none" /\ called = <<>> /\ attempt = 1
    BY <1>1 DEF ClientInv, NoAddress, NoResult, TimeInv, Rotates
  <1>3. GivenUp'
    BY <1>1, <1>2, GivenUpKept DEF TimeInv
  <1>4. CASE found = Failed
    BY <1>1, <1>2, <1>3, <1>4 DEF TimeInv, Rotates
  <1>5. CASE found # Failed
    <2>1. pc' = "call" /\ called' = <<>> /\ index' = 0 /\ attempt' = 1
      BY <1>1, <1>2, <1>5
    <2>2. Len(called') = 0
      BY <2>1
    <2>3. {called'[a] : a \in 1..Len(called')} = {}
      BY <2>2
    <2>4. {i \in 0..(Len(ips') - 1) : i < Len(called')} = {}
      BY <2>2
    <2>5. Visited'
      BY Zenon, <2>3, <2>4 DEF Visited
    <2> QED BY <1>3, <2>1, <2>2, <2>5 DEF TimeInv, Rotates
  <1> QED BY <1>4, <1>5

LEMMA CallKeepsTime ==
  ASSUME ClientInv, TimeInv, Call
  PROVE  TimeInv'
  <1>1. /\ pc = "call" /\ pc' = "wait" /\ called' = Append(called, index)
        /\ exchange' = [exchange EXCEPT ![attempt] =
             [p \in Protocols |-> IF p \in Clients THEN "running" ELSE "none"]]
        /\ UNCHANGED <<cfg, ips, index, attempt, result>>
    BY DEF Call
  <1>2. /\ exchange \in [1..Attempts -> [Protocols -> {"none", "running"} \cup Kinds]]
        /\ attempt \in 1..Attempts /\ called \in Seq(Nat) /\ index \in Nat
        /\ index < Len(ips) /\ ips \in Seq(Addresses) /\ result = "none" /\ Attempts \in Nat
    BY <1>1, ClientAssumption DEF ClientInv, TypeOK, AlwaysAnAddress, NoResult
  <1>3. GivenUp'
    <2>1. \A a \in 1..Attempts, p \in Protocols : a # attempt => exchange'[a][p] = exchange[a][p]
      BY <1>1, <1>2
    <2>2. \A p \in Protocols : exchange'[attempt][p] = IF p \in Clients THEN "running" ELSE "none"
      BY <1>1, <1>2
    <2>3. Clients' = Clients /\ Races' = Races /\ Clients \subseteq Protocols
      BY <1>1 DEF Clients, Races, Protocols
    <2>4. \A a \in 1..Attempts, p \in Protocols \ Clients : exchange'[a][p] = "none"
      BY <2>1, <2>2 DEF TimeInv, GivenUp
    <2>5. \A a \in 1..Attempts, p \in Clients :
            a < attempt => IsErr(exchange[a][p]) /\ exchange'[a][p] = exchange[a][p]
      BY <1>2, <2>1, <2>3 DEF TimeInv, GivenUp
    <2> QED BY Zenon, <1>1, <1>2, <2>3, <2>4, <2>5 DEF GivenUp, IsErr
  <1>4. Len(called) = attempt - 1 /\ Len(called') = attempt
        /\ (attempt <= Len(ips) => index = attempt - 1)
    BY <1>1, <1>2 DEF TimeInv, Rotates
  <1>5. /\ called'[attempt] = index
        /\ \A a \in 1..Len(called) : called'[a] = called[a]
    BY <1>1, <1>2, <1>4
  <1>6. ips # <<>>
    BY <1>2
  <1>7. {called'[a] : a \in 1..Len(called')} = {called[a] : a \in 1..Len(called)} \cup {index}
    <2>1. 1..Len(called') = 1..Len(called) \cup {attempt}
      BY <1>2, <1>4
    <2> QED BY <1>5, <2>1
  <1>8. {called[a] : a \in 1..Len(called)} = {i \in 0..(Len(ips) - 1) : i < Len(called)}
    BY <1>1, <1>6 DEF TimeInv, Rotates, Visited
  <1>9. {i \in 0..(Len(ips) - 1) : i < Len(called)} \cup {index}
          = {i \in 0..(Len(ips) - 1) : i < Len(called')}
    <2>1. Len(ips) \in Nat /\ Len(called) \in Nat
      BY <1>2
    <2>2. \A i \in 0..(Len(ips) - 1) : i < Len(called') <=> i < Len(called) \/ i = index
      <3>1. CASE attempt <= Len(ips)
        BY <1>2, <1>4, <2>1, <3>1
      <3>2. CASE ~(attempt <= Len(ips))
        BY <1>2, <1>4, <2>1, <3>2
      <3> QED BY <3>1, <3>2
    <2>3. index \in 0..(Len(ips) - 1)
      BY <1>2, <2>1
    <2> QED BY <2>2, <2>3
  <1>10. Visited'
    BY <1>1, <1>7, <1>8, <1>9 DEF Visited
  <1> QED BY <1>1, <1>3, <1>4, <1>10 DEF TimeInv, Rotates

LEMMA ExchangeKeepsTime ==
  ASSUME ClientInv, TimeInv, NEW a \in 1..Attempts, NEW p \in Protocols, NEW kind \in Kinds,
         EndExchange(a, p, kind)
  PROVE  TimeInv'
  <1>1. /\ exchange[a][p] = "running" /\ exchange' = [exchange EXCEPT ![a][p] = kind]
        /\ UNCHANGED <<cfg, pc, ips, index, attempt, result, called>>
        /\ exchange \in [1..Attempts -> [Protocols -> {"none", "running"} \cup Kinds]]
    BY DEF EndExchange, ClientInv, TypeOK
  <1>2. \A b \in 1..Attempts, q \in Protocols :
          exchange'[b][q] = exchange[b][q] \/ exchange[b][q] = "running"
    BY <1>1
  <1>3. Clients' = Clients /\ Races' = Races /\ Clients \subseteq Protocols
    BY <1>1 DEF Clients, Races, Protocols
  <1>4. ~IsErr("running")
    BY DEF IsErr
  <1>5. GivenUp
    BY DEF TimeInv
  <1>6. GivenUp'
    BY <1>1, <1>2, <1>3, <1>4, <1>5 DEF GivenUp, IsErr
  <1>7. Rotates'
    BY <1>1 DEF TimeInv, Rotates, Visited
  <1> QED BY <1>6, <1>7 DEF TimeInv

(* The end of an attempt, which is a timeout only if all clients failed. *)
LEMMA EndAttemptKeepsTime ==
  ASSUME ClientInv, TimeInv, NEW kind, EndAttempt(kind),
         pc \in {"wait", "second"}, UNCHANGED <<cfg, ips, exchange, called>>,
         kind = "timeout" => \A p \in Clients : IsErr(exchange[attempt][p])
  PROVE  TimeInv'
  <1>1. /\ attempt \in 1..Attempts /\ Attempts \in Nat /\ called \in Seq(Nat) /\ index \in Nat
        /\ index < Len(ips) /\ ips \in Seq(Addresses) /\ result = "none"
    BY ClientAssumption DEF ClientInv, TypeOK, AlwaysAnAddress, NoResult
  <1>2. /\ Len(called) = attempt /\ ips # <<>> /\ Visited /\ GivenUp
        /\ attempt <= Len(ips) => index = attempt - 1
    BY <1>1 DEF TimeInv, Rotates
  <1>3. Visited' /\ Clients' = Clients /\ Races' = Races
    BY <1>2 DEF Visited, Clients, Races
  <1>4. CASE kind = "timeout" /\ attempt < Attempts
    <2>1. /\ pc' = "call" /\ attempt' = attempt + 1 /\ index' = (index + 1) % Len(ips)
          /\ result' = result
      BY <1>4 DEF EndAttempt
    <2>2. attempt' <= Len(ips) => index' = attempt' - 1
      <3> SUFFICES ASSUME attempt + 1 <= Len(ips) PROVE (index + 1) % Len(ips) = attempt
        BY <1>1, <2>1
      <3>1. index + 1 = attempt /\ attempt \in Nat /\ Len(ips) \in Nat /\ attempt < Len(ips)
        BY <1>1, <1>2
      <3>2. attempt % Len(ips) = attempt
        BY <3>1
      <3> QED BY <3>1, <3>2
    <2>3. Rotates'
      BY <1>1, <1>2, <1>3, <2>1, <2>2 DEF Rotates
    <2>4. \A b \in 1..Attempts : b < attempt' => b < attempt \/ b = attempt
      BY <1>1, <2>1
    <2>5. GivenUp'
      BY <1>1, <1>2, <1>3, <1>4, <2>1, <2>4 DEF GivenUp, IsErr
    <2> QED BY <2>3, <2>5 DEF TimeInv
  <1>5. CASE ~(kind = "timeout" /\ attempt < Attempts)
    <2>1. pc' = "done" /\ result' = kind /\ UNCHANGED <<index, attempt>>
      BY <1>5 DEF EndAttempt
    <2>2. Rotates'
      BY <1>2, <1>3, <2>1 DEF Rotates
    <2>3. kind = "timeout" => attempt = Attempts
      BY <1>1, <1>5
    <2>4. GivenUp'
      BY <1>1, <1>2, <1>3, <2>1, <2>3 DEF GivenUp, IsErr
    <2> QED BY <2>2, <2>4 DEF TimeInv
  <1> QED BY <1>4, <1>5

LEMMA ReceiveFirstKeepsTime ==
  ASSUME ClientInv, TimeInv, ReceiveFirst
  PROVE  TimeInv'
  <1> DEFINE p == Head(ch[attempt])
             kind == exchange[attempt][p]
  <1>1. /\ pc = "wait" /\ ch[attempt] # <<>> /\ UNCHANGED <<cfg, ips, exchange, called>>
        /\ ch[attempt] \in Seq(Protocols) /\ attempt \in 1..Attempts
    BY Zenon DEF ReceiveFirst, ClientInv, TypeOK
  <1>2. p = ch[attempt][1] /\ p \in Protocols /\ 1 \in 1..Len(ch[attempt])
    BY <1>1
  <1>3. kind \in Kinds
    BY <1>1, <1>2 DEF ClientInv, Sent
  <1>4. CASE Races /\ (IsErr(kind) \/ kind = "truncated")
    <2>1. pc' = "second" /\ UNCHANGED <<index, attempt, result>>
      BY <1>4 DEF ReceiveFirst
    <2>2. result = "none"
      BY <1>1 DEF ClientInv, NoResult
    <2>3. GivenUp'
      BY <1>1, <2>1, <2>2, GivenUpKept DEF TimeInv
    <2>4. Rotates'
      BY <1>1, <2>1 DEF TimeInv, Rotates, Visited
    <2> QED BY <2>3, <2>4 DEF TimeInv
  <1>5. CASE ~(Races /\ (IsErr(kind) \/ kind = "truncated"))
    <2>1. EndAttempt(kind)
      BY <1>5 DEF ReceiveFirst
    <2>2. ASSUME kind = "timeout" PROVE \A r \in Clients : IsErr(exchange[attempt][r])
      <3>1. Clients = {"tcp"} /\ IsErr(kind)
        BY <1>5, <2>2 DEF Clients, IsErr
      <3>2. p \in Clients
        BY <1>1, <1>2, <1>3 DEF TimeInv, GivenUp, Kinds
      <3> QED BY <3>1, <3>2
    <2> HIDE DEF kind
    <2> QED BY <1>1, <2>1, <2>2, EndAttemptKeepsTime
  <1> QED BY <1>4, <1>5

LEMMA ReceiveSecondKeepsTime ==
  ASSUME ClientInv, TimeInv, ReceiveSecond
  PROVE  TimeInv'
  <1> DEFINE q == Head(ch[attempt])
             kind == OfBoth(first, q)
  <1>1. /\ pc = "second" /\ ch[attempt] # <<>> /\ UNCHANGED <<cfg, ips, exchange, called>>
        /\ ch[attempt] \in Seq(Protocols) /\ attempt \in 1..Attempts
        /\ EndAttempt(kind) /\ first \in Protocols
    BY Zenon DEF ReceiveSecond, ClientInv, TypeOK
  <1>2. q = ch[attempt][1] /\ q \in Protocols /\ 1 \in 1..Len(ch[attempt]) /\ q # first
    BY <1>1 DEF ClientInv, FirstUnusable
  <1>3. Protocols = {first, q} /\ Clients \subseteq Protocols
    BY <1>1, <1>2 DEF Protocols, Clients
  <1>4. kind = "timeout" => \A p \in Clients : IsErr(exchange[attempt][p])
    BY <1>3 DEF OfBoth, IsErr
  <1> HIDE DEF kind
  <1> QED BY <1>1, <1>4, EndAttemptKeepsTime

(* Attempts are given up only after failures, and rotate the addresses. *)
THEOREM TimeInvariance == Spec => []TimeInv
  <1>1. ClientInv /\ TimeInv /\ [Next]_vars => TimeInv'
    <2> SUFFICES ASSUME ClientInv, TimeInv, [Next]_vars PROVE TimeInv'
      OBVIOUS
    <2>1. CASE UNCHANGED vars
      <3>1. GivenUp'
        BY <2>1, GivenUpKept DEF vars, TimeInv
      <3>2. Rotates'
        BY <2>1 DEF vars, TimeInv, Rotates, Visited
      <3> QED BY <3>1, <3>2 DEF TimeInv
    <2> QED BY <2>1, LookupKeepsTime, CallKeepsTime, ExchangeKeepsTime,
               ReceiveFirstKeepsTime, ReceiveSecondKeepsTime
            DEF Next, Query, Exchange
  <1> QED BY <1>1, TimeInitial, ClientInvariance, PTL DEF Spec

(* Resolve of an upstream times out only if every exchange of every        *)
(* attempt has failed, and the attempts went to as many different          *)
(* addresses as there are attempts or addresses; for any number of both.   *)
THEOREM AlwaysTimesOutLast == Spec => []TimesOutLast
  <1>1. ASSUME TimeInv PROVE TimesOutLast
    <2> SUFFICES ASSUME result = "timeout" PROVE TimesOutLast
      BY DEF TimesOutLast
    <2>1. pc = "done" /\ ips # <<>> /\ attempt = Attempts /\ GivenUp /\ Attempts \in Nat
      BY <1>1, ClientAssumption DEF TimeInv, GivenUp
    <2>2. Len(called) = Attempts /\ Visited
      BY <1>1, <2>1 DEF TimeInv, Rotates
    <2>3. \A a \in 1..Attempts, p \in Clients : IsErr(exchange[a][p])
      BY <2>1 DEF GivenUp
    <2> QED BY <2>2, <2>3 DEF TimesOutLast, Visited
  <1> QED BY <1>1, TimeInvariance, PTL

-----------------------------------------------------------------------------
(* A query in the race will hear of every client: its exchange runs, or    *)
(* its result is in the channel, unless it is the first, which was taken.  *)
Awaited ==
  pc \in {"wait", "second"} =>
    \A p \in Clients :
      (pc = "second" => p # first) =>
        \/ exchange[attempt][p] = "running"
        \/ \E i \in 1..Len(ch[attempt]) : ch[attempt][i] = p

(* A query that waits for a result has one in the channel or an exchange   *)
(* that runs; and an exchange that runs, for a query that has long gone or *)
(* not, has room in the channel for its result.                            *)
NobodyHangs ==
  /\ pc \in {"wait", "second"} =>
       ch[attempt] # <<>> \/ \E p \in Clients : exchange[attempt][p] = "running"
  /\ \A a \in 1..Attempts, p \in Protocols :
       exchange[a][p] = "running" => Len(ch[a]) < ChanCap

LEMMA CallAwaits ==
  ASSUME ClientInv, Call
  PROVE  Awaited'
  <1>1. attempt \in DOMAIN exchange /\ \A p \in Clients : p \in Protocols
    BY DEF ClientInv, TypeOK, Clients, Protocols
  <1>2. \A p \in Clients : exchange'[attempt][p] = "running"
    BY <1>1 DEF Call
  <1>3. attempt' = attempt /\ Clients' = Clients
    BY DEF Call, Clients, Races
  <1> QED BY <1>2, <1>3 DEF Awaited

LEMMA ExchangeAwaits ==
  ASSUME ClientInv, Awaited, NEW a \in 1..Attempts, NEW p \in Protocols,
         NEW kind \in Kinds, EndExchange(a, p, kind)
  PROVE  Awaited'
  <1> USE DEF ClientInv, TypeOK
  <1>1. /\ UNCHANGED <<cfg, pc, attempt, first>> /\ Clients' = Clients
        /\ exchange' = [exchange EXCEPT ![a][p] = kind]
        /\ ch' = [ch EXCEPT ![a] = Append(@, p)]
    BY DEF EndExchange, Clients, Races
  <1>2. /\ Len(ch'[a]) = Len(ch[a]) + 1 /\ ch'[a][Len(ch[a]) + 1] = p
        /\ \A i \in 1..Len(ch[a]) : ch'[a][i] = ch[a][i]
        /\ Len(ch[a]) \in Nat
    BY <1>1
  <1> SUFFICES ASSUME NEW q \in Clients, pc \in {"wait", "second"},
                      pc = "second" => q # first
               PROVE  \/ exchange'[attempt][q] = "running"
                      \/ \E i \in 1..Len(ch'[attempt]) : ch'[attempt][i] = q
    BY SMTT(20), <1>1 DEF Awaited
  <1>3. \/ exchange[attempt][q] = "running"
        \/ \E i \in 1..Len(ch[attempt]) : ch[attempt][i] = q
    BY DEF Awaited
  <1>4. CASE a = attempt /\ q = p
    <2>1. Len(ch[a]) + 1 \in 1..Len(ch'[a])
      BY <1>2
    <2> QED BY SMTT(20), <1>2, <1>4, <2>1
  <1>5. CASE a = attempt /\ q # p /\ exchange[attempt][q] = "running"
    BY SMTT(20), <1>1, <1>5 DEF Clients, Protocols
  <1>6. CASE a = attempt /\ \E i \in 1..Len(ch[attempt]) : ch[attempt][i] = q
    <2>1. PICK i \in 1..Len(ch[a]) : ch[a][i] = q
      BY <1>6
    <2>2. i \in 1..Len(ch'[a]) /\ ch'[a][i] = q
      BY <1>2, <2>1
    <2> QED BY <1>6, <2>2
  <1>7. CASE a # attempt
    <2>1. ch'[attempt] = ch[attempt] /\ exchange'[attempt] = exchange[attempt]
      BY <1>1, <1>7
    <2> QED BY <1>3, <2>1
  <1> QED BY <1>3, <1>4, <1>5, <1>6, <1>7

LEMMA FirstAwaits ==
  ASSUME ClientInv, Awaited, ReceiveFirst
  PROVE  Awaited'
  <1> USE DEF ClientInv, TypeOK
  <1> DEFINE f == Head(ch[attempt])
  <1>1. CASE pc' \in {"wait", "second"}
    <2>1. /\ pc = "wait" /\ pc' = "second" /\ first' = f /\ ch[attempt] # <<>>
          /\ UNCHANGED <<cfg, attempt, exchange>> /\ Clients' = Clients
          /\ ch' = [ch EXCEPT ![attempt] = Tail(@)]
      BY <1>1 DEF ReceiveFirst, EndAttempt, Clients, Races
    <2>2. /\ Len(ch[attempt]) \in Nat /\ f = ch[attempt][1]
          /\ Len(ch'[attempt]) = Len(ch[attempt]) - 1
          /\ \A i \in 1..Len(ch'[attempt]) : ch'[attempt][i] = ch[attempt][i + 1]
      BY <2>1
    <2> SUFFICES ASSUME NEW q \in Clients, q # f
                 PROVE  \/ exchange[attempt][q] = "running"
                        \/ \E i \in 1..Len(ch'[attempt]) : ch'[attempt][i] = q
      BY <2>1 DEF Awaited
    <2>3. CASE exchange[attempt][q] = "running"
      BY <2>3
    <2>4. CASE \E i \in 1..Len(ch[attempt]) : ch[attempt][i] = q
      <3>1. PICK i \in 1..Len(ch[attempt]) : ch[attempt][i] = q
        BY <2>4
      <3>2. i # 1
        BY <2>2, <3>1
      <3>3. i - 1 \in 1..Len(ch'[attempt]) /\ (i - 1) + 1 = i
        BY <2>2, <3>2
      <3>4. ch'[attempt][i - 1] = q
        BY <2>2, <3>1, <3>3
      <3> QED BY <3>3, <3>4
    <2> QED BY <2>1, <2>3, <2>4 DEF Awaited
  <1>2. CASE pc' \notin {"wait", "second"}
    BY <1>2 DEF Awaited
  <1> QED BY <1>1, <1>2

(* raceClients makes a channel for two results, "big enough for all        *)
(* goroutines" as its comment says: no goroutine of an exchange is left    *)
(* behind, and no query waits for a result that nobody sends, for any      *)
(* number of attempts.                                                     *)
THEOREM NobodyEverHangs ==
  ASSUME ChanCap >= 2
  PROVE  Spec => []NobodyHangs
  <1>1. Init => Awaited
    BY DEF Init, Awaited
  <1>2. ClientInv /\ Awaited /\ [Next]_vars => Awaited'
    <2> SUFFICES ASSUME ClientInv, Awaited, [Next]_vars PROVE Awaited'
      OBVIOUS
    <2>1. ASSUME NEW found, Lookup(found) PROVE Awaited'
      BY <2>1 DEF Lookup, Awaited
    <2>2. CASE ReceiveSecond
      BY <2>2 DEF ReceiveSecond, EndAttempt, Awaited
    <2>3. CASE UNCHANGED vars
      BY <2>3 DEF vars, Awaited, Clients, Races
    <2> QED
      BY <2>1, <2>2, <2>3, CallAwaits, ExchangeAwaits, FirstAwaits
      DEF Next, Query, Exchange
  <1>3. ClientInv /\ Awaited => NobodyHangs
    <2> SUFFICES ASSUME ClientInv, Awaited PROVE NobodyHangs
      OBVIOUS
    <2> USE DEF ClientInv, TypeOK
    <2>1. ASSUME pc \in {"wait", "second"}
          PROVE  ch[attempt] # <<>> \/ \E p \in Clients : exchange[attempt][p] = "running"
      <3>1. \E p \in Clients : pc = "second" => p # first
        BY Zenon, <2>1 DEF FirstUnusable, Clients, Protocols
      <3>2. PICK p \in Clients : pc = "second" => p # first
        BY <3>1
      <3>3. \/ exchange[attempt][p] = "running"
            \/ \E i \in 1..Len(ch[attempt]) : ch[attempt][i] = p
        BY <2>1, <3>2 DEF Awaited
      <3>4. ch[attempt] = <<>> => ~\E i \in 1..Len(ch[attempt]) : ch[attempt][i] = p
        OBVIOUS
      <3> QED BY <3>3, <3>4
    <2>2. ASSUME NEW a \in 1..Attempts, NEW p \in Protocols, exchange[a][p] = "running"
          PROVE  Len(ch[a]) < ChanCap
      <3>1. ch[a] \in Seq(Protocols) /\ Len(ch[a]) \in Nat
        OBVIOUS
      <3>2. \A i \in 1..Len(ch[a]) : ch[a][i] \in Protocols /\ ch[a][i] # p
        <4> SUFFICES ASSUME NEW i \in 1..Len(ch[a])
                     PROVE  ch[a][i] \in Protocols /\ ch[a][i] # p
          OBVIOUS
        <4>1. exchange[a][ch[a][i]] \in Kinds /\ "running" \notin Kinds
          BY DEF Sent, Kinds
        <4>2. ch[a][i] \in Protocols
          BY <3>1
        <4> QED BY <2>2, <4>1, <4>2, Zenon
      <3>3. \A i, j \in 1..Len(ch[a]) : ch[a][i] = ch[a][j]
        BY <3>2 DEF Protocols
      <3>4. \A i, j \in 1..Len(ch[a]) : i = j
        BY <3>3 DEF Sent
      <3>5. Len(ch[a]) < 2
        BY <3>1, <3>4
      <3> QED BY <3>1, <3>5, ClientAssumption
    <2> QED BY <2>1, <2>2 DEF NobodyHangs
  <1> QED BY <1>1, <1>2, <1>3, ClientInvariance, PTL DEF Spec

-----------------------------------------------------------------------------
(***************************************************************************)
(* UpstreamGroup                                                           *)
(***************************************************************************)
(* The elements of a sequence after the operations that the model uses. *)
LEMMA ElementsOf ==
  ASSUME NEW S, NEW s \in Seq(S)
  PROVE  /\ Range(s) \subseteq S
         /\ \A i \in 1..Len(s) : s[i] \in Range(s)
         /\ \A e \in Range(s) : \E i \in 1..Len(s) : e = s[i]
         /\ s # <<>> => Head(s) \in Range(s) /\ Tail(s) \in Seq(S)
                        /\ Range(Tail(s)) \subseteq Range(s)
         /\ \A e \in S : Range(Append(s, e)) = Range(s) \cup {e}
  <1>1. /\ Range(s) \subseteq S
        /\ \A i \in 1..Len(s) : s[i] \in Range(s)
        /\ \A e \in Range(s) : \E i \in 1..Len(s) : e = s[i]
    BY DEF Range
  <1>2. s # <<>> => Head(s) \in Range(s) /\ Tail(s) \in Seq(S)
                    /\ Range(Tail(s)) \subseteq Range(s)
    BY DEF Range
  <1>3. ASSUME NEW e \in S PROVE Range(Append(s, e)) = Range(s) \cup {e}
    <2>1. /\ Append(s, e) \in Seq(S) /\ Len(Append(s, e)) = Len(s) + 1
          /\ Append(s, e)[Len(s) + 1] = e
          /\ \A i \in 1..Len(s) : Append(s, e)[i] = s[i]
      OBVIOUS
    <2>2. 1..(Len(s) + 1) = 1..Len(s) \cup {Len(s) + 1}
      OBVIOUS
    <2> QED BY <2>1, <2>2 DEF Range
  <1> QED BY <1>1, <1>2, <1>3

(* The length of a list. *)
LEMMA LengthIsNat ==
  ASSUME NEW S, NEW s \in Seq(S)
  PROVE  Len(s) \in Nat
  OBVIOUS

LEMMA NotTheEmpty ==
  \A n \in Nat : n + 1 # 0
  OBVIOUS

(* The indices of a list, but for the last one. *)
LEMMA ButTheLast ==
  \A n \in Nat : \A i \in 1..(n + 1) : i # n + 1 => i \in 1..n
  OBVIOUS

(* An element is the first one or one of the rest. *)
LEMMA HeadOrTail ==
  ASSUME NEW S, NEW s \in Seq(S), s # <<>>
  PROVE  \A e \in Range(s) : e = Head(s) \/ e \in Range(Tail(s))
  <1>1. /\ Len(s) \in Nat /\ DOMAIN s = 1..Len(s) /\ Head(s) = s[1]
        /\ DOMAIN Tail(s) = 1..(Len(s) - 1)
        /\ \A i \in 1..(Len(s) - 1) : Tail(s)[i] = s[i + 1]
    OBVIOUS
  <1> SUFFICES ASSUME NEW i \in 1..Len(s), i # 1 PROVE s[i] \in Range(Tail(s))
    BY <1>1 DEF Range
  <1>2. i - 1 \in 1..(Len(s) - 1) /\ (i - 1) + 1 = i
    BY <1>1
  <1>3. Tail(s)[i - 1] = s[i]
    BY <1>1, <1>2
  <1> QED BY <1>1, <1>2, <1>3 DEF Range

(* What Ask does to the resolvers that were asked. *)
LEMMA AskedMore ==
  ASSUME NEW S, NEW s \in Seq(S), NEW u \in S
  PROVE  /\ s \o <<u>> \in Seq(S) /\ Len(s \o <<u>>) = Len(s) + 1
         /\ Range(s \o <<u>>) = Range(s) \cup {u}
         /\ \A i \in 1..Len(s) : (s \o <<u>>)[i] = s[i]
         /\ (s \o <<u>>)[Len(s) + 1] = u
         /\ IsInjective(s) /\ u \notin Range(s) => IsInjective(s \o <<u>>)
  <1> DEFINE t == s \o <<u>>
  <1>1. /\ t \in Seq(S) /\ Len(t) = Len(s) + 1
        /\ \A i \in 1..Len(s) : t[i] = s[i]
        /\ t[Len(s) + 1] = u
    OBVIOUS
  <1>2. DOMAIN t = 1..Len(s) \cup {Len(s) + 1} /\ DOMAIN s = 1..Len(s)
    BY <1>1
  <1>3. Range(t) = Range(s) \cup {u}
    BY <1>1, <1>2 DEF Range
  <1>4. IsInjective(s) /\ u \notin Range(s) => IsInjective(t)
    BY <1>1, <1>2 DEF Range, IsInjective
  <1> QED BY <1>1, <1>3, <1>4

(* As many different resolvers as the list is long. *)
LEMMA CountsElements ==
  ASSUME NEW S, NEW s \in Seq(S), IsInjective(s)
  PROVE  Cardinality(Range(s)) = Len(s)
  <1>1. s \in Bijection(1..Len(s), Range(s))
    BY DEF Bijection, Injection, Surjection, IsInjective, Range
  <1>2. ExistsBijection(1..Len(s), Range(s))
    BY <1>1 DEF ExistsBijection
  <1>3. IsFiniteSet(1..Len(s)) /\ Cardinality(1..Len(s)) = Len(s)
    <2>1. 1 \in Int /\ Len(s) \in Int /\ Len(s) \in Nat
      OBVIOUS
    <2>2. IsFiniteSet(1..Len(s))
          /\ Cardinality(1..Len(s)) = IF 1 > Len(s) THEN 0 ELSE Len(s) - 1 + 1
      BY <2>1, FS_Interval, Zenon
    <2> QED BY <2>1, <2>2
  <1> QED BY <1>2, <1>3, FS_Bijection

-----------------------------------------------------------------------------
GroupTypes ==
  /\ config \in Config
  /\ stage \in [Queries -> {"idle", "asking", "retry", "answered", "failed"}]
  /\ list \in [Queries -> Seq(Resolvers)]
  /\ asked \in [Queries -> Seq(Resolvers)]
  /\ results \in [Queries -> Seq(Resolvers \X {"answer", "error"})]
  /\ errors \in [Queries -> SUBSET Resolvers]
  /\ calls \subseteq Queries \X Resolvers
  /\ blamed \subseteq Resolvers

(* A list of different resolvers: the bootstrap resolver, or upstreams. *)
GroupList(rs) ==
  /\ rs \in Seq(Resolvers) /\ rs # <<>> /\ IsInjective(rs)
  /\ rs = <<Bootstrap>> \/ rs \in Seq(Range(Upstreams))

(* The resolvers are exchanged only once, for the bootstrap resolver. *)
Exchanged == GroupList(resolvers) /\ (starting => resolvers = <<Bootstrap>>)

(* A query has loaded what is in force, or the bootstrap resolver. *)
Loaded(q) ==
  stage[q] # "idle" => list[q] = resolvers \/ list[q] = <<Bootstrap>>

(* How many resolvers a query has asked, and which. *)
AskedInTurn(q) ==
  /\ stage[q] = "idle" <=> asked[q] = <<>>
  /\ IsInjective(asked[q])
  /\ stage[q] # "idle" /\ config.strategy = "parallel_best" /\ Len(list[q]) > 1
       => Len(asked[q]) = 2
  /\ config.strategy = "strict" =>
       \A i \in 1..Len(asked[q]) : i <= Len(list[q]) /\ asked[q][i] = list[q][i]
  /\ stage[q] = "retry" =>
       config.strategy = "random" /\ Len(asked[q]) = 1 /\ Len(list[q]) > 1

(* Calls, results and errors of a query are those of resolvers it asked. *)
OnlyAsked(q) ==
  /\ \A u \in Resolvers : <<q, u>> \in calls => u \in Range(asked[q])
  /\ \A r \in Range(results[q]) : r[1] \in Range(asked[q])
  /\ errors[q] \subseteq Range(asked[q])

(* Until it returns, or its client leaves, a query receives only genuine   *)
(* errors.                                                                 *)
Genuine(q) ==
  q \notin left =>
    /\ stage[q] \in {"idle", "asking", "retry"} =>
         \A r \in Range(results[q]) : r[2] = "error" => <<q, r[1]>> \in failures
    /\ \A u \in errors[q] : <<q, u>> \in failures

(* A query that fails has received errors of enough resolvers. *)
EnoughFailed(q) ==
  stage[q] = "failed" =>
    /\ Range(asked[q]) \subseteq errors[q]
    /\ Len(asked[q]) >=
         IF config.strategy = "strict" \/ Len(list[q]) = 1 THEN Len(list[q]) ELSE 2

QueryInv(q) ==
  Loaded(q) /\ AskedInTurn(q) /\ OnlyAsked(q) /\ Genuine(q) /\ EnoughFailed(q)

GroupInv ==
  GroupTypes /\ Exchanged /\ BlamedForFailures /\ \A q \in Queries : QueryInv(q)

-----------------------------------------------------------------------------
(* What the initialisation sets is a list of different upstreams. *)
LEMMA GroupsAreLists ==
  ASSUME NEW rs \in GroupsOfInit
  PROVE  GroupList(rs)
  <1> USE GroupAssumption
  <1>1. Range(Upstreams) \subseteq Resolvers
    BY DEF Resolvers
  <1>2. CASE config.init = "failOnError"
    <2>1. PICK n \in 1..Len(Upstreams) : rs \in [1..n -> Range(Upstreams)]
      BY <1>2 DEF GroupsOfInit
    <2>2. InOrder(rs)
      BY <1>2 DEF GroupsOfInit
    <2>3. n \in Nat /\ rs \in Seq(Range(Upstreams)) /\ DOMAIN rs = 1..n /\ Len(rs) = n
      BY <2>1
    <2>4. rs # <<>>
      BY <2>1, <2>3
    <2>5. ASSUME NEW i \in DOMAIN rs, NEW j \in DOMAIN rs, i < j
          PROVE  rs[i] # rs[j]
      <3>1. PICK k \in DOMAIN Upstreams, l \in DOMAIN Upstreams :
              k < l /\ rs[i] = Upstreams[k] /\ rs[j] = Upstreams[l]
        BY <2>2, <2>5 DEF InOrder
      <3>2. k # l
        BY <3>1
      <3> QED BY <3>1, <3>2 DEF IsInjective
    <2>6. IsInjective(rs)
      BY <2>3, <2>5 DEF IsInjective
    <2> QED BY <1>1, <2>3, <2>4, <2>6 DEF GroupList
  <1>3. CASE config.init # "failOnError"
    BY <1>1, <1>3 DEF GroupsOfInit, GroupList
  <1> QED BY <1>2, <1>3

LEMMA BootstrapIsList == GroupList(<<Bootstrap>>)
  BY DEF GroupList, Resolvers, IsInjective

LEMMA GroupInitial == GroupInit => GroupInv
  <1> SUFFICES ASSUME GroupInit PROVE GroupInv
    OBVIOUS
  <1>1. GroupTypes
    BY GroupAssumption DEF GroupInit, GroupTypes
  <1>2. Exchanged
    BY GroupsAreLists, BootstrapIsList DEF GroupInit, Exchanged, Kept
  <1>3. \A q \in Queries : QueryInv(q)
    BY DEF GroupInit, QueryInv, Loaded, AskedInTurn, OnlyAsked, Genuine,
           EnoughFailed, Range, IsInjective
  <1>4. BlamedForFailures
    BY SMTT(20) DEF GroupInit, BlamedForFailures
  <1> QED BY <1>1, <1>2, <1>3, <1>4 DEF GroupInv

-----------------------------------------------------------------------------
(* A step of something else leaves a query as it was. *)
LEMMA QueryKept ==
  ASSUME NEW q \in Queries, QueryInv(q), UNCHANGED <<config, resolvers>>,
         stage'[q] = stage[q], list'[q] = list[q], asked'[q] = asked[q],
         results'[q] = results[q], errors'[q] = errors[q],
         q \in left => q \in left', failures \subseteq failures',
         \A u \in Resolvers : <<q, u>> \in calls' => <<q, u>> \in calls
  PROVE  QueryInv(q)'
  <1>1. Loaded(q)' /\ AskedInTurn(q)' /\ OnlyAsked(q)' /\ EnoughFailed(q)'
    BY SMTT(20) DEF QueryInv, Loaded, AskedInTurn, OnlyAsked, EnoughFailed
  <1>2. Genuine(q)'
    BY DEF QueryInv, Genuine
  <1> QED BY Zenon, <1>1, <1>2 DEF QueryInv

(* A step that leaves the resolvers and the blame alone. *)
LEMMA GroupKept ==
  ASSUME GroupInv, GroupTypes', UNCHANGED <<resolvers, starting, blamed>>,
         failures \subseteq failures', \A q \in Queries : QueryInv(q)'
  PROVE  GroupInv'
  BY Zenon DEF GroupInv, Exchanged, GroupList, BlamedForFailures

LEMMA SetResolversKeeps ==
  ASSUME GroupInv, SetResolvers
  PROVE  GroupInv'
  <1> USE DEF GroupInv, SetResolvers, queryVars
  <1>1. GroupTypes'
    BY DEF GroupTypes
  <1>2. Exchanged'
    BY GroupsAreLists DEF Exchanged, GroupList
  <1>3. ASSUME NEW q \in Queries PROVE QueryInv(q)'
    <2>1. Loaded(q)'
      BY DEF Exchanged, QueryInv, Loaded
    <2> QED BY SMTT(20), <2>1 DEF QueryInv, AskedInTurn, OnlyAsked, Genuine, EnoughFailed
  <1> QED BY <1>1, <1>2, <1>3 DEF BlamedForFailures

LEMMA InitFailsKeeps ==
  ASSUME GroupInv, InitFails
  PROVE  GroupInv'
  <1> USE DEF GroupInv, InitFails, queryVars
  <1>1. \A q \in Queries : QueryInv(q)'
    BY QueryKept
  <1> QED BY Zenon, <1>1 DEF GroupTypes, Exchanged, GroupList, BlamedForFailures

LEMMA LeavesKeeps ==
  ASSUME GroupInv, NEW q \in Queries, ClientLeaves(q)
  PROVE  GroupInv'
  <1> USE DEF GroupInv, ClientLeaves, queryVars
  <1>1. \A p \in Queries : QueryInv(p)'
    BY QueryKept
  <1> QED BY <1>1, GroupKept DEF GroupTypes

(* What pickRandom returns for a list. *)
LEMMA PicksDiffer ==
  ASSUME NEW rs, GroupList(rs), NEW us \in Picks(rs), config \in Config
  PROVE  /\ us \in Seq(Resolvers) /\ us # <<>> /\ IsInjective(us)
         /\ config.strategy = "strict" => us = <<rs[1]>>
         /\ config.strategy = "parallel_best" /\ Len(rs) > 1 => Len(us) = 2
  <1>1. rs[1] \in Resolvers /\ Range(rs) \subseteq Resolvers
    BY ElementsOf DEF GroupList
  <1>2. CASE config.strategy = "strict"
    <2>1. us = <<rs[1]>>
      BY <1>2 DEF Picks
    <2>2. IsInjective(us)
      BY <2>1 DEF IsInjective
    <2> QED BY <1>1, <1>2, <2>1, <2>2
  <1>3. CASE config.strategy # "strict"
    <2>1. ResolverCount(rs) \in 1..2
          /\ (config.strategy = "parallel_best" /\ Len(rs) > 1 => ResolverCount(rs) = 2)
      BY DEF ResolverCount
    <2>2. us \in [1..ResolverCount(rs) -> Range(rs)] /\ IsInjective(us)
      BY <1>3 DEF Picks
    <2>3. us \in Seq(Resolvers) /\ Len(us) = ResolverCount(rs)
      BY <1>1, <2>1, <2>2
    <2> QED BY <1>3, <2>1, <2>2, <2>3
  <1> QED BY <1>2, <1>3

LEMMA StartKeeps ==
  ASSUME GroupInv, NEW q \in Queries, Start(q)
  PROVE  GroupInv'
  <1> USE DEF GroupInv, Start
  <1>1. PICK us \in Picks(resolvers) : Ask(q, us)
    OBVIOUS
  <1>2. /\ us \in Seq(Resolvers) /\ us # <<>> /\ IsInjective(us)
        /\ config.strategy = "strict" => us = <<resolvers[1]>>
        /\ config.strategy = "parallel_best" /\ Len(resolvers) > 1 => Len(us) = 2
    BY SMTT(20), PicksDiffer DEF GroupTypes, Exchanged
  <1>3. asked[q] = <<>> /\ asked[q] \o us = us
    BY <1>2 DEF QueryInv, AskedInTurn
  <1>4. /\ stage'[q] = "asking" /\ list'[q] = resolvers /\ asked'[q] = us
        /\ calls' = calls \cup ({q} \X Range(us))
    BY <1>1, <1>3 DEF Ask, GroupTypes
  <1>5. resolvers \in Seq(Resolvers) /\ resolvers # <<>> /\ Range(us) \subseteq Resolvers
    BY <1>2, ElementsOf DEF Exchanged, GroupList
  <1>6. GroupTypes'
    BY <1>1, <1>2, <1>3, <1>4, <1>5 DEF Ask, GroupTypes
  <1>7. QueryInv(q)'
    <2>1. Loaded(q)' /\ EnoughFailed(q)'
      BY <1>4 DEF Loaded, EnoughFailed
    <2>2. AskedInTurn(q)'
      BY SMTT(20), <1>2, <1>4, <1>5 DEF AskedInTurn
    <2>3. Range(asked[q]) = {}
      BY <1>3 DEF Range
    <2>4. OnlyAsked(q)'
      BY SMTT(20), <1>4, <2>3 DEF QueryInv, OnlyAsked
    <2>5. Genuine(q)'
      BY SMTT(20), <1>4 DEF QueryInv, Genuine
    <2> QED BY <2>1, <2>2, <2>4, <2>5 DEF QueryInv
  <1>8. ASSUME NEW p \in Queries, p # q PROVE QueryInv(p)'
    <2>1. stage'[p] = stage[p] /\ list'[p] = list[p] /\ asked'[p] = asked[p]
          /\ \A u \in Resolvers : <<p, u>> \in calls' => <<p, u>> \in calls
      BY <1>1, <1>4, <1>8 DEF Ask, GroupTypes
    <2> QED BY <2>1, QueryKept
  <1> QED BY <1>6, <1>7, <1>8, GroupKept

(* A call ends: with an answer, an error of its own, or, when the query    *)
(* does not wait for it any more, because it is cancelled.                 *)
LEMMA CallKeepsGroup ==
  ASSUME GroupInv, NEW q \in Queries, NEW u \in Resolvers, CallReturns(q, u)
  PROVE  GroupInv'
  <1> USE DEF GroupInv
  <1>1. PICK r \in {"answer", "error"} :
          /\ Return(q, u, r)
          /\ failures \subseteq failures'
          /\ r = "error" => Cancelled(q) \/ <<q, u>> \in failures'
    BY DEF CallReturns, CallAnswers, CallFails, CallCancelled
  <1>2. BlamedForFailures' /\ blamed' \subseteq Resolvers
    BY Zenon DEF CallReturns, CallAnswers, CallFails, CallCancelled, BlamedForFailures,
           GroupTypes
  <1>3. results[q] \in Seq(Resolvers \X {"answer", "error"})
        /\ <<u, r>> \in Resolvers \X {"answer", "error"}
        /\ results'[q] = Append(results[q], <<u, r>>)
    BY SMTT(20), <1>1 DEF Return, GroupTypes
  <1>4. Range(results'[q]) = Range(results[q]) \cup {<<u, r>>}
        /\ results'[q] \in Seq(Resolvers \X {"answer", "error"})
    <2> DEFINE S == Resolvers \X {"answer", "error"}
               e == <<u, r>>
    <2>1. results[q] \in Seq(S) /\ e \in S /\ results'[q] = Append(results[q], e)
      BY <1>3
    <2> HIDE DEF S, e
    <2>2. Range(results'[q]) = Range(results[q]) \cup {e}
      BY <2>1, ElementsOf, Zenon
    <2>3. results'[q] \in Seq(S)
      BY <2>1
    <2> QED BY SMTT(20), <2>2, <2>3 DEF S, e
  <1>5. GroupTypes'
    BY <1>1, <1>2, <1>3, <1>4 DEF Return, GroupTypes
  <1>6. QueryInv(q)'
    <2>1. Loaded(q)' /\ AskedInTurn(q)' /\ EnoughFailed(q)'
      BY Zenon, <1>1 DEF Return, QueryInv, Loaded, AskedInTurn, EnoughFailed
    <2>2. OnlyAsked(q)'
      <3>1. /\ calls' \subseteq calls /\ <<q, u>> \in calls /\ OnlyAsked(q)
            /\ UNCHANGED <<asked, errors>>
        BY <1>1 DEF Return, QueryInv
      <3>2. u \in Range(asked[q])
        BY SMTT(20), <3>1 DEF OnlyAsked
      <3> QED BY <1>4, <3>1, <3>2 DEF OnlyAsked
    <2>3. Genuine(q)'
      BY <1>1, <1>4 DEF Return, Cancelled, QueryInv, Genuine
    <2> QED BY <2>1, <2>2, <2>3 DEF QueryInv
  <1>7. ASSUME NEW p \in Queries, p # q PROVE QueryInv(p)'
    <2>1. results'[p] = results[p]
      BY <1>1, <1>7 DEF Return, GroupTypes
    <2> QED BY Zenon, <1>1, <2>1, QueryKept DEF Return
  <1>8. Exchanged'
    BY <1>1 DEF Return, Exchanged, GroupList
  <1> QED BY <1>2, <1>5, <1>6, <1>7, <1>8

(* The query takes a result from its channel. *)
LEMMA ResultTaken ==
  ASSUME GroupTypes, NEW q \in Queries, results[q] # <<>>
  PROVE  /\ Head(results[q]) \in Range(results[q])
         /\ Head(results[q]) \in Resolvers \X {"answer", "error"}
         /\ Tail(results[q]) \in Seq(Resolvers \X {"answer", "error"})
         /\ Range(Tail(results[q])) \subseteq Range(results[q])
  <1>1. results[q] \in Seq(Resolvers \X {"answer", "error"})
    BY DEF GroupTypes
  <1> QED BY <1>1, ElementsOf

LEMMA UseAnswerKeeps ==
  ASSUME GroupInv, NEW q \in Queries, UseAnswer(q)
  PROVE  GroupInv'
  <1> USE DEF GroupInv, UseAnswer, Finish
  <1>1. Tail(results[q]) \in Seq(Resolvers \X {"answer", "error"})
        /\ Range(Tail(results[q])) \subseteq Range(results[q])
    BY Zenon, ResultTaken
  <1>2. stage'[q] = "answered" /\ results'[q] = Tail(results[q])
    BY DEF GroupTypes
  <1>3. GroupTypes'
    BY <1>1 DEF GroupTypes
  <1>4. QueryInv(q)'
    <2>1. asked[q] # <<>>
      BY SMTT(20) DEF QueryInv, AskedInTurn
    <2>2. Loaded(q)' /\ AskedInTurn(q)' /\ EnoughFailed(q)'
      BY <1>2, <2>1 DEF QueryInv, Loaded, AskedInTurn, EnoughFailed
    <2>3. OnlyAsked(q)'
      BY SMTT(20), <1>1, <1>2 DEF QueryInv, OnlyAsked
    <2>4. Genuine(q)'
      BY SMTT(20), <1>1, <1>2 DEF QueryInv, Genuine
    <2> QED BY SMTT(20), <2>2, <2>3, <2>4 DEF QueryInv
  <1>5. ASSUME NEW p \in Queries, p # q PROVE QueryInv(p)'
    <2>1. stage'[p] = stage[p] /\ results'[p] = results[p]
      BY SMTT(20), <1>5 DEF GroupTypes
    <2> QED BY <2>1, QueryKept
  <1> QED BY <1>3, <1>4, <1>5, GroupKept

(* One more resolver is asked, which was not asked before. *)
LEMMA AskOne ==
  ASSUME GroupInv, NEW q \in Queries, NEW u \in Resolvers, Ask(q, <<u>>),
         u \notin Range(asked[q]), stage[q] # "idle"
  PROVE  /\ asked' \in [Queries -> Seq(Resolvers)]
         /\ calls' \subseteq Queries \X Resolvers
         /\ Len(asked'[q]) = Len(asked[q]) + 1
         /\ Range(asked'[q]) = Range(asked[q]) \cup {u}
         /\ \A i \in 1..Len(asked[q]) : asked'[q][i] = asked[q][i]
         /\ asked'[q][Len(asked[q]) + 1] = u
         /\ IsInjective(asked'[q])
         /\ \A v \in Resolvers : <<q, v>> \in calls' => v = u \/ <<q, v>> \in calls
         /\ \A p \in Queries : p # q => asked'[p] = asked[p]
         /\ \A p \in Queries, v \in Resolvers :
              p # q /\ <<p, v>> \in calls' => <<p, v>> \in calls
  <1> USE DEF GroupInv
  <1>1. asked[q] \in Seq(Resolvers) /\ IsInjective(asked[q])
        /\ asked' = [asked EXCEPT ![q] = @ \o <<u>>]
        /\ calls' = calls \cup ({q} \X Range(<<u>>))
    BY SMTT(20) DEF GroupTypes, QueryInv, AskedInTurn, Ask
  <1>2. asked'[q] = asked[q] \o <<u>> /\ \A p \in Queries : p # q => asked'[p] = asked[p]
    BY <1>1 DEF GroupTypes
  <1>3. Range(<<u>>) = {u}
    BY SMTT(20) DEF Range
  <1>4. /\ asked'[q] \in Seq(Resolvers) /\ Len(asked'[q]) = Len(asked[q]) + 1
        /\ Range(asked'[q]) = Range(asked[q]) \cup {u}
        /\ \A i \in 1..Len(asked[q]) : asked'[q][i] = asked[q][i]
        /\ asked'[q][Len(asked[q]) + 1] = u
        /\ IsInjective(asked'[q])
    <2> DEFINE t == asked[q] \o <<u>>
    <2>1. /\ t \in Seq(Resolvers) /\ Len(t) = Len(asked[q]) + 1
          /\ Range(t) = Range(asked[q]) \cup {u}
          /\ \A i \in 1..Len(asked[q]) : t[i] = asked[q][i]
          /\ t[Len(asked[q]) + 1] = u
          /\ IsInjective(asked[q]) /\ u \notin Range(asked[q]) => IsInjective(t)
      BY Zenon, <1>1, AskedMore
    <2>2. asked'[q] = t
      BY Zenon, <1>2
    <2> HIDE DEF t
    <2> QED BY Zenon, <1>1, <2>1, <2>2
  <1>5. asked' \in [Queries -> Seq(Resolvers)]
    BY <1>1, <1>2, <1>4 DEF GroupTypes
  <1>6. calls' = calls \cup {<<q, u>>}
    BY <1>1, <1>3
  <1>7. /\ calls' \subseteq Queries \X Resolvers
        /\ \A v \in Resolvers : <<q, v>> \in calls' => v = u \/ <<q, v>> \in calls
        /\ \A p \in Queries, v \in Resolvers :
             p # q /\ <<p, v>> \in calls' => <<p, v>> \in calls
    BY <1>6 DEF GroupTypes
  <1> QED BY <1>2, <1>4, <1>5, <1>7

LEMMA RetryKeeps ==
  ASSUME GroupInv, NEW q \in Queries, RetryWithDifferent(q)
  PROVE  GroupInv'
  <1> USE DEF GroupInv, RetryWithDifferent
  <1>1. PICK u \in Candidates(q) : Ask(q, <<u>>)
    OBVIOUS
  <1>2. u \in Resolvers /\ u \notin Range(asked[q])
    BY ElementsOf DEF Candidates, Exchanged, GroupList
  <1>3. stage'[q] = "asking" /\ stage[q] = "retry" /\ list'[q] = list[q]
    BY SMTT(20) DEF GroupTypes
  <1>4. GroupTypes'
    BY Zenon, <1>1, <1>2, AskOne DEF GroupTypes
  <1>5. QueryInv(q)'
    <2>1. Loaded(q)' /\ EnoughFailed(q)' /\ Genuine(q)'
      BY Zenon, <1>3 DEF QueryInv, Loaded, EnoughFailed, Genuine
    <2>2. OnlyAsked(q)'
      BY Zenon, <1>1, <1>2, AskOne DEF QueryInv, OnlyAsked
    <2>3. AskedInTurn(q)'
      BY <1>1, <1>2, <1>3, AskOne DEF QueryInv, AskedInTurn, GroupTypes
    <2> QED BY <2>1, <2>2, <2>3 DEF QueryInv
  <1>6. ASSUME NEW p \in Queries, p # q PROVE QueryInv(p)'
    <2>1. stage'[p] = stage[p] /\ asked'[p] = asked[p]
          /\ \A v \in Resolvers : <<p, v>> \in calls' => <<p, v>> \in calls
      BY Zenon, <1>1, <1>2, <1>3, <1>6, AskOne DEF GroupTypes
    <2> QED BY Zenon, <2>1, QueryKept
  <1> QED BY <1>4, <1>5, <1>6, GroupKept

(* What it takes to give up is what EnoughFailed counts. *)
LEMMA EnoughAsked ==
  ASSUME NEW a \in Nat, NEW n \in Nat, a >= 1, n >= 1, NEW strategy,
         strategy = "parallel_best" /\ n > 1 => a = 2,
         \/ strategy = "parallel_best"
         \/ strategy = "strict" /\ a + 1 > n
         \/ strategy = "random" /\ (n = 1 \/ a = 2)
  PROVE  a >= IF strategy = "strict" \/ n = 1 THEN n ELSE 2
  OBVIOUS

(* What every step that takes an error does, whatever follows from it. *)
ErrorTaken(q) ==
  /\ stage[q] = "asking"
  /\ UNCHANGED <<config, resolvers, starting, list, left, blamed, failures>>
  /\ results' \in [Queries -> Seq(Resolvers \X {"answer", "error"})]
  /\ errors' \in [Queries -> SUBSET Resolvers]
  /\ Range(results'[q]) \subseteq Range(results[q])
  /\ errors'[q] \subseteq Range(asked[q])
  /\ \A p \in Queries : p # q => results'[p] = results[p] /\ errors'[p] = errors[p]
  /\ asked[q] \in Seq(Resolvers) /\ asked[q] # <<>>
  /\ GroupList(list[q])
  /\ Genuine(q)'

LEMMA TakesError ==
  ASSUME GroupInv, NEW q \in Queries, TakeError(q)
  PROVE  ErrorTaken(q)
  <1> DEFINE r == Head(results[q])
  <1>1. /\ stage[q] = "asking" /\ results[q] # <<>> /\ r[2] = "error"
        /\ results' = [results EXCEPT ![q] = Tail(@)]
        /\ errors' = [errors EXCEPT ![q] = @ \cup {r[1]}]
        /\ UNCHANGED <<config, resolvers, starting, list, left, blamed, failures>>
    BY DEF TakeError
  <1>2. /\ r \in Range(results[q]) /\ r[1] \in Resolvers
        /\ Tail(results[q]) \in Seq(Resolvers \X {"answer", "error"})
        /\ Range(Tail(results[q])) \subseteq Range(results[q])
    BY Zenon, <1>1, ResultTaken DEF GroupInv
  <1> HIDE DEF r
  <1>3. /\ results'[q] = Tail(results[q]) /\ errors'[q] = errors[q] \cup {r[1]}
        /\ \A p \in Queries : p # q => results'[p] = results[p] /\ errors'[p] = errors[p]
    BY <1>1 DEF GroupInv, GroupTypes
  <1>4. /\ results' \in [Queries -> Seq(Resolvers \X {"answer", "error"})]
        /\ errors' \in [Queries -> SUBSET Resolvers]
    BY <1>1, <1>2 DEF GroupInv, GroupTypes
  <1>5. asked[q] \in Seq(Resolvers) /\ asked[q] # <<>>
    BY SMTT(20), <1>1 DEF GroupInv, GroupTypes, QueryInv, AskedInTurn
  <1>6. GroupList(list[q])
    BY <1>1, BootstrapIsList DEF GroupInv, QueryInv, Loaded, Exchanged
  <1>7. errors'[q] \subseteq Range(asked[q])
    BY SMTT(20), <1>2, <1>3 DEF GroupInv, QueryInv, OnlyAsked
  <1>8. Genuine(q)'
    BY <1>1, <1>2, <1>3 DEF GroupInv, QueryInv, Genuine
  <1> QED BY <1>1, <1>2, <1>3, <1>4, <1>5, <1>6, <1>7, <1>8 DEF ErrorTaken

(* The other queries are not concerned. *)
LEMMA OthersKept ==
  ASSUME GroupInv, NEW q \in Queries, ErrorTaken(q), NEW p \in Queries, p # q,
         stage'[p] = stage[p], asked'[p] = asked[p],
         \A v \in Resolvers : <<p, v>> \in calls' => <<p, v>> \in calls
  PROVE  QueryInv(p)'
  <1>1. /\ UNCHANGED <<config, resolvers, list, left, failures>>
        /\ results'[p] = results[p] /\ errors'[p] = errors[p]
    BY Zenon DEF ErrorTaken
  <1>2. QueryInv(p)
    BY DEF GroupInv
  <1> QED BY Zenon, <1>1, <1>2, QueryKept

(* There are more results to wait for. *)
LEMMA WaitsForMore ==
  ASSUME GroupInv, NEW q \in Queries, ErrorTaken(q), UNCHANGED <<stage, asked, calls>>
  PROVE  GroupInv'
  <1>1. GroupTypes'
    BY DEF GroupInv, GroupTypes, ErrorTaken
  <1>2. QueryInv(q)'
    <2>1. Loaded(q)' /\ AskedInTurn(q)' /\ EnoughFailed(q)'
      BY DEF GroupInv, QueryInv, Loaded, AskedInTurn, EnoughFailed, ErrorTaken
    <2>2. OnlyAsked(q)'
      BY SMTT(20) DEF GroupInv, QueryInv, OnlyAsked, ErrorTaken
    <2> QED BY Zenon, <2>1, <2>2 DEF QueryInv, ErrorTaken
  <1>3. ASSUME NEW p \in Queries, p # q PROVE QueryInv(p)'
    BY Zenon, <1>3, OthersKept
  <1> QED BY Zenon, <1>1, <1>2, <1>3, GroupKept DEF ErrorTaken

(* All that were asked have failed, and no more are asked now. *)
LEMMA GivesUp ==
  ASSUME GroupInv, NEW q \in Queries, ErrorTaken(q), UNCHANGED <<asked, calls>>,
         stage' \in {[stage EXCEPT ![q] = "retry"], [stage EXCEPT ![q] = "failed"]},
         stage'[q] = "retry" =>
           config.strategy = "random" /\ Len(list[q]) > 1 /\ Len(asked[q]) = 1,
         stage'[q] = "failed" =>
           /\ Range(asked[q]) \subseteq errors'[q]
           /\ Len(asked[q]) >=
                IF config.strategy = "strict" \/ Len(list[q]) = 1 THEN Len(list[q]) ELSE 2
  PROVE  GroupInv'
  <1>1. stage'[q] \in {"retry", "failed"} /\ \A p \in Queries : p # q => stage'[p] = stage[p]
    BY DEF GroupInv, GroupTypes
  <1>2. GroupTypes'
    BY DEF GroupInv, GroupTypes, ErrorTaken
  <1>3. /\ UNCHANGED <<config, resolvers, list>> /\ stage[q] = "asking" /\ Genuine(q)'
        /\ Loaded(q) /\ AskedInTurn(q) /\ OnlyAsked(q) /\ asked[q] # <<>>
    BY Zenon DEF GroupInv, QueryInv, ErrorTaken
  <1>4. Loaded(q)'
    BY Zenon, <1>3 DEF Loaded
  <1>5. EnoughFailed(q)'
    BY Zenon, <1>3 DEF EnoughFailed
  <1>6. AskedInTurn(q)'
    <2>1. UNCHANGED <<config, list, asked>> /\ stage'[q] # "idle"
      BY Zenon, <1>1, <1>3
    <2> QED BY Zenon, <1>1, <1>3, <2>1 DEF AskedInTurn
  <1>7. OnlyAsked(q)'
    BY SMTT(20), <1>3 DEF OnlyAsked, ErrorTaken
  <1>8. QueryInv(q)'
    BY <1>3, <1>4, <1>5, <1>6, <1>7 DEF QueryInv
  <1>9. ASSUME NEW p \in Queries, p # q PROVE QueryInv(p)'
    BY <1>1, <1>9, OthersKept
  <1> QED BY SMTT(20), <1>2, <1>8, <1>9, GroupKept DEF ErrorTaken

(* The next of the list of a strict resolver was not asked before. *)
LEMMA NextIsNew ==
  ASSUME GroupInv, NEW q \in Queries, ErrorTaken(q), NEW next, next = Len(asked[q]) + 1,
         config.strategy = "strict", next <= Len(list[q])
  PROVE  list[q][next] \in Resolvers /\ list[q][next] \notin Range(asked[q])
  <1>1. /\ asked[q] \in Seq(Resolvers) /\ AskedInTurn(q)
        /\ list[q] \in Seq(Resolvers) /\ IsInjective(list[q])
    <2>1. QueryInv(q)
      BY DEF GroupInv
    <2>2. asked[q] \in Seq(Resolvers) /\ GroupList(list[q])
      BY Zenon DEF ErrorTaken
    <2> QED BY <2>1, <2>2, Zenon DEF QueryInv, GroupList
  <1> DEFINE u == list[q][next]
  <1>2. next \in 1..Len(list[q]) /\ u \in Resolvers
    BY SMTT(20), <1>1
  <1>3. \A i \in 1..Len(asked[q]) : i \in 1..Len(list[q]) /\ i # next
                                    /\ asked[q][i] = list[q][i]
    BY <1>1 DEF AskedInTurn
  <1>4. DOMAIN list[q] = 1..Len(list[q])
    BY <1>1
  <1>5. \A i \in 1..Len(asked[q]) : asked[q][i] # u
    BY <1>1, <1>2, <1>3, <1>4 DEF IsInjective
  <1>6. \A e \in Range(asked[q]) : \E i \in 1..Len(asked[q]) : e = asked[q][i]
    BY <1>1 DEF Range
  <1> QED BY <1>2, <1>5, <1>6, Zenon

(* The strict resolver asks the next of its list. *)
LEMMA AsksTheNext ==
  ASSUME GroupInv, NEW q \in Queries, ErrorTaken(q), NEW next, next = Len(asked[q]) + 1,
         config.strategy = "strict", next <= Len(list[q]),
         Ask(q, <<list[q][next]>>), stage' = stage
  PROVE  GroupInv'
  <1>1. /\ UNCHANGED <<config, resolvers, list>> /\ stage[q] = "asking" /\ Genuine(q)'
        /\ Loaded(q) /\ AskedInTurn(q) /\ OnlyAsked(q)
        /\ asked[q] \in Seq(Resolvers) /\ asked[q] # <<>>
        /\ list[q] \in Seq(Resolvers) /\ IsInjective(list[q])
    <2>1. QueryInv(q)
      BY DEF GroupInv
    <2>2. /\ UNCHANGED <<config, resolvers, list>> /\ stage[q] = "asking" /\ Genuine(q)'
          /\ asked[q] \in Seq(Resolvers) /\ asked[q] # <<>> /\ GroupList(list[q])
      BY Zenon DEF ErrorTaken
    <2> QED BY <2>1, <2>2, Zenon DEF QueryInv, GroupList
  <1> DEFINE u == list[q][next]
  <1>2. next \in 1..Len(list[q]) /\ u \in Resolvers
    BY <1>1
  <1>3. u \notin Range(asked[q])
    BY Zenon, NextIsNew
  <1> HIDE DEF u
  <1>4. /\ asked' \in [Queries -> Seq(Resolvers)]
        /\ calls' \subseteq Queries \X Resolvers
        /\ Len(asked'[q]) = next /\ IsInjective(asked'[q])
        /\ Range(asked'[q]) = Range(asked[q]) \cup {u}
        /\ \A i \in 1..Len(asked[q]) : asked'[q][i] = asked[q][i]
        /\ asked'[q][next] = u
        /\ \A v \in Resolvers : <<q, v>> \in calls' => v = u \/ <<q, v>> \in calls
        /\ \A p \in Queries : p # q => asked'[p] = asked[p]
        /\ \A p \in Queries, v \in Resolvers :
             p # q /\ <<p, v>> \in calls' => <<p, v>> \in calls
    <2>1. Ask(q, <<u>>) /\ stage[q] # "idle"
      BY <1>1 DEF u
    <2> QED BY Zenon, <1>2, <1>3, <2>1, AskOne
  <1>5. GroupTypes'
    BY SMTT(20), <1>4 DEF GroupInv, GroupTypes, ErrorTaken
  <1>6. Loaded(q)' /\ EnoughFailed(q)'
    BY Zenon, <1>1 DEF Loaded, EnoughFailed
  <1>7. AskedInTurn(q)'
    <2>1. \A i \in 1..Len(asked'[q]) : i <= Len(list'[q]) /\ asked'[q][i] = list'[q][i]
      <3> SUFFICES ASSUME NEW i \in 1..Len(asked'[q])
                   PROVE  i <= Len(list[q]) /\ asked'[q][i] = list[q][i]
        BY Zenon, <1>1
      <3>1. CASE i = next
        BY Zenon, <1>2, <1>4, <3>1 DEF u
      <3>2. CASE i # next
        <4>1. i \in 1..Len(asked[q])
          <5>1. Len(asked[q]) \in Nat
            BY Zenon, <1>1, LengthIsNat
          <5>2. i \in 1..(Len(asked[q]) + 1) /\ i # Len(asked[q]) + 1
            BY Zenon, <1>4, <3>2
          <5> QED BY Zenon, <5>1, <5>2, ButTheLast
        <4> QED BY Zenon, <1>1, <1>4, <4>1 DEF AskedInTurn
      <3> QED BY <3>1, <3>2
    <2>2. asked'[q] # <<>>
      <3>1. Len(asked[q]) \in Nat
        BY Zenon, <1>1, LengthIsNat
      <3>2. Len(asked'[q]) # 0
        BY Zenon, <1>4, <3>1, NotTheEmpty
      <3>3. Len(<<>>) = 0
        BY SMTT(20)
      <3> QED BY <3>2, <3>3, Zenon
    <2> QED BY Zenon, <1>1, <1>4, <2>1, <2>2 DEF AskedInTurn
  <1>8. OnlyAsked(q)'
    BY <1>1, <1>4 DEF OnlyAsked, ErrorTaken
  <1>9. QueryInv(q)'
    BY Zenon, <1>1, <1>6, <1>7, <1>8 DEF QueryInv
  <1>10. ASSUME NEW p \in Queries, p # q PROVE QueryInv(p)'
    BY <1>4, <1>10, OthersKept
  <1> QED BY Zenon, <1>5, <1>9, <1>10, GroupKept DEF ErrorTaken

LEMMA TakeErrorKeeps ==
  ASSUME GroupInv, NEW q \in Queries, TakeError(q)
  PROVE  GroupInv'
  <1> DEFINE next == Len(asked[q]) + 1
  <1>1. ErrorTaken(q)
    BY TakesError
  <1>2. CASE UNCHANGED <<stage, asked, calls>>
    BY SMTT(20), <1>1, <1>2, WaitsForMore
  <1>3. CASE /\ config.strategy = "strict" /\ next <= Len(list[q])
             /\ Ask(q, <<list[q][next]>>) /\ UNCHANGED stage
    BY <1>1, <1>3, AsksTheNext
  <1>4. CASE /\ config.strategy = "random" /\ Len(list[q]) > 1 /\ Len(asked[q]) = 1
             /\ stage' = [stage EXCEPT ![q] = "retry"]
             /\ UNCHANGED <<asked, calls>>
    <2>1. stage'[q] = "retry"
      BY <1>4 DEF GroupInv, GroupTypes
    <2> QED BY Zenon, <1>1, <1>4, <2>1, GivesUp
  <1>5. CASE /\ Range(asked[q]) \subseteq errors'[q]
             /\ \/ config.strategy = "parallel_best"
                \/ config.strategy = "strict" /\ next > Len(list[q])
                \/ config.strategy = "random" /\ (Len(list[q]) = 1 \/ Len(asked[q]) = 2)
             /\ Finish(q, "failed")
    <2>1. /\ stage' = [stage EXCEPT ![q] = "failed"] /\ stage'[q] = "failed"
          /\ UNCHANGED <<asked, calls>>
      BY <1>5 DEF Finish, GroupInv, GroupTypes
    <2>2. Len(asked[q]) >= IF config.strategy = "strict" \/ Len(list[q]) = 1
                           THEN Len(list[q]) ELSE 2
      <3>1. /\ Len(asked[q]) \in Nat /\ Len(asked[q]) >= 1
            /\ Len(list[q]) \in Nat /\ Len(list[q]) >= 1
        BY SMTT(20), <1>1 DEF ErrorTaken, GroupList
      <3>2. config.strategy = "parallel_best" /\ Len(list[q]) > 1 => Len(asked[q]) = 2
        BY <1>1 DEF ErrorTaken, GroupInv, QueryInv, AskedInTurn
      <3> QED BY Zenon, <1>5, <3>1, <3>2, EnoughAsked
    <2> QED BY Zenon, <1>1, <1>5, <2>1, <2>2, GivesUp
  <1> QED BY Zenon, <1>2, <1>3, <1>4, <1>5 DEF TakeError, AllFailed

(* The inductive invariant of a group. *)
THEOREM GroupInvariance == GroupSpec => []GroupInv
  <1>1. GroupInv /\ [GroupNext]_groupVars => GroupInv'
    <2> SUFFICES ASSUME GroupInv, [GroupNext]_groupVars PROVE GroupInv'
      OBVIOUS
    <2>1. CASE UNCHANGED groupVars
      <3>1. \A q \in Queries : QueryInv(q)'
        BY <2>1, QueryKept DEF GroupInv, groupVars, queryVars
      <3>2. GroupTypes'
        BY <2>1 DEF GroupInv, GroupTypes, groupVars, queryVars
      <3> QED BY <2>1, <3>1, <3>2, GroupKept DEF groupVars
    <2> QED
      BY <2>1, SetResolversKeeps, InitFailsKeeps, StartKeeps, LeavesKeeps,
         CallKeepsGroup, UseAnswerKeeps, TakeErrorKeeps, RetryKeeps
      DEF GroupNext, QueryStep
  <1> QED BY <1>1, GroupInitial, PTL DEF GroupSpec

(* The resolvers in force are the bootstrap resolver or upstreams, a query *)
(* asks no resolver twice, and errors and blame are those of resolvers     *)
(* that were asked.                                                        *)
THEOREM GroupTypeCorrect == GroupSpec => []GroupTypeOK
  <1>1. GroupInv => GroupTypeOK
    BY SMTT(20) DEF GroupInv, GroupTypes, Exchanged, GroupList, QueryInv, AskedInTurn,
           OnlyAsked, GroupTypeOK
  <1> QED BY <1>1, GroupInvariance, PTL

(* A query that nobody has given up fails only after errors that are not   *)
(* cancellations, of all the resolvers of a strict group and otherwise of  *)
(* two, if the group has two.                                              *)
THEOREM AlwaysFailsForAReason == GroupSpec => []FailsForAReason
  <1>1. ASSUME GroupInv PROVE FailsForAReason
    <2> SUFFICES ASSUME NEW q \in Queries, stage[q] = "failed", q \notin left
                 PROVE  /\ {q} \X Range(asked[q]) \subseteq failures
                        /\ Cardinality(Range(asked[q])) >=
                             IF config.strategy = "strict" \/ Len(list[q]) = 1
                             THEN Len(list[q]) ELSE 2
      BY DEF FailsForAReason
    <2>1. QueryInv(q) /\ asked[q] \in Seq(Resolvers)
      BY <1>1 DEF GroupInv, GroupTypes
    <2>2. Cardinality(Range(asked[q])) = Len(asked[q])
      BY SMTT(20), <2>1, CountsElements DEF QueryInv, AskedInTurn
    <2>3. {q} \X Range(asked[q]) \subseteq failures
      BY SMTT(20), <2>1 DEF QueryInv, Genuine, EnoughFailed
    <2> QED BY <2>1, <2>2, <2>3 DEF QueryInv, EnoughFailed
  <1> QED BY <1>1, GroupInvariance, PTL

(* In the second attempt weightedRandom always finds a resolver that was   *)
(* not asked, also if setResolvers comes between the two attempts.         *)
THEOREM AlwaysSomethingToChoose == GroupSpec => []SomethingToChoose
  <1>1. ASSUME GroupInv PROVE SomethingToChoose
    <2> SUFFICES ASSUME NEW q \in Queries, stage[q] = "retry"
                 PROVE  Candidates(q) # {}
      BY DEF SomethingToChoose
    <2>1. Len(asked[q]) = 1 /\ Len(list[q]) > 1 /\ asked[q] \in Seq(Resolvers)
      BY <1>1 DEF GroupInv, GroupTypes, QueryInv, AskedInTurn
    <2>2. list[q] = resolvers
      <3>1. Len(<<Bootstrap>>) = 1
        OBVIOUS
      <3>2. list[q] # <<Bootstrap>>
        <4> SUFFICES ASSUME list[q] = <<Bootstrap>> PROVE FALSE
          OBVIOUS
        <4>1. Len(list[q]) = 1
          BY <3>1
        <4> QED BY <2>1, <4>1
      <3>3. stage[q] # "idle" => list[q] = resolvers \/ list[q] = <<Bootstrap>>
        BY <1>1 DEF GroupInv, QueryInv, Loaded
      <3> QED BY <3>2, <3>3
    <2>3. resolvers \in Seq(Resolvers) /\ IsInjective(resolvers)
      BY <1>1 DEF GroupInv, Exchanged, GroupList
    <2>4. /\ 1 \in DOMAIN resolvers /\ 2 \in DOMAIN resolvers
          /\ resolvers[1] # resolvers[2]
      BY <2>1, <2>2, <2>3 DEF IsInjective
    <2>5. resolvers[1] \in Range(resolvers) /\ resolvers[2] \in Range(resolvers)
      BY <2>4 DEF Range
    <2>6. Range(asked[q]) = {asked[q][1]}
      BY <2>1 DEF Range
    <2> QED BY <2>4, <2>5, <2>6 DEF Candidates
  <1> QED BY <1>1, GroupInvariance, PTL

(* resolve sets lastErrorTime of a resolver only after an error that is no *)
(* cancellation: an upstream that loses a race keeps its weight.           *)
THEOREM AlwaysBlamedForFailures == GroupSpec => []BlamedForFailures
  BY GroupInvariance, PTL DEF GroupInv

-----------------------------------------------------------------------------
(* What a query that asks still hears of: each resolver that it has asked  *)
(* is being called, has a result in the channel, or has failed, and not    *)
(* all have failed.  Before the second attempt all have.                   *)
Outstanding(q) ==
  /\ stage[q] = "asking" =>
       /\ \A u \in Range(asked[q]) \ errors[q] :
            <<q, u>> \in calls \/ \E r \in Range(results[q]) : r[1] = u
       /\ ~(Range(asked[q]) \subseteq errors[q])
  /\ stage[q] = "retry" => Range(asked[q]) \subseteq errors[q]

(* A query that asks has a result to take or a call that will bring one.   *)
NoQueryHangs ==
  \A q \in Queries :
    stage[q] = "asking" => results[q] # <<>> \/ \E u \in Resolvers : <<q, u>> \in calls

(* A step of something else leaves the calls of a query as they were. *)
LEMMA OutstandingKept ==
  ASSUME NEW q \in Queries, Outstanding(q), stage'[q] = stage[q], asked'[q] = asked[q],
         errors'[q] = errors[q], results'[q] = results[q],
         \A u : <<q, u>> \in calls => <<q, u>> \in calls'
  PROVE  Outstanding(q)'
  BY Zenon DEF Outstanding

LEMMA StartOutstanding ==
  ASSUME GroupInv, NEW q \in Queries, Start(q), NEW p \in Queries, Outstanding(p)
  PROVE  Outstanding(p)'
  <1> USE DEF GroupInv, Start
  <1>1. PICK us \in Picks(resolvers) : Ask(q, us)
    OBVIOUS
  <1>2. calls' = calls \cup ({q} \X Range(us)) /\ errors' = errors /\ results' = results
    BY Zenon, <1>1 DEF Ask
  <1>3. CASE p # q
    <2>1. stage'[p] = stage[p] /\ asked'[p] = asked[p]
      BY <1>1, <1>3 DEF Ask, GroupTypes
    <2> QED BY Zenon, <1>2, <2>1, OutstandingKept
  <1>4. CASE p = q
    <2>1. us \in Seq(Resolvers) /\ us # <<>>
      BY <1>1, PicksDiffer DEF GroupTypes, Exchanged
    <2>2. asked[q] = <<>> /\ asked[q] \o us = us /\ QueryInv(q)
      <3>1. <<>> \o us = us
        BY <2>1
      <3>2. QueryInv(q) /\ stage[q] = "idle"
        BY Zenon
      <3>3. asked[q] = <<>>
        BY <3>2, Zenon DEF QueryInv, AskedInTurn
      <3> QED BY <3>1, <3>2, <3>3, Zenon
    <2>3. stage'[q] = "asking" /\ asked'[q] = us
      BY <1>1, <2>2 DEF Ask, GroupTypes
    <2>4. errors'[q] = {}
      <3>1. errors[q] \subseteq Range(<<>>)
        BY <2>2, Zenon DEF QueryInv, OnlyAsked
      <3>2. errors[q] = {}
        BY <3>1 DEF Range
      <3> QED BY <1>2, <3>2, Zenon
    <2>5. us[1] \in Range(us)
      <3>1. 1 \in 1..Len(us)
        BY <2>1
      <3> QED BY <2>1, <3>1, ElementsOf, Zenon
    <2>6. \A u \in Range(us) : <<q, u>> \in calls'
      BY <1>2
    <2> QED BY Zenon, <1>4, <2>3, <2>4, <2>5, <2>6 DEF Outstanding
  <1> QED BY <1>3, <1>4

LEMMA ReturnOutstanding ==
  ASSUME GroupInv, NEW q \in Queries, NEW u \in Resolvers, CallReturns(q, u),
         NEW p \in Queries, Outstanding(p)
  PROVE  Outstanding(p)'
  <1> USE DEF GroupInv
  <1>1. PICK k \in {"answer", "error"} : Return(q, u, k)
    BY DEF CallReturns, CallAnswers, CallFails, CallCancelled
  <1>2. /\ UNCHANGED <<stage, asked, errors>> /\ calls' = calls \ {<<q, u>>}
        /\ results' = [results EXCEPT ![q] = Append(@, <<u, k>>)]
    BY <1>1 DEF Return
  <1>3. CASE p # q
    <2>1. results'[p] = results[p] /\ \A v : <<p, v>> \in calls => <<p, v>> \in calls'
      BY <1>2, <1>3 DEF GroupTypes
    <2> QED BY Zenon, <1>2, <2>1, OutstandingKept
  <1>4. CASE p = q
    <2> DEFINE S == Resolvers \X {"answer", "error"}
               e == <<u, k>>
    <2>1. results[q] \in Seq(S) /\ e \in S /\ results'[q] = Append(results[q], e)
      BY <1>2 DEF GroupTypes
    <2>2. e[1] = u
      OBVIOUS
    <2> HIDE DEF S, e
    <2>3. Range(results'[q]) = Range(results[q]) \cup {e}
      BY <2>1, ElementsOf, Zenon
    <2>4. \A v : <<q, v>> \in calls => v = u \/ <<q, v>> \in calls'
      BY <1>2
    <2>5. \A v : (\E r \in Range(results[q]) : r[1] = v) \/ v = u
                   => \E r \in Range(results'[q]) : r[1] = v
      BY <2>2, <2>3, Zenon
    <2>6. /\ stage'[q] = stage[q] /\ asked'[q] = asked[q] /\ errors'[q] = errors[q]
      BY <1>2
    <2> QED BY Zenon, <1>4, <2>4, <2>5, <2>6 DEF Outstanding
  <1> QED BY <1>3, <1>4

LEMMA AnswerOutstanding ==
  ASSUME GroupInv, NEW q \in Queries, UseAnswer(q), NEW p \in Queries, Outstanding(p)
  PROVE  Outstanding(p)'
  <1> USE DEF GroupInv, UseAnswer, Finish
  <1>1. CASE p # q
    <2>1. stage'[p] = stage[p] /\ results'[p] = results[p]
      BY <1>1 DEF GroupTypes
    <2> QED BY Zenon, <2>1, OutstandingKept
  <1>2. CASE p = q
    <2>1. stage'[q] = "answered"
      BY DEF GroupTypes
    <2> QED BY <1>2, <2>1 DEF Outstanding
  <1> QED BY <1>1, <1>2

(* A resolver that was not asked before is asked after all have failed. *)
LEMMA NextOutstanding ==
  ASSUME GroupInv, NEW q \in Queries, NEW u \in Resolvers, Ask(q, <<u>>),
         u \notin Range(asked[q]), stage[q] # "idle",
         Range(asked[q]) \subseteq errors'[q], errors'[q] \subseteq Range(asked[q]),
         stage'[q] = "asking"
  PROVE  Outstanding(q)'
  <1>1. Range(asked'[q]) = Range(asked[q]) \cup {u}
    BY AskOne, Zenon
  <1>2. Range(<<u>>) = {u}
    BY SMTT(20) DEF Range
  <1>3. <<q, u>> \in calls'
    BY <1>2 DEF Ask
  <1> QED BY <1>1, <1>3 DEF Outstanding

LEMMA RetryOutstanding ==
  ASSUME GroupInv, NEW q \in Queries, RetryWithDifferent(q),
         NEW p \in Queries, Outstanding(p)
  PROVE  Outstanding(p)'
  <1> USE DEF GroupInv, RetryWithDifferent
  <1>1. PICK u \in Candidates(q) : Ask(q, <<u>>)
    OBVIOUS
  <1>2. u \in Resolvers /\ u \notin Range(asked[q])
    BY Zenon, ElementsOf DEF Candidates, Exchanged, GroupList
  <1>3. CASE p # q
    <2>1. stage'[p] = stage[p] /\ asked'[p] = asked[p] /\ calls \subseteq calls'
      BY <1>1, <1>3 DEF Ask, GroupTypes
    <2> QED BY Zenon, <2>1, OutstandingKept
  <1>4. CASE p = q
    <2>1. stage'[q] = "asking" /\ stage[q] = "retry" /\ errors'[q] = errors[q]
      BY SMTT(20) DEF GroupTypes
    <2>2. Range(asked[q]) \subseteq errors[q] /\ errors[q] \subseteq Range(asked[q])
      BY <1>4, <2>1 DEF Outstanding, QueryInv, OnlyAsked
    <2> QED BY Zenon, <1>1, <1>2, <1>4, <2>1, <2>2, NextOutstanding
  <1> QED BY <1>3, <1>4

(* An error is taken: the others are still to come. *)
LEMMA ErrorOutstanding ==
  ASSUME GroupInv, NEW q \in Queries, TakeError(q), NEW p \in Queries, Outstanding(p)
  PROVE  Outstanding(p)'
  <1> DEFINE r == Head(results[q])
             next == Len(asked[q]) + 1
  <1>1. ErrorTaken(q)
    BY SMTT(20), TakesError
  <1>2. /\ stage[q] = "asking" /\ results[q] # <<>>
        /\ results' = [results EXCEPT ![q] = Tail(@)]
        /\ errors' = [errors EXCEPT ![q] = @ \cup {r[1]}]
    BY SMTT(20) DEF TakeError
  <1>3. /\ results'[q] = Tail(results[q]) /\ errors'[q] = errors[q] \cup {r[1]}
        /\ \A s \in Queries : s # q => results'[s] = results[s] /\ errors'[s] = errors[s]
    BY <1>2 DEF GroupInv, GroupTypes
  <1>4. CASE p # q
    <2>1. stage'[p] = stage[p] /\ asked'[p] = asked[p] /\ calls \subseteq calls'
      BY <1>4 DEF TakeError, AllFailed, Ask, Finish, GroupInv, GroupTypes
    <2> QED BY Zenon, <1>3, <1>4, <2>1, OutstandingKept
  <1>5. CASE p = q /\ ~(Range(asked[q]) \subseteq errors'[q])
    <2>1. UNCHANGED <<stage, asked, calls>>
      BY Zenon, <1>5 DEF TakeError
    <2>2. \A e \in Range(results[q]) : e = r \/ e \in Range(results'[q])
      <3>1. results[q] \in Seq(Resolvers \X {"answer", "error"})
        BY DEF GroupInv, GroupTypes
      <3> QED BY <1>2, <1>3, <3>1, HeadOrTail, Zenon
    <2> HIDE DEF r
    <2>3. \A u \in Range(asked[q]) \ errors'[q] :
            <<q, u>> \in calls' \/ \E e \in Range(results'[q]) : e[1] = u
      BY Zenon, <1>2, <1>3, <1>5, <2>1, <2>2 DEF Outstanding
    <2> QED BY Zenon, <1>2, <1>5, <2>1, <2>3 DEF Outstanding
  <1>6. CASE p = q /\ Range(asked[q]) \subseteq errors'[q]
    <2>1. AllFailed(q)
      BY <1>6 DEF TakeError
    <2>2. CASE /\ config.strategy = "strict" /\ next <= Len(list[q])
               /\ Ask(q, <<list[q][next]>>) /\ UNCHANGED stage
      <3>1. list[q][next] \in Resolvers /\ list[q][next] \notin Range(asked[q])
        BY Zenon, <1>1, <2>2, NextIsNew
      <3>2. errors'[q] \subseteq Range(asked[q]) /\ stage'[q] = "asking" /\ stage[q] # "idle"
        BY <1>1, <1>2, <2>2 DEF ErrorTaken
      <3> QED BY Zenon, <1>6, <2>2, <3>1, <3>2, NextOutstanding
    <2>3. CASE stage' = [stage EXCEPT ![q] = "retry"] /\ UNCHANGED <<asked, calls>>
      <3>1. stage'[q] = "retry" /\ asked'[q] = asked[q]
        BY <2>3 DEF GroupInv, GroupTypes
      <3> QED BY <1>6, <3>1 DEF Outstanding
    <2>4. CASE Finish(q, "failed")
      <3>1. stage'[q] = "failed"
        BY <2>4 DEF Finish, GroupInv, GroupTypes
      <3> QED BY <1>6, <3>1 DEF Outstanding
    <2> QED BY Zenon, <2>1, <2>2, <2>3, <2>4 DEF AllFailed
  <1> QED BY Zenon, <1>4, <1>5, <1>6

(* No query waits for a result that nobody sends: evaluateResponses, the   *)
(* strict loop and the second attempt count the answers that come, for any *)
(* upstreams and any number of queries, and also if the resolvers are      *)
(* exchanged or the client leaves meanwhile.                               *)
THEOREM QueriesNeverHang == GroupSpec => []NoQueryHangs
  <1> DEFINE AllOutstanding == \A q \in Queries : Outstanding(q)
  <1>1. GroupInit => AllOutstanding
    BY DEF GroupInit, Outstanding
  <1>2. GroupInv /\ AllOutstanding /\ [GroupNext]_groupVars => AllOutstanding'
    <2> SUFFICES ASSUME GroupInv, AllOutstanding, [GroupNext]_groupVars,
                        NEW p \in Queries
                 PROVE  Outstanding(p)'
      BY Zenon
    <2>1. Outstanding(p)
      OBVIOUS
    <2>2. CASE SetResolvers \/ InitFails \/ UNCHANGED groupVars
      BY Zenon, <2>1, <2>2, OutstandingKept DEF SetResolvers, InitFails, groupVars, queryVars
    <2>3. ASSUME NEW q \in Queries, ClientLeaves(q) PROVE Outstanding(p)'
      BY <2>1, <2>3, OutstandingKept DEF ClientLeaves, queryVars
    <2> QED
      BY Zenon, <2>1, <2>2, <2>3, StartOutstanding, ReturnOutstanding, AnswerOutstanding,
         ErrorOutstanding, RetryOutstanding
      DEF GroupNext, QueryStep
  <1>3. GroupInv /\ AllOutstanding => NoQueryHangs
    <2> SUFFICES ASSUME GroupInv, AllOutstanding, NEW q \in Queries, stage[q] = "asking"
                 PROVE  results[q] # <<>> \/ \E u \in Resolvers : <<q, u>> \in calls
      BY DEF NoQueryHangs
    <2>1. PICK u \in Range(asked[q]) : u \notin errors[q]
      BY DEF Outstanding
    <2>2. u \in Resolvers
      BY ElementsOf DEF GroupInv, GroupTypes
    <2>3. <<q, u>> \in calls \/ Range(results[q]) # {}
      BY <2>1 DEF Outstanding
    <2>4. results[q] = <<>> => Range(results[q]) = {}
      BY DEF Range
    <2> QED BY <2>2, <2>3, <2>4
  <1> QED BY <1>1, <1>2, <1>3, GroupInvariance, PTL DEF GroupSpec
=============================================================================
