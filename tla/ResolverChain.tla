--------------------------- MODULE ResolverChain ----------------------------
(***************************************************************************)
(* The resolvers of the chain (server.go, createQueryResolver) that answer *)
(* from the configuration or pass a request on: filtering, names without a *)
(* dot, the custom DNS resolver, the conditional upstreams, each of the    *)
(* two within a rewriter if names are rewritten, the special-use domains   *)
(* and the upstreams at the end.  The hosts file, the blocking and the     *)
(* caching resolver have modules of their own; here they pass on.          *)
(*                                                                         *)
(* The custom DNS resolver calls itself for the target of a CNAME; its     *)
(* calls are a stack, and each step handles an entry of the last one.      *)
(*                                                                         *)
(* A domain is the sequence of its labels, its parent is the tail of it    *)
(* and the root is the empty sequence.                                     *)
(***************************************************************************)
EXTENDS Naturals, Sequences, FiniteSets, Functions

CONSTANTS
  Labels,       \* labels of domains
  RecordTypes,  \* types of records and of questions
  Configs,      \* configurations, see ConfigOK
  Requests      \* requests of clients

VARIABLES
  conf,    \* configuration, fixed at the start
  asked,   \* request that is handled
  start,   \* the name that reaches the custom DNS resolver for it
  calls,   \* calls of the custom DNS resolver under way, see Frame
  sent,    \* history: names that upstreams were asked
  reply    \* what the client gets

chainVars == <<conf, asked, start, calls, sent, reply>>

Domain == Seq(Labels)

Root == <<>>

(* The types of entries that the custom DNS resolver answers with. *)
Supported == {"A", "AAAA", "TXT", "SRV", "CNAME"}

Entry == [type : RecordTypes, data : Domain]

Request == [id : Nat, name : Domain, qtype : RecordTypes, lower : BOOLEAN]

(* The number of a message that was not made from a request. *)
NoId == 0

(* The number of the requests that the custom DNS resolver makes itself. *)
InternalId == 1

NoRequest == [id |-> NoId, name |-> Root, qtype |-> "none", lower |-> TRUE]

(* Every domain of the mapping has its entries, and every rewritten domain *)
(* another one.                                                            *)
ConfigOK(c) ==
  /\ DOMAIN c.mapping \subseteq Domain /\ IsFiniteSet(DOMAIN c.mapping)
  /\ \A d \in DOMAIN c.mapping : c.mapping[d] \in Seq(Entry)
  /\ \A d \in DOMAIN c.rewrite : c.rewrite[d] \in Domain
  /\ \A d \in DOMAIN c.condRewrite : c.condRewrite[d] \in Domain
  /\ c.upstream \in {"record", "empty", "error", "servfail"}

ASSUME ChainAssumption ==
  /\ Supported \cup {"PTR"} \subseteq RecordTypes
  /\ \A c \in Configs : ConfigOK(c)
  /\ Requests \subseteq Request \ {NoRequest}

-----------------------------------------------------------------------------
(* What a resolver returns: an answer, an error, an error that holds the   *)
(* message of an upstream (UpstreamServerError), NoResponse, or a panic    *)
(* that ends the request; `to` has the names that upstreams were asked.    *)
Result(kind, r, records, to) ==
  [kind |-> kind, id |-> r.id, question |-> <<r.name>>, records |-> records,
   to |-> to]

Answer(r, records, to) == Result("answer", r, records, to)

Failure(kind, r, to) == Result(kind, r, <<>>, to)

After(before, result) == [result EXCEPT !.to = before.to \cup @]

Record(owner, type, data) == [owner |-> owner, type |-> type, data |-> data]

(* Where a domain of a set begins within a name, and the one that is found *)
(* first on the way from the name to the root.                             *)
Suffix(name, k) == SubSeq(name, k, Len(name))

Matching(name, domains) == {k \in 1..Len(name) : Suffix(name, k) \in domains}

Closest(name, domains) ==
  Suffix(name, CHOOSE k \in Matching(name, domains) :
                 \A l \in Matching(name, domains) : k <= l)

-----------------------------------------------------------------------------
Errors == {"error", "servfail", "loop"}

(* The upstreams: a record, an empty answer, an error or the message of a  *)
(* server failure for every name.                                          *)
Upstream(c, who, r) ==
  CASE c.upstream = "record" ->
         Answer(r, <<Record(r.name, r.qtype, Root)>>, {<<who, r.name>>})
    [] c.upstream = "empty" -> Answer(r, <<>>, {<<who, r.name>>})
    [] OTHER -> Failure(c.upstream, r, {<<who, r.name>>})

(* Mistake: the parents of a name are not looked up. *)
SpecialUseExact(c, r) ==
  IF r.lower /\ r.name \in DOMAIN c.special /\ c.special[r.name] # "forward"
  THEN Answer(r, <<>>, {})
  ELSE Upstream(c, "tree", r)

(* sudn_resolver.go: the handler of a domain answers or, if there is none  *)
(* or it is not configured, forwards; the domain is looked up as spelled.  *)
SpecialUse(c, r) ==
  LET found == r.lower /\ Matching(r.name, DOMAIN c.special) # {}
      handler == c.special[Closest(r.name, DOMAIN c.special)]
  IN  IF found /\ handler # "forward"
      THEN Answer(r, IF handler = "localhost" /\ r.qtype = "A"
                     THEN <<Record(r.name, "A", Root)>> ELSE <<>>, {})
      ELSE Upstream(c, "tree", r)

(* conditional_upstream_resolver.go: a name without a dot is only looked   *)
(* up as the root; the name is asked in lower case.                        *)
HasConditional(c, r) ==
  IF Len(r.name) > 1 THEN Matching(r.name, c.conditional) # {}
                     ELSE Root \in c.conditional

-----------------------------------------------------------------------------
(* rewriter_resolver.go: the suffix of a longer name is replaced; if there *)
(* are several to replace, the map yields any of them.                     *)
Rewritings(rules, name) ==
  LET from == Matching(name, DOMAIN rules) \ {1}
  IN  IF from = {} THEN {name}
      ELSE {SubSeq(name, 1, k - 1) \o rules[Suffix(name, k)] : k \in from}

(* Mistake: only the question is put back. *)
RestoredQuestion(result, from, to) ==
  [result EXCEPT !.question = IF @ = <<from>> THEN <<to>> ELSE @]

(* The names of the rewritten request are put back in the response. *)
Restored(result, from, to) ==
  LET Back(n) == IF n = from THEN to ELSE n
      records == [k \in DOMAIN result.records |->
                    [result.records[k] EXCEPT !.owner = Back(@)]]
  IN  [result EXCEPT !.question = <<Back(@[1])>>, !.records = records]

(* Mistake: a missing response is not looked for. *)
GoesOnIfEmpty(inner, fallback) ==
  \/ fallback /\ inner.kind \in Errors
  \/ fallback /\ inner.kind = "answer" /\ inner.records = <<>>

(* The request goes on to the next resolver: there is no response or, if a *)
(* fallback is configured, there is an error or no record.                 *)
GoesOn(inner, fallback) ==
  \/ inner.kind = "none"
  \/ fallback /\ inner.kind \in Errors
  \/ fallback /\ inner.kind = "answer" /\ inner.records = <<>>

(* Resolve of the rewriter, for what its inner resolver returns for the    *)
(* rewritten request s and the next resolver for the request r.  An error  *)
(* is returned as it is.                                                   *)
Rewriter(fallback, r, s, inner, next) ==
  IF GoesOn(inner, fallback) THEN After(inner, next)
  ELSE IF inner.kind = "answer" THEN Restored(inner, s.name, r.name)
  ELSE inner

NoResponse(r) == Failure("none", r, {})

(* The conditional upstreams; without one, `next` is the response. *)
ConditionalOr(c, r, next) ==
  IF HasConditional(c, r) THEN Upstream(c, "conditional", r) ELSE next

(* The conditional upstreams and what comes after them: what they may      *)
(* return.  In the rewriter the inner resolver has no next one.            *)
Renamed(r, name) == [r EXCEPT !.name = name]

Conditional(c, r) ==
  IF DOMAIN c.condRewrite = {} THEN {ConditionalOr(c, r, SpecialUse(c, r))}
  ELSE {Rewriter(c.condFallback, r, s, ConditionalOr(c, s, NoResponse(s)),
                 SpecialUse(c, r)) :
          s \in {Renamed(r, n) : n \in Rewritings(c.condRewrite, r.name)}}

-----------------------------------------------------------------------------
(* The end: what the custom DNS resolver returns goes through its rewriter *)
(* if there is one.                                                        *)
Custom(c, r, s, inner) ==
  IF DOMAIN c.rewrite = {} THEN {inner}
  ELSE {Rewriter(c.fallback, r, s, inner, next) : next \in Conditional(c, r)}

(* handleReq: an error or a panic is answered with a server failure, that  *)
(* of an upstream with its own message.                                    *)
HandleReq(result) ==
  /\ reply' = IF result.kind \in {"answer", "servfail"} THEN result
              ELSE Failure(result.kind, asked, result.to)
  /\ sent' = sent \cup result.to
  /\ calls' = <<>>

CustomReturns(inner) ==
  \E result \in Custom(conf, asked, Renamed(asked, start), inner) : HandleReq(result)

-----------------------------------------------------------------------------
(* custom_dns_resolver.go.  The entries of a domain are a sequence of      *)
(* records; an address is the domain of its reverse lookup.                *)

(* Mistake: within the rewriter it still has the rest of the chain. *)
CustomNextAlways(c, r) == Conditional(c, r)

(* What the next resolver may return. *)
CustomNext(c, r) ==
  IF DOMAIN c.rewrite # {} THEN {NoResponse(r)} ELSE Conditional(c, r)

(* A call of processRequest: the request, the targets of CNAMEs on the way *)
(* to it, the entry that is next and the records collected so far.         *)
Frame(r, seen) == [req |-> r, seen |-> seen, next |-> 1, records |-> <<>>]

IsMapped(name) == Matching(name, DOMAIN conf.mapping) # {}

EntriesOf(name) == conf.mapping[Closest(name, DOMAIN conf.mapping)]

Top(stack) == stack[Len(stack)]

Below(stack) == SubSeq(stack, 1, Len(stack) - 1)

(* The last call goes on to its next entry with some more records. *)
Proceed(stack, records) ==
  [stack EXCEPT ![Len(stack)].next = @ + 1,
                ![Len(stack)].records = @ \o records]

(* A call returns to the one before, which takes the records.  An error    *)
(* ends all calls.  NoResponse has no message: reading its answer panics.  *)
Return(stack, result) ==
  \/ /\ stack = <<>>
     /\ CustomReturns(result)
  \/ /\ stack # <<>> /\ result.kind = "answer"
     /\ calls' = [stack EXCEPT ![Len(stack)].records = @ \o result.records]
     /\ sent' = sent \cup result.to
     /\ UNCHANGED reply
  \/ /\ stack # <<>> /\ result.kind = "none"
     /\ CustomReturns(Failure("panic", Top(stack).req, {}))
  \/ /\ stack # <<>> /\ result.kind \in Errors
     /\ CustomReturns(result)

GoToNext(stack, r) == \E result \in CustomNext(conf, r) : Return(stack, result)

(* processRequest, up to its entries; the time for the request may be up.  *)
ProcessRequest(stack, r, seen) ==
  \/ /\ IsMapped(r.name)
     /\ calls' = Append(stack, Frame(r, seen))
     /\ UNCHANGED <<sent, reply>>
  \/ /\ ~IsMapped(r.name)
     /\ GoToNext(stack, r)
  \/ /\ r.name # Root
     /\ CustomReturns(Failure("error", r, {}))

(* Mistake: the entries of a domain share the targets they have seen. *)
ProcessCNAMEShared(f, e) ==
  LET cname == Record(f.req.name, "CNAME", e.data)
      target == [f.req EXCEPT !.id = InternalId, !.name = e.data, !.lower = TRUE]
      waiting == [Proceed(calls, <<cname>>) EXCEPT ![Len(calls)].seen = @ \cup {e.data}]
  IN  /\ e.type = "CNAME"
      /\ \/ /\ f.req.qtype = "CNAME"
            /\ calls' = Proceed(calls, <<cname>>)
            /\ UNCHANGED <<sent, reply>>
         \/ /\ f.req.qtype # "CNAME" /\ e.data \in f.seen
            /\ CustomReturns(Failure("loop", f.req, {}))
         \/ /\ f.req.qtype # "CNAME" /\ e.data \notin f.seen
            /\ ProcessRequest(waiting, target, f.seen \cup {e.data})

(* Resolves the target of a CNAME, unless the CNAME itself is asked for or *)
(* the target was seen on the way.                                         *)
ProcessCNAME(f, e) ==
  LET cname == Record(f.req.name, "CNAME", e.data)
      target == [f.req EXCEPT !.id = InternalId, !.name = e.data, !.lower = TRUE]
  IN  /\ e.type = "CNAME"
      /\ \/ /\ f.req.qtype = "CNAME"
            /\ calls' = Proceed(calls, <<cname>>)
            /\ UNCHANGED <<sent, reply>>
         \/ /\ f.req.qtype # "CNAME" /\ e.data \in f.seen
            /\ CustomReturns(Failure("loop", f.req, {}))
         \/ /\ f.req.qtype # "CNAME" /\ e.data \notin f.seen
            /\ ProcessRequest(Proceed(calls, <<cname>>), target, f.seen \cup {e.data})

ProcessValue(f, e) ==
  /\ e.type \in Supported \ {"CNAME"}
  /\ calls' = Proceed(calls, IF e.type = f.req.qtype
                             THEN <<Record(f.req.name, e.type, e.data)>> ELSE <<>>)
  /\ UNCHANGED <<sent, reply>>

(* An entry of the last call.  Zones may have entries of any type. *)
ProcessDNSEntry ==
  /\ calls # <<>>
  /\ LET f == Top(calls)
         entries == EntriesOf(f.req.name)
     IN  /\ f.next <= Len(entries)
         /\ \/ ProcessCNAME(f, entries[f.next])
            \/ ProcessValue(f, entries[f.next])
            \/ /\ entries[f.next].type \notin Supported
               /\ CustomReturns(Failure("error", f.req, {}))
  /\ UNCHANGED <<conf, asked, start>>

(* The end of the entries: without a record, unmapped types go on. *)
EndEntries ==
  /\ calls # <<>>
  /\ LET f == Top(calls)
     IN  /\ f.next > Len(EntriesOf(f.req.name))
         /\ \/ /\ f.records # <<>> \/ conf.filterUnmappedTypes
               /\ Return(Below(calls), Answer(f.req, f.records, {}))
            \/ /\ f.records = <<>> /\ ~conf.filterUnmappedTypes
               /\ GoToNext(Below(calls), f.req)
  /\ UNCHANGED <<conf, asked, start>>

(* handleReverseDNS: the entries that have the address, in any order. *)
ReverseAddresses(c, name) ==
  {p \in UNION {{d} \X DOMAIN c.mapping[d] : d \in DOMAIN c.mapping} :
     c.mapping[p[1]][p[2]] = [type |-> "A", data |-> name]}

Orders(S) == {f \in [1..Cardinality(S) -> S] : IsInjective(f)}

CustomDNS(r) ==
  LET found == ReverseAddresses(conf, r.name)
  IN  \/ /\ r.qtype = "PTR" /\ found # {}
         /\ \E urls \in Orders(found) :
              CustomReturns(Answer(r, [i \in DOMAIN urls |->
                                         Record(r.name, "PTR", urls[i][1])], {}))
      \/ /\ ~(r.qtype = "PTR" /\ found # {})
         /\ ProcessRequest(<<>>, r, {})

-----------------------------------------------------------------------------
NoReply == Failure("pending", NoRequest, {})

ChainInit ==
  /\ conf \in Configs
  /\ asked = NoRequest
  /\ start = Root
  /\ calls = <<>>
  /\ sent = {}
  /\ reply = NoReply

Ask(r) ==
  /\ asked = NoRequest
  /\ asked' = r
  /\ start' \in Rewritings(conf.rewrite, r.name)
  /\ UNCHANGED <<conf, calls, sent, reply>>

(* The chain: filtering and names without a dot come first.  The response  *)
(* for such a name is not made from the request.                           *)
IsFiltered == asked.qtype \in conf.filter

IsRefused == ~IsFiltered /\ conf.fqdnOnly /\ Len(asked.name) <= 1

Resolve ==
  /\ asked # NoRequest /\ calls = <<>> /\ reply = NoReply
  /\ \/ IsFiltered /\ HandleReq(Answer(asked, <<>>, {}))
     \/ IsRefused /\ HandleReq([Answer(asked, <<>>, {}) EXCEPT !.id = NoId,
                                                              !.question = <<>>])
     \/ ~IsFiltered /\ ~IsRefused /\ CustomDNS(Renamed(asked, start))
  /\ UNCHANGED <<conf, asked, start>>

ChainNext == (\E r \in Requests : Ask(r)) \/ Resolve \/ ProcessDNSEntry \/ EndEntries

ChainSpec == ChainInit /\ [][ChainNext]_chainVars

-----------------------------------------------------------------------------
(* The targets of the CNAMEs of a name, as they are configured for it or   *)
(* for its closest parent, and all targets.                                *)
TargetsOf(entries) == {e.data : e \in {f \in Range(entries) : f.type = "CNAME"}}

Targets(name) == IF IsMapped(name) THEN TargetsOf(EntriesOf(name)) ELSE {}

AllTargets == UNION {TargetsOf(conf.mapping[d]) : d \in DOMAIN conf.mapping}

(* The targets that a name leads to: the least set that has its targets    *)
(* and the targets of its own members.                                     *)
LeadsTo(name) ==
  {t \in AllTargets :
     \A S \in SUBSET AllTargets :
       Targets(name) \subseteq S /\ (\A u \in S : Targets(u) \subseteq S) => t \in S}

Cyclic == \E t \in LeadsTo(start) : t \in LeadsTo(t)

Replied == reply # NoReply

(* The request gets past the resolvers before the custom DNS resolver and  *)
(* asks for the records of a target.                                       *)
FollowsCNAMEs ==
  Replied /\ asked.qtype \notin {"CNAME", "PTR"} /\ ~IsFiltered /\ ~IsRefused

(* The custom DNS resolver reports a loop of CNAMEs only if the name leads *)
(* to a cycle, through whatever mix of names and parents, and a name that  *)
(* leads to a cycle gets no answer made from it, unless an error falls     *)
(* back to the upstreams.                                                  *)
LoopIffCycle ==
  FollowsCNAMEs =>
    /\ reply.kind = "loop" => Cyclic
    /\ Cyclic /\ ~(conf.fallback /\ DOMAIN conf.rewrite # {}) =>
         reply.kind \in Errors \cup {"panic"}

(* The message of an upstream failure that was asked for another name: the *)
(* target of a CNAME, or what the conditional rewriter made of the name.   *)
ForeignFailure ==
  /\ reply.kind = "servfail"
  /\ \/ LeadsTo(start) # {}
     \/ Rewritings(conf.condRewrite, asked.name) # {asked.name}

(* Every reply is one to its request: it has the number and the question   *)
(* of the request although the request was rewritten on the way, and each  *)
(* record belongs to the name that was asked or to the target of an        *)
(* earlier CNAME.  A name without a dot that is refused is an exception,   *)
(* and so is the failure of an upstream that was asked for another name.   *)
AnswersTheRequest ==
  Replied /\ ~IsRefused /\ ~ForeignFailure =>
    /\ reply.id = asked.id /\ reply.question = <<asked.name>>
    /\ \A i \in DOMAIN reply.records :
         reply.records[i].owner \in
           {asked.name} \cup {reply.records[j].data : j \in 1..(i - 1)}

(* The names that the upstreams at the end of the chain were asked. *)
SentToTree == {n \in {to[2] : to \in sent} : <<"tree", n>> \in sent}

(* They are the name of the request or the target of a CNAME, never a      *)
(* rewritten name.                                                         *)
RewritesStayInside == SentToTree \subseteq {asked.name} \cup AllTargets

(* A special-use name, in lower case, is not asked at those upstreams. *)
SpecialStaysInside ==
  asked.lower =>
    \A n \in SentToTree :
      Matching(n, DOMAIN conf.special) # {} =>
        conf.special[Closest(n, DOMAIN conf.special)] = "forward"

(* A response without a message never gets to the server, and a request    *)
(* panics only in the custom DNS resolver, when names are rewritten and    *)
(* the request leads to a target that the mapping does not answer.         *)
PanicsOnlyAtATarget ==
  /\ reply.kind # "none"
  /\ reply.kind = "panic" =>
       /\ DOMAIN conf.rewrite # {}
       /\ \E t \in LeadsTo(start) : ~IsMapped(t) \/ ~conf.filterUnmappedTypes
=============================================================================
