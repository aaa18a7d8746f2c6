----------------------------- MODULE ChainProofs ----------------------------
(***************************************************************************)
(* Proofs about ResolverChain, for every configuration of the rewriters,   *)
(* of the custom mapping and of the conditional upstreams, and for every   *)
(* set of domains and requests.                                            *)
(***************************************************************************)
EXTENDS ResolverChain, TLAPS

(* A configuration that the program can run with, in which the closest of  *)
(* the mapped domains is one of them, and the names of an address can be   *)
(* counted.                                                                *)
GoodConf ==
  /\ ConfigOK(conf)
  /\ \A x \in Domain : IsMapped(x) => Closest(x, DOMAIN conf.mapping) \in DOMAIN conf.mapping
  /\ \A x : Cardinality(ReverseAddresses(conf, x)) \in Nat

-----------------------------------------------------------------------------

(* The targets of a name are targets, targets are domains, and what is     *)
(* configured for a name are entries.                                      *)
LEMMA TargetsAreDomains ==
  ASSUME GoodConf
  PROVE  /\ AllTargets \subseteq Domain
         /\ \A x \in Domain : Targets(x) \subseteq AllTargets
         /\ \A x \in Domain : IsMapped(x) => EntriesOf(x) \in Seq(Entry)
  <1>1. \A d \in DOMAIN conf.mapping : TargetsOf(conf.mapping[d]) \subseteq Domain
    <2> SUFFICES ASSUME NEW d \in DOMAIN conf.mapping, NEW i \in DOMAIN conf.mapping[d]
                 PROVE  conf.mapping[d][i].data \in Domain
      BY DEF TargetsOf, Range
    <2>1. conf.mapping[d] \in Seq(Entry)
      BY DEF GoodConf, ConfigOK
    <2>2. conf.mapping[d][i] \in Entry
      BY <2>1
    <2>3. QED
      BY <2>2 DEF Entry
  <1>2. \A x \in Domain : IsMapped(x) =>
           Closest(x, DOMAIN conf.mapping) \in DOMAIN conf.mapping
    BY DEF GoodConf
  <1>3. QED
    BY <1>1, <1>2 DEF AllTargets, Targets, EntriesOf, GoodConf, ConfigOK

(* What a name leads to has its targets and the targets of its own         *)
(* members.                                                                *)
LEMMA LeadsToClosed ==
  ASSUME GoodConf, NEW x \in Domain
  PROVE  /\ LeadsTo(x) \subseteq AllTargets
         /\ Targets(x) \subseteq LeadsTo(x)
         /\ \A u \in LeadsTo(x) : Targets(u) \subseteq LeadsTo(x)
  BY TargetsAreDomains DEF LeadsTo

(* And it is within every set of targets that has them. *)
LEMMA LeadsToLeast ==
  ASSUME GoodConf, NEW x \in Domain, NEW S \in SUBSET AllTargets,
         Targets(x) \subseteq S, \A u \in S : Targets(u) \subseteq S
  PROVE  LeadsTo(x) \subseteq S
  BY DEF LeadsTo

(* What a target of a name leads to, the name leads to. *)
LEMMA LeadsOn ==
  ASSUME GoodConf, NEW x \in Domain, NEW u \in LeadsTo(x)
  PROVE  LeadsTo(u) \subseteq LeadsTo(x)
  <1>1. u \in Domain /\ LeadsTo(x) \in SUBSET AllTargets
    BY LeadsToClosed, TargetsAreDomains
  <1>2. QED
    BY <1>1, LeadsToClosed, LeadsToLeast

(* What a name leads to is one of its targets, or one of its targets leads *)
(* to it.                                                                  *)
LEMMA LeadsThroughTarget ==
  ASSUME GoodConf, NEW x \in Domain, NEW u \in LeadsTo(x)
  PROVE  u \in Targets(x) \/ \E t \in Targets(x) : u \in LeadsTo(t)
  <1> DEFINE S == Targets(x) \cup UNION {LeadsTo(t) : t \in Targets(x)}
  <1>1. Targets(x) \subseteq Domain /\ Targets(x) \subseteq AllTargets
    BY TargetsAreDomains
  <1>2. S \in SUBSET AllTargets
    BY <1>1, LeadsToClosed
  <1>3. \A v \in S : Targets(v) \subseteq S
    BY <1>1, LeadsToClosed
  <1>4. LeadsTo(x) \subseteq S
    BY Zenon, <1>2, <1>3, LeadsToLeast
  <1>5. QED
    BY <1>4

(* No cycle can be reached. *)
Acyclic(x) == \A u \in LeadsTo(x) : u \notin LeadsTo(u)

(* A name all of whose targets lead to no cycle leads to no cycle: what    *)
(* processRequest knows at the end of the entries of a name.               *)
LEMMA AcyclicByTargets ==
  ASSUME GoodConf, NEW x \in Domain, \A t \in Targets(x) : Acyclic(t)
  PROVE  Acyclic(x)
  BY LeadsThroughTarget DEF Acyclic

-----------------------------------------------------------------------------
(* What a call of processRequest holds. *)
RecordSet == [owner : Domain, type : RecordTypes, data : Domain]

FrameSet ==
  [req : Request, seen : SUBSET AllTargets, next : Nat \ {0}, records : Seq(RecordSet)]

(* Each record belongs to the name or to the target of an earlier one. *)
Chained(name, records) ==
  \A i \in DOMAIN records :
    records[i].owner \in {name} \cup {records[j].data : j \in 1..(i - 1)}

EntryAt(f, j) == EntriesOf(f.req.name)[j]

(* Nothing that the entries before the n-th lead to is on a cycle. *)
SettledBefore(f, n) ==
  \A j \in 1..(n - 1) :
    EntryAt(f, j).type = "CNAME" /\ f.req.qtype # "CNAME" => Acyclic(EntryAt(f, j).data)

(* The targets on the way to a call lead to its name. *)
OnTheWay(targets, name) ==
  \A t \in targets : t \in LeadsTo(start) /\ (t = name \/ name \in LeadsTo(t))

FrameOK(f) ==
  /\ IsMapped(f.req.name)
  /\ f.next <= Len(EntriesOf(f.req.name)) + 1
  /\ Chained(f.req.name, f.records)
  /\ OnTheWay(f.seen, f.req.name)
  /\ f.records = <<>> => \A j \in 1..(f.next - 1) : EntryAt(f, j).type # "CNAME"

(* The first call is for the request, the others for targets. *)
RequestOK(first, r) ==
  IF first THEN r = Renamed(asked, start)
  ELSE r.name \in LeadsTo(start) /\ r.lower /\ r.qtype = asked.qtype

(* A call waits for the target of the CNAME that it has collected last. *)
WaitsFor(f, name) ==
  /\ f.next > 1
  /\ EntryAt(f, f.next - 1).type = "CNAME" /\ EntryAt(f, f.next - 1).data = name
  /\ f.req.qtype # "CNAME"
  /\ f.records # <<>> /\ f.records[Len(f.records)].data = name
  /\ SettledBefore(f, f.next - 1)

(* All calls wait, the last one for a name. *)
CallsWait(stack, name) ==
  /\ stack \in Seq(FrameSet)
  /\ \A i \in 1..Len(stack) :
       /\ FrameOK(stack[i]) /\ RequestOK(i = 1, stack[i].req)
       /\ WaitsFor(stack[i], IF i = Len(stack) THEN name ELSE stack[i + 1].req.name)

(* The last call is at work and the others wait. *)
CallsOK(stack) ==
  /\ stack \in Seq(FrameSet)
  /\ stack # <<>> =>
       /\ CallsWait(Below(stack), Top(stack).req.name)
       /\ FrameOK(Top(stack)) /\ RequestOK(Len(stack) = 1, Top(stack).req)
       /\ SettledBefore(Top(stack), Top(stack).next)

NotSpecial(n) ==
  Matching(n, DOMAIN conf.special) # {} =>
    conf.special[Closest(n, DOMAIN conf.special)] = "forward"

(* What the upstreams at the end of the chain may be asked. *)
SentOK(to) ==
  \A p \in to : p[1] = "tree" => /\ p[2] \in {asked.name} \cup AllTargets
                                 /\ asked.lower => NotSpecial(p[2])

UnderWay == asked # NoRequest /\ reply = NoReply /\ ~IsFiltered /\ ~IsRefused

ChainInv ==
  /\ conf \in Configs /\ GoodConf
  /\ asked \in Requests \cup {NoRequest}
  /\ start \in Domain
  /\ asked = NoRequest => calls = <<>> /\ sent = {} /\ reply = NoReply
  /\ asked # NoRequest => start \in Rewritings(conf.rewrite, asked.name)
  /\ calls # <<>> => UnderWay
  /\ CallsOK(calls)
  /\ SentOK(sent)
  /\ LoopIffCycle /\ AnswersTheRequest /\ PanicsOnlyAtATarget

-----------------------------------------------------------------------------
Recipients == SUBSET ({"tree", "conditional"} \X Domain)

Kinds == {"answer", "none", "panic", "pending", "error", "servfail", "loop"}

ResultSet ==
  [kind : Kinds, id : Nat, question : Seq(Domain), records : Seq(RecordSet),
   to : Recipients]

(* A result that was made from a request, with records of its name. *)
Plain(result, r) ==
  /\ result \in ResultSet
  /\ result.kind \in {"answer", "error", "servfail"}
  /\ result.id = r.id /\ result.question = <<r.name>>
  /\ \A i \in DOMAIN result.records : result.records[i].owner = r.name
  /\ result.kind # "answer" => result.records = <<>>

(* What a resolver makes from a request has its number and its question. *)
LEMMA ResultTyped ==
  ASSUME NEW r \in Request, NEW kind \in Kinds, NEW records \in Seq(RecordSet),
         NEW to \in Recipients
  PROVE  /\ Result(kind, r, records, to) \in ResultSet
         /\ Result(kind, r, records, to).kind = kind
         /\ Result(kind, r, records, to).id = r.id
         /\ Result(kind, r, records, to).question = <<r.name>>
         /\ Result(kind, r, records, to).records = records
         /\ Result(kind, r, records, to).to = to
  <1>1. r.id \in Nat /\ r.name \in Domain
    BY DEF Request
  <1>2. <<r.name>> \in Seq(Domain)
    BY <1>1
  <1>3. QED
    BY <1>1, <1>2 DEF Result, ResultSet

(* No records and no recipients are records and recipients. *)
LEMMA NothingTyped ==
  <<>> \in Seq(RecordSet) /\ {} \in Recipients
  BY DEF Recipients

(* A record made from a request belongs to its name. *)
LEMMA RecordTyped ==
  ASSUME NEW r \in Request, NEW type \in RecordTypes
  PROVE  /\ <<Record(r.name, type, Root)>> \in Seq(RecordSet)
         /\ \A i \in DOMAIN <<Record(r.name, type, Root)>> :
              <<Record(r.name, type, Root)>>[i].owner = r.name
  <1> DEFINE rec == Record(r.name, type, Root)
  <1>1. r.name \in Domain /\ Root \in Domain
    BY DEF Request, Root, Domain
  <1>2. rec \in RecordSet /\ rec.owner = r.name
    BY <1>1 DEF Record, RecordSet
  <1> HIDE DEF rec
  <1>3. <<rec>> \in Seq(RecordSet) /\ \A i \in DOMAIN <<rec>> : <<rec>>[i].owner = r.name
    BY <1>2
  <1>4. QED
    BY <1>3 DEF rec

(* A result made from a request with records of its name is a plain one. *)
LEMMA PlainResult ==
  ASSUME NEW r \in Request, NEW kind \in {"answer", "error", "servfail"},
         NEW records \in Seq(RecordSet), \A i \in DOMAIN records : records[i].owner = r.name,
         kind # "answer" => records = <<>>, NEW to \in Recipients,
         NEW result, result = Result(kind, r, records, to)
  PROVE  Plain(result, r) /\ result.to = to
  <1>1. kind \in Kinds
    BY DEF Kinds
  <1>2. QED
    BY <1>1, ResultTyped DEF Plain

(* What a resolver makes from a request without a record. *)
LEMMA EmptyTyped ==
  ASSUME NEW r \in Request, NEW kind \in Kinds, NEW to \in Recipients,
         NEW result, result = Result(kind, r, <<>>, to)
  PROVE  /\ result \in ResultSet /\ result.kind = kind /\ result.id = r.id
         /\ result.question = <<r.name>> /\ result.records = <<>> /\ result.to = to
  <1>1. r.id \in Nat /\ r.name \in Domain /\ <<r.name>> \in Seq(Domain)
    BY DEF Request
  <1>2. <<>> \in Seq(RecordSet)
    BY NothingTyped
  <1>3. QED
    BY <1>1, <1>2 DEF Result, ResultSet

(* And it is a plain one. *)
LEMMA PlainEmpty ==
  ASSUME NEW r \in Request, NEW kind \in {"answer", "error", "servfail"},
         NEW to \in Recipients, NEW result, result = Result(kind, r, <<>>, to)
  PROVE  Plain(result, r) /\ result.to = to
  <1>1. kind \in Kinds
    BY DEF Kinds
  <1>2. QED
    BY <1>1, EmptyTyped DEF Plain

(* An upstream asks for the name of its request and returns a plain        *)
(* result, whatever it answers.                                            *)
LEMMA UpstreamPlain ==
  ASSUME GoodConf, NEW r \in Request, NEW who \in {"tree", "conditional"}
  PROVE  Plain(Upstream(conf, who, r), r) /\ Upstream(conf, who, r).to = {<<who, r.name>>}
  <1> DEFINE to == {<<who, r.name>>}
             recs == <<Record(r.name, r.qtype, Root)>>
             result == Upstream(conf, who, r)
  <1>1. conf.upstream \in {"record", "empty", "error", "servfail"}
    BY DEF GoodConf, ConfigOK
  <1>2. r.name \in Domain /\ r.qtype \in RecordTypes /\ to \in Recipients
    BY DEF Request, Recipients
  <1>3. recs \in Seq(RecordSet) /\ \A i \in DOMAIN recs : recs[i].owner = r.name
    BY <1>2, RecordTyped
  <1>4. \/ result = Result("answer", r, recs, to)
        \/ \E k \in {"answer", "error", "servfail"} : result = Result(k, r, <<>>, to)
    BY <1>1, Zenon DEF Upstream, Answer, Failure
  <1> HIDE DEF to, recs, result
  <1>5. Plain(result, r) /\ result.to = to
    <2>1. CASE result = Result("answer", r, recs, to)
      BY <1>2, <1>3, <2>1, PlainResult
    <2>2. ASSUME NEW k \in {"answer", "error", "servfail"}, result = Result(k, r, <<>>, to)
          PROVE  Plain(result, r) /\ result.to = to
      BY <1>2, <2>2, PlainEmpty
    <2>3. QED
      BY <1>4, <2>1, <2>2
  <1>6. QED
    BY <1>5 DEF to, result

(* So do the special-use domains, which ask the upstreams for no special-  *)
(* use name in lower case.                                                 *)
LEMMA SpecialUsePlain ==
  ASSUME GoodConf, NEW r \in Request
  PROVE  /\ Plain(SpecialUse(conf, r), r)
         /\ \A p \in SpecialUse(conf, r).to :
              p = <<"tree", r.name>> /\ (r.lower => NotSpecial(r.name))
  <1> DEFINE recs == <<Record(r.name, "A", Root)>>
             result == SpecialUse(conf, r)
  <1>1. \/ result = Upstream(conf, "tree", r) /\ (r.lower => NotSpecial(r.name))
        \/ result = Result("answer", r, <<>>, {})
        \/ result = Result("answer", r, recs, {})
    BY Zenon DEF SpecialUse, NotSpecial, Answer
  <1>2. recs \in Seq(RecordSet) /\ \A i \in DOMAIN recs : recs[i].owner = r.name
    BY RecordTyped, ChainAssumption DEF Supported
  <1> HIDE DEF recs, result
  <1>3. CASE result = Upstream(conf, "tree", r) /\ (r.lower => NotSpecial(r.name))
    <2>1. Plain(result, r) /\ result.to = {<<"tree", r.name>>}
      BY <1>3, UpstreamPlain
    <2>2. QED
      BY <1>3, <2>1 DEF result
  <1>4. CASE result = Result("answer", r, <<>>, {})
    <2>1. Plain(result, r) /\ result.to = {}
      BY <1>4, NothingTyped, PlainEmpty
    <2>2. QED
      BY <2>1 DEF result
  <1>5. CASE result = Result("answer", r, recs, {})
    <2>1. Plain(result, r) /\ result.to = {}
      BY <1>2, <1>5, NothingTyped, PlainResult
    <2>2. QED
      BY <2>1 DEF result
  <1>6. QED
    BY <1>1, <1>3, <1>4, <1>5

(* A rewritten name is a name. *)
LEMMA RewritingsAreDomains ==
  ASSUME NEW name \in Domain, NEW rules, \A d \in DOMAIN rules : rules[d] \in Domain,
         NEW n \in Rewritings(rules, name)
  PROVE  n \in Domain
  <1>1. CASE n = name
    BY <1>1
  <1>2. CASE \E k \in Matching(name, DOMAIN rules) \ {1} :
               n = SubSeq(name, 1, k - 1) \o rules[Suffix(name, k)]
    <2> PICK k \in Matching(name, DOMAIN rules) \ {1} :
               n = SubSeq(name, 1, k - 1) \o rules[Suffix(name, k)]
      BY Zenon, <1>2
    <2>1. k \in 1..Len(name) /\ Suffix(name, k) \in DOMAIN rules
      BY DEF Matching
    <2>2. SubSeq(name, 1, k - 1) \in Seq(Labels)
      BY <2>1 DEF Domain
    <2>3. QED
      BY <2>1, <2>2 DEF Domain
  <1>3. QED
    BY Zenon, <1>1, <1>2 DEF Rewritings

(* Without rules a name stays as it is. *)
LEMMA NothingRewritten ==
  ASSUME NEW name \in Domain, NEW rules, DOMAIN rules = {}
  PROVE  Rewritings(rules, name) = {name}
  BY DEF Rewritings, Matching

(* The result of the next resolver, after another one, only has more       *)
(* recipients.                                                             *)
LEMMA AfterTyped ==
  ASSUME NEW before \in ResultSet, NEW result \in ResultSet
  PROVE  /\ After(before, result) \in ResultSet
         /\ After(before, result).kind = result.kind
         /\ After(before, result).id = result.id
         /\ After(before, result).question = result.question
         /\ After(before, result).records = result.records
         /\ After(before, result).to = before.to \cup result.to
  <1>1. before.to \cup result.to \in Recipients
    BY DEF ResultSet, Recipients
  <1>2. QED
    BY Zenon, <1>1 DEF After, ResultSet

(* Putting the names back changes the question and the owners of the       *)
(* records, and nothing else.                                              *)
LEMMA RestoredTyped ==
  ASSUME NEW result \in ResultSet, NEW from \in Domain, NEW to \in Domain,
         result.question = <<from>>
  PROVE  /\ Restored(result, from, to) \in ResultSet
         /\ Restored(result, from, to).kind = result.kind
         /\ Restored(result, from, to).id = result.id
         /\ Restored(result, from, to).question = <<to>>
         /\ DOMAIN Restored(result, from, to).records = DOMAIN result.records
         /\ \A i \in DOMAIN result.records :
              /\ Restored(result, from, to).records[i].data = result.records[i].data
              /\ Restored(result, from, to).records[i].owner
                   = IF result.records[i].owner = from THEN to ELSE result.records[i].owner
         /\ Restored(result, from, to).to = result.to
  <1> DEFINE Back(n) == IF n = from THEN to ELSE n
             recs == [k \in DOMAIN result.records |->
                        [result.records[k] EXCEPT !.owner = Back(@)]]
             restored == [result EXCEPT !.question = <<to>>, !.records = recs]
  <1>1. Restored(result, from, to) = restored
    <2>1. Restored(result, from, to)
            = [result EXCEPT !.question = <<Back(result.question[1])>>, !.records = recs]
      BY Zenon DEF Restored
    <2>2. Back(result.question[1]) = to
      OBVIOUS
    <2>3. QED
      BY <2>1, <2>2, Zenon
  <1>2. result.records \in Seq(RecordSet) /\ <<to>> \in Seq(Domain)
    BY DEF ResultSet
  <1>3. \A i \in DOMAIN result.records :
          /\ recs[i] \in RecordSet
          /\ recs[i].data = result.records[i].data
          /\ recs[i].owner = Back(result.records[i].owner)
    <2> SUFFICES ASSUME NEW i \in DOMAIN result.records
                 PROVE  /\ recs[i] \in RecordSet
                        /\ recs[i].data = result.records[i].data
                        /\ recs[i].owner = Back(result.records[i].owner)
      BY Zenon
    <2>1. result.records[i] \in RecordSet
      BY <1>2
    <2>2. QED
      BY <2>1 DEF RecordSet
  <1>4. recs \in Seq(RecordSet) /\ DOMAIN recs = DOMAIN result.records
    <2>1. DOMAIN result.records = 1..Len(result.records) /\ Len(result.records) \in Nat
      BY <1>2
    <2>2. DOMAIN recs = DOMAIN result.records
      OBVIOUS
    <2>3. recs = [k \in 1..Len(result.records) |-> recs[k]]
      BY <2>1
    <2> HIDE DEF recs
    <2>4. QED
      BY <1>3, <2>1, <2>2, <2>3
  <1> HIDE DEF recs
  <1>5. /\ restored \in ResultSet
        /\ restored.kind = result.kind /\ restored.id = result.id /\ restored.to = result.to
        /\ restored.question = <<to>> /\ restored.records = recs
    BY Zenon, <1>2, <1>4 DEF ResultSet
  <1>6. QED
    BY <1>1, <1>3, <1>4, <1>5

(* What the conditional upstreams and the resolvers after them return. *)
RestOK(result, r) ==
  /\ result \in ResultSet
  /\ result.kind \in {"answer", "error", "servfail"}
  /\ (result.kind = "answer" \/ Rewritings(conf.condRewrite, r.name) = {r.name})
     => result.id = r.id /\ result.question = <<r.name>>
  /\ Chained(r.name, result.records)
  /\ result.kind # "answer" => result.records = <<>>
  /\ \A p \in result.to : p[1] = "tree" => p[2] = r.name /\ (r.lower => NotSpecial(r.name))

(* Records of a name need no CNAME to belong to it. *)
LEMMA OwnRecordsChained ==
  ASSUME NEW name, NEW records, \A i \in DOMAIN records : records[i].owner = name
  PROVE  Chained(name, records)
  BY DEF Chained

(* A request with another name is a request, and keeps the rest. *)
LEMMA RenamedTyped ==
  ASSUME NEW r \in Request, NEW n \in Domain
  PROVE  /\ Renamed(r, n) \in Request
         /\ Renamed(r, n).name = n /\ Renamed(r, n).id = r.id
         /\ Renamed(r, n).qtype = r.qtype /\ Renamed(r, n).lower = r.lower
  BY DEF Renamed, Request

(* The conditional upstreams, within their rewriter or not, and the        *)
(* special-use domains return what was asked for: only a failure of an     *)
(* upstream may show the rewritten name.                                   *)
LEMMA ConditionalRest ==
  ASSUME GoodConf, NEW r \in Request, NEW result \in Conditional(conf, r)
  PROVE  RestOK(result, r)
  <1> DEFINE special == SpecialUse(conf, r)
  <1>1. /\ special \in ResultSet /\ special.kind \in {"answer", "error", "servfail"}
        /\ special.id = r.id /\ special.question = <<r.name>>
        /\ Chained(r.name, special.records)
        /\ special.kind # "answer" => special.records = <<>>
        /\ \A p \in special.to : p = <<"tree", r.name>> /\ (r.lower => NotSpecial(r.name))
    BY SpecialUsePlain, OwnRecordsChained DEF Plain
  <1> HIDE DEF special
  <1>2. CASE DOMAIN conf.condRewrite = {}
    <2>1. CASE result = special
      BY <1>1, <2>1 DEF RestOK
    <2>2. CASE result = Upstream(conf, "conditional", r)
      <3>1. Plain(result, r) /\ result.to = {<<"conditional", r.name>>}
        BY <2>2, UpstreamPlain
      <3>2. QED
        BY <3>1, OwnRecordsChained DEF RestOK, Plain
    <2>3. QED
      BY <1>2, <2>1, <2>2 DEF Conditional, ConditionalOr, special
  <1>3. CASE DOMAIN conf.condRewrite # {}
    <2>1. PICK n \in Rewritings(conf.condRewrite, r.name) :
            result = Rewriter(conf.condFallback, r, Renamed(r, n),
                              ConditionalOr(conf, Renamed(r, n), NoResponse(Renamed(r, n))),
                              special)
      BY <1>3, Zenon DEF Conditional, special
    <2> DEFINE s == Renamed(r, n)
               inner == ConditionalOr(conf, s, NoResponse(s))
    <2>2. n \in Domain /\ r.name \in Domain
      BY RewritingsAreDomains DEF GoodConf, ConfigOK, Request
    <2>3. s \in Request /\ s.name = n /\ s.id = r.id
      BY <2>2, RenamedTyped
    <2>4. \/ After(inner, special) = result
          \/ /\ inner.kind = "answer" /\ result = Restored(inner, n, r.name)
          \/ /\ inner.kind \notin {"answer", "none"} /\ result = inner
      BY <2>1, <2>3 DEF Rewriter, GoesOn
    <2> HIDE DEF s
    <2>5. /\ inner \in ResultSet
          /\ inner.kind \in {"answer", "none", "error", "servfail"}
          /\ inner.id = r.id /\ inner.question = <<n>>
          /\ \A i \in DOMAIN inner.records : inner.records[i].owner = n
          /\ inner.kind # "answer" => inner.records = <<>>
          /\ \A p \in inner.to : p[1] # "tree"
      <3>1. CASE inner = Upstream(conf, "conditional", s)
        <4>1. Plain(inner, s) /\ inner.to = {<<"conditional", s.name>>}
          BY <2>3, <3>1, UpstreamPlain
        <4>2. QED
          BY <2>3, <4>1 DEF Plain
      <3>2. CASE inner = NoResponse(s)
        <4>1. "none" \in Kinds
          BY DEF Kinds
        <4>2. /\ inner \in ResultSet /\ inner.kind = "none" /\ inner.id = s.id
              /\ inner.question = <<s.name>> /\ inner.records = <<>> /\ inner.to = {}
          BY <2>3, <3>2, <4>1, NothingTyped, EmptyTyped DEF NoResponse, Failure
        <4>3. QED
          BY <2>3, <4>2
      <3>3. QED
        BY <3>1, <3>2 DEF ConditionalOr
    <2> HIDE DEF inner
    <2>6. CASE After(inner, special) = result
      BY <1>1, <2>5, <2>6, AfterTyped DEF RestOK
    <2>7. CASE inner.kind = "answer" /\ result = Restored(inner, n, r.name)
      <3>1. /\ result \in ResultSet /\ result.kind = "answer" /\ result.id = r.id
            /\ result.question = <<r.name>> /\ result.to = inner.to
            /\ DOMAIN result.records = DOMAIN inner.records
            /\ \A i \in DOMAIN inner.records : result.records[i].owner = r.name
        BY <2>2, <2>5, <2>7, RestoredTyped
      <3>2. QED
        BY <2>5, <3>1, OwnRecordsChained DEF RestOK
    <2>8. CASE inner.kind \notin {"answer", "none"} /\ result = inner
      BY <2>5, <2>8 DEF RestOK, Chained
    <2>9. QED
      BY <2>4, <2>6, <2>7, <2>8
  <1>4. QED
    BY <1>2, <1>3

-----------------------------------------------------------------------------
(* The configuration does not change while the program runs, so it stays   *)
(* one of the good ones.                                                   *)
LEMMA ConfStaysGood ==
  ASSUME GoodConf, conf' = conf
  PROVE  GoodConf'
  <1>1. ConfigOK(conf)'
    BY DEF GoodConf
  <1>2. \A x : IsMapped(x)' = IsMapped(x)
    BY DEF IsMapped
  <1>3. QED
    BY <1>1, <1>2 DEF GoodConf

(* While a request is handled, what names lead to does not change. *)
LEMMA FrozenNames ==
  ASSUME UNCHANGED <<conf, asked, start>>
  PROVE  /\ AllTargets' = AllTargets
         /\ \A x : IsMapped(x)' = IsMapped(x)
         /\ \A x : EntriesOf(x)' = EntriesOf(x)
         /\ \A x : LeadsTo(x)' = LeadsTo(x)
  <1>1. conf' = conf
    OBVIOUS
  <1>2. AllTargets' = AllTargets
    BY <1>1 DEF AllTargets
  <1>3. \A x : IsMapped(x)' = IsMapped(x)
    BY <1>1 DEF IsMapped
  <1>4. \A x : EntriesOf(x)' = EntriesOf(x)
    BY <1>1 DEF EntriesOf
  <1>5. \A x : Targets(x)' = Targets(x)
    BY <1>3, <1>4 DEF Targets
  <1>6. \A x : LeadsTo(x)' = LeadsTo(x)
    BY <1>2, <1>5 DEF LeadsTo
  <1>7. QED
    BY <1>2, <1>3, <1>4, <1>6

(* Neither does what the invariant says of calls and of recipients. *)
LEMMA Frozen ==
  ASSUME UNCHANGED <<conf, asked, start>>
  PROVE  /\ Cyclic' = Cyclic /\ IsFiltered' = IsFiltered /\ IsRefused' = IsRefused
         /\ \A to : SentOK(to)' = SentOK(to)
         /\ \A stack : CallsOK(stack)' = CallsOK(stack)
  <1>1. conf' = conf /\ asked' = asked /\ start' = start
    OBVIOUS
  <1>2. Cyclic' = Cyclic
    BY <1>1, FrozenNames DEF Cyclic
  <1>3. IsFiltered' = IsFiltered /\ IsRefused' = IsRefused
    BY <1>1 DEF IsFiltered, IsRefused
  <1>4. \A to : SentOK(to)' = SentOK(to)
    BY <1>1, FrozenNames DEF SentOK, NotSpecial
  <1>5. \A stack : CallsOK(stack)' = CallsOK(stack)
    <2>1. \A x : Acyclic(x)' = Acyclic(x)
      BY FrozenNames DEF Acyclic
    <2>2. FrameSet' = FrameSet
      BY Zenon, FrozenNames DEF FrameSet
    <2>3. \A f, n : SettledBefore(f, n)' = SettledBefore(f, n)
      BY <2>1, FrozenNames DEF SettledBefore, EntryAt
    <2>4. \A f : FrameOK(f)' = FrameOK(f)
      BY <1>1, FrozenNames DEF FrameOK, EntryAt, OnTheWay
    <2>5. \A first, r : RequestOK(first, r)' = RequestOK(first, r)
      BY <1>1, FrozenNames DEF RequestOK
    <2>6. \A f, n : WaitsFor(f, n)' = WaitsFor(f, n)
      BY <2>3, FrozenNames DEF WaitsFor, EntryAt
    <2>7. \A stack, n : CallsWait(stack, n)' = CallsWait(stack, n)
      BY <2>2, <2>4, <2>5, <2>6 DEF CallsWait
    <2>8. QED
      BY <2>2, <2>3, <2>4, <2>5, <2>7 DEF CallsOK
  <1>6. QED
    BY <1>2, <1>3, <1>4, <1>5

-----------------------------------------------------------------------------
(* When a request may panic. *)
MayPanic ==
  /\ DOMAIN conf.rewrite # {}
  /\ \E t \in LeadsTo(start) : ~IsMapped(t) \/ ~conf.filterUnmappedTypes

(* A failure of an upstream that was asked for the name of the request. *)
OwnFailure ==
  LeadsTo(start) = {} /\ Rewritings(conf.condRewrite, asked.name) = {asked.name}

(* What the custom DNS resolver returns for the name that reaches it. *)
InnerOK(inner) ==
  /\ inner \in ResultSet
  /\ inner.kind \in {"answer", "none", "panic"} \cup Errors
  /\ inner.kind = "answer" =>
       inner.id = asked.id /\ inner.question = <<start>> /\ Chained(start, inner.records)
  /\ inner.kind \in {"answer", "none"} /\ asked.qtype \notin {"CNAME", "PTR"} => ~Cyclic
  /\ inner.kind = "none" => DOMAIN conf.rewrite # {}
  /\ inner.kind = "loop" => Cyclic
  /\ inner.kind = "panic" => MayPanic
  /\ inner.kind = "servfail" =>
       /\ inner.records = <<>> /\ DOMAIN conf.rewrite = {}
       /\ OwnFailure => inner.id = asked.id /\ inner.question = <<start>>
  /\ SentOK(inner.to)

(* What comes out of its rewriter. *)
EndOK(result) ==
  /\ result \in ResultSet
  /\ result.kind \in {"answer", "panic"} \cup Errors
  /\ result.kind = "answer" =>
       /\ result.id = asked.id /\ result.question = <<asked.name>>
       /\ Chained(asked.name, result.records)
  /\ result.kind = "answer" /\ asked.qtype \notin {"CNAME", "PTR"} /\ Cyclic =>
       conf.fallback /\ DOMAIN conf.rewrite # {}
  /\ result.kind = "loop" => Cyclic
  /\ result.kind = "panic" => MayPanic
  /\ result.kind = "servfail" =>
       /\ result.records = <<>>
       /\ OwnFailure => result.id = asked.id /\ result.question = <<asked.name>>
  /\ SentOK(result.to)

(* Recipients that may be asked may be asked together. *)
LEMMA SentUnion ==
  ASSUME NEW a, NEW b, SentOK(a), SentOK(b)
  PROVE  SentOK(a \cup b)
  BY DEF SentOK

(* Records that belong to a name through CNAMEs still do when the name of  *)
(* the request has been put back.                                          *)
LEMMA RestoredChain ==
  ASSUME NEW from, NEW to, NEW old, NEW new, Chained(from, old), DOMAIN new = DOMAIN old,
         DOMAIN old \subseteq Nat,
         \A i \in DOMAIN old :
           /\ 1..i \subseteq DOMAIN old
           /\ new[i].data = old[i].data
           /\ new[i].owner = IF old[i].owner = from THEN to ELSE old[i].owner
  PROVE  Chained(to, new)
  <1> SUFFICES ASSUME NEW i \in DOMAIN new
               PROVE  new[i].owner \in {to} \cup {new[j].data : j \in 1..(i - 1)}
    BY DEF Chained
  <1>1. CASE old[i].owner = from
    BY <1>1
  <1>2. CASE old[i].owner # from
    <2>1. PICK j \in 1..(i - 1) : old[i].owner = old[j].data
      BY <1>2 DEF Chained
    <2>2. i \in Nat /\ 1..i \subseteq DOMAIN old
      OBVIOUS
    <2>3. j \in DOMAIN old
      BY <2>2
    <2>4. new[i].owner = new[j].data
      BY <1>2, <2>1, <2>3
    <2>5. QED
      BY <2>4
  <1>3. QED
    BY <1>1, <1>2

(* What comes out of the rewriter of the custom DNS resolver answers the   *)
(* request, for any result of the resolver that answers the rewritten one: *)
(* the fallback, the names put back and the errors returned as they are    *)
(* included.                                                               *)
LEMMA CustomEnds ==
  ASSUME GoodConf, asked \in Request, start \in Domain,
         start \in Rewritings(conf.rewrite, asked.name),
         NEW inner, InnerOK(inner),
         NEW result \in Custom(conf, asked, Renamed(asked, start), inner)
  PROVE  EndOK(result)
  <1>1. asked.name \in Domain /\ Renamed(asked, start).name = start
    BY RenamedTyped DEF Request
  <1>2. CASE DOMAIN conf.rewrite = {}
    <2>1. result = inner /\ start = asked.name
      BY Zenon, <1>1, <1>2, NothingRewritten DEF Custom
    <2>2. QED
      BY <1>2, <2>1 DEF InnerOK, EndOK
  <1>3. CASE DOMAIN conf.rewrite # {}
    <2>1. PICK next \in Conditional(conf, asked) :
            result = Rewriter(conf.fallback, asked, Renamed(asked, start), inner, next)
      BY <1>3 DEF Custom
    <2>2. RestOK(next, asked)
      BY ConditionalRest
    <2>3. SentOK(next.to)
      BY <2>2 DEF RestOK, SentOK
    <2>4. inner \in ResultSet /\ next \in ResultSet /\ SentOK(inner.to)
      BY <2>2 DEF InnerOK, RestOK
    <2>5. CASE GoesOn(inner, conf.fallback)
      <3>1. result = After(inner, next)
        BY <2>1, <2>5 DEF Rewriter
      <3>2. /\ result \in ResultSet /\ result.kind = next.kind /\ result.id = next.id
            /\ result.question = next.question /\ result.records = next.records
            /\ SentOK(result.to)
        BY <2>3, <2>4, <3>1, AfterTyped, SentUnion
      <3>3. asked.qtype \notin {"CNAME", "PTR"} /\ Cyclic => conf.fallback
        BY <2>5 DEF GoesOn, InnerOK
      <3>4. QED
        BY <1>3, <2>2, <3>2, <3>3 DEF RestOK, EndOK, OwnFailure, Errors
    <2>6. CASE ~GoesOn(inner, conf.fallback) /\ inner.kind = "answer"
      <3>1. result = Restored(inner, start, asked.name)
        BY <1>1, <2>1, <2>6 DEF Rewriter
      <3>2. /\ result \in ResultSet /\ result.kind = "answer" /\ result.id = asked.id
            /\ result.question = <<asked.name>> /\ result.to = inner.to
            /\ DOMAIN result.records = DOMAIN inner.records
            /\ \A i \in DOMAIN inner.records :
                 /\ result.records[i].data = inner.records[i].data
                 /\ result.records[i].owner
                      = IF inner.records[i].owner = start
                        THEN asked.name ELSE inner.records[i].owner
        BY <1>1, <2>6, <3>1, RestoredTyped DEF InnerOK
      <3>3. \A i \in DOMAIN inner.records : 1..i \subseteq DOMAIN inner.records
        BY <2>4 DEF ResultSet
      <3>4. DOMAIN inner.records \subseteq Nat
        BY <2>4 DEF ResultSet
      <3>5. Chained(asked.name, result.records)
        BY <2>6, <3>2, <3>3, <3>4, RestoredChain DEF InnerOK
      <3>6. QED
        BY <2>4, <2>6, <3>2, <3>5 DEF EndOK, InnerOK
    <2>7. CASE ~GoesOn(inner, conf.fallback) /\ inner.kind # "answer"
      <3>1. result = inner /\ inner.kind # "none"
        BY <2>1, <2>7 DEF Rewriter, GoesOn
      <3>2. inner.kind # "servfail"
        BY <1>3 DEF InnerOK
      <3>3. QED
        BY <2>7, <3>1, <3>2 DEF InnerOK, EndOK
    <2>8. QED
      BY <2>5, <2>6, <2>7
  <1>4. QED
    BY <1>2, <1>3

-----------------------------------------------------------------------------
(* A request that is handled is one of the requests, and the name that     *)
(* reaches the custom DNS resolver is one that the rewriter may make of    *)
(* it.                                                                     *)
LEMMA Handling ==
  ASSUME ChainInv, asked # NoRequest
  PROVE  /\ GoodConf /\ asked \in Request /\ asked \in Requests /\ start \in Domain
         /\ start \in Rewritings(conf.rewrite, asked.name)
  BY ChainAssumption DEF ChainInv

(* A request that ends with a reply in order leaves everything in order. *)
LEMMA RequestEnds ==
  ASSUME ChainInv, asked # NoRequest, UNCHANGED <<conf, asked, start>>,
         calls' = <<>>, sent' = sent \cup reply'.to, SentOK(reply'.to),
         LoopIffCycle', AnswersTheRequest', PanicsOnlyAtATarget'
  PROVE  ChainInv'
  <1>1. /\ conf' \in Configs /\ GoodConf'
        /\ asked' \in Requests \cup {NoRequest} /\ start' \in Domain
    BY ConfStaysGood DEF ChainInv
  <1>2. asked' # NoRequest /\ start' \in Rewritings(conf'.rewrite, asked'.name)
    BY DEF ChainInv
  <1>3. CallsOK(calls)'
    <2>1. <<>> \in Seq(FrameSet')
      OBVIOUS
    <2>2. QED
      BY <2>1 DEF CallsOK
  <1>4. SentOK(sent)'
    BY SentUnion, Frozen DEF ChainInv
  <1>5. QED
    BY <1>1, <1>2, <1>3, <1>4 DEF ChainInv

(* And it does when the custom DNS resolver returns: handleReq makes a     *)
(* reply of what comes out of the rewriter.                                *)
LEMMA CustomReturnsInv ==
  ASSUME ChainInv, asked # NoRequest, ~IsFiltered, ~IsRefused,
         UNCHANGED <<conf, asked, start>>,
         NEW inner, InnerOK(inner), CustomReturns(inner)
  PROVE  ChainInv'
  <1>1. PICK result \in Custom(conf, asked, Renamed(asked, start), inner) : HandleReq(result)
    BY DEF CustomReturns
  <1>2. EndOK(result)
    BY <1>1, Handling, CustomEnds
  <1>3. CASE result.kind \in {"answer", "servfail"}
    <2>1. reply' = result /\ calls' = <<>> /\ sent' = sent \cup reply'.to
      BY <1>1, <1>3 DEF HandleReq
    <2>2. LoopIffCycle'
      BY <1>2, <1>3, <2>1, Frozen DEF EndOK, LoopIffCycle, FollowsCNAMEs, Errors
    <2>3. AnswersTheRequest'
      <3>1. SUFFICES ASSUME ~ForeignFailure'
                     PROVE  /\ result.id = asked.id /\ result.question = <<asked.name>>
                            /\ Chained(asked.name, result.records)
        BY <2>1, <3>1 DEF AnswersTheRequest, Chained
      <3>2. CASE result.kind = "answer"
        BY <1>2, <3>2 DEF EndOK
      <3>3. CASE result.kind = "servfail"
        <4>1. OwnFailure
          BY <2>1, <3>1, <3>3, FrozenNames DEF ForeignFailure, OwnFailure
        <4>2. QED
          BY <1>2, <3>3, <4>1 DEF EndOK, Chained
      <3>4. QED
        BY <1>3, <3>2, <3>3
    <2>4. PanicsOnlyAtATarget'
      BY <1>3, <2>1 DEF PanicsOnlyAtATarget
    <2>5. QED
      BY <1>2, <2>1, <2>2, <2>3, <2>4, RequestEnds DEF EndOK
  <1>4. CASE result.kind \notin {"answer", "servfail"}
    <2>1. reply' = Failure(result.kind, asked, result.to) /\ calls' = <<>>
          /\ sent' = sent \cup result.to
      BY <1>1, <1>4 DEF HandleReq
    <2>2. result.kind \in Kinds /\ result.to \in Recipients
      BY <1>2 DEF EndOK, ResultSet
    <2>3. /\ reply'.kind = result.kind /\ reply'.id = asked.id /\ reply'.question = <<asked.name>>
          /\ reply'.records = <<>> /\ reply'.to = result.to
      BY <2>1, <2>2, Handling, EmptyTyped DEF Failure
    <2>4. LoopIffCycle'
      BY <1>2, <1>4, <2>3, Frozen DEF EndOK, LoopIffCycle, FollowsCNAMEs, Errors
    <2>5. AnswersTheRequest'
      BY <2>3 DEF AnswersTheRequest
    <2>6. PanicsOnlyAtATarget'
      BY <1>2, <1>4, <2>3, FrozenNames DEF EndOK, PanicsOnlyAtATarget, MayPanic, Errors
    <2>7. QED
      BY <1>2, <2>1, <2>3, <2>4, <2>5, <2>6, RequestEnds DEF EndOK
  <1>5. QED
    BY <1>3, <1>4

(* A step that ends no request only has to leave the calls and the         *)
(* recipients in order.                                                    *)
LEMMA CallsGoOn ==
  ASSUME ChainInv, UnderWay, UNCHANGED <<conf, asked, start, reply>>,
         CallsOK(calls'), SentOK(sent')
  PROVE  ChainInv'
  <1>1. /\ conf' \in Configs /\ GoodConf'
        /\ asked' \in Requests \cup {NoRequest} /\ start' \in Domain
    BY ConfStaysGood DEF ChainInv
  <1>2. asked' # NoRequest /\ start' \in Rewritings(conf'.rewrite, asked'.name)
    BY DEF ChainInv, UnderWay
  <1>3. UnderWay'
    BY Frozen DEF UnderWay, NoReply
  <1>4. CallsOK(calls)' /\ SentOK(sent)'
    BY Frozen
  <1>5. LoopIffCycle' /\ AnswersTheRequest'
    BY <1>3 DEF UnderWay, LoopIffCycle, FollowsCNAMEs, AnswersTheRequest, Replied
  <1>6. PanicsOnlyAtATarget'
    BY FrozenNames DEF PanicsOnlyAtATarget, ChainInv
  <1>7. QED
    BY <1>1, <1>2, <1>3, <1>4, <1>5, <1>6 DEF ChainInv

(* What a call returns for its request, other than by ending all calls. *)
ReturnedOK(result, r) ==
  /\ result \in ResultSet
  /\ result.kind \in {"answer", "none", "error", "servfail"}
  /\ result.kind = "answer" =>
       result.id = r.id /\ result.question = <<r.name>> /\ Chained(r.name, result.records)
  /\ result.kind \in {"answer", "none"} /\ r.qtype # "CNAME" => Acyclic(r.name)
  /\ result.kind = "none" =>
       DOMAIN conf.rewrite # {} /\ (~IsMapped(r.name) \/ ~conf.filterUnmappedTypes)
  /\ result.kind = "servfail" =>
       /\ result.records = <<>> /\ DOMAIN conf.rewrite = {}
       /\ Rewritings(conf.condRewrite, r.name) = {r.name} =>
            result.id = r.id /\ result.question = <<r.name>>
  /\ SentOK(result.to)

(* What the first call returns is what the custom DNS resolver returns. *)
LEMMA FirstReturns ==
  ASSUME ChainInv, asked # NoRequest, NEW result, ReturnedOK(result, Renamed(asked, start))
  PROVE  InnerOK(result)
  <1> DEFINE r == Renamed(asked, start)
  <1>1. r.name = start /\ r.id = asked.id /\ r.qtype = asked.qtype
    BY Handling, RenamedTyped
  <1>2. DOMAIN conf.rewrite = {} => start = asked.name
    BY Zenon, Handling, NothingRewritten DEF Request
  <1>3. Acyclic(start) => ~Cyclic
    BY DEF Acyclic, Cyclic
  <1> HIDE DEF r
  <1>4. ReturnedOK(result, r)
    BY DEF r
  <1>5. result \in ResultSet /\ result.kind \in {"answer", "none", "panic"} \cup Errors
    BY <1>4 DEF ReturnedOK, Errors
  <1>6. QED
    BY <1>1, <1>2, <1>3, <1>4, <1>5 DEF ReturnedOK, InnerOK, OwnFailure

(* An error, a loop that is a cycle, and a panic that may happen are       *)
(* results that the custom DNS resolver may return.                        *)
LEMMA FailureEnds ==
  ASSUME NEW kind \in {"error", "loop", "panic"}, NEW r \in Request,
         kind = "loop" => Cyclic, kind = "panic" => MayPanic
  PROVE  InnerOK(Failure(kind, r, {}))
  <1> DEFINE inner == Failure(kind, r, {})
  <1>1. kind \in Kinds
    BY DEF Kinds
  <1>2. inner \in ResultSet /\ inner.kind = kind /\ inner.to = {}
    BY <1>1, NothingTyped, EmptyTyped DEF Failure
  <1> HIDE DEF inner
  <1>3. SentOK(inner.to)
    BY <1>2 DEF SentOK
  <1>4. InnerOK(inner)
    BY <1>2, <1>3 DEF InnerOK, Errors
  <1>5. QED
    BY <1>4 DEF inner

(* Records followed by the records of the target of the last one belong to *)
(* the name.                                                               *)
LEMMA ChainedOn ==
  ASSUME NEW a \in Seq(RecordSet), NEW b \in Seq(RecordSet), NEW name, a # <<>>,
         Chained(name, a), Chained(a[Len(a)].data, b)
  PROVE  Chained(name, a \o b)
  <1> DEFINE c == a \o b
  <1> SUFFICES ASSUME NEW i \in DOMAIN c
               PROVE  c[i].owner \in {name} \cup {c[j].data : j \in 1..(i - 1)}
    BY DEF Chained
  <1>1. Len(a) \in Nat /\ Len(b) \in Nat /\ Len(a) > 0 /\ i \in 1..(Len(a) + Len(b))
    OBVIOUS
  <1>2. CASE i <= Len(a)
    <2>1. c[i] = a[i] /\ \A j \in 1..(i - 1) : c[j] = a[j]
      BY <1>1, <1>2
    <2>2. a[i].owner \in {name} \cup {a[j].data : j \in 1..(i - 1)}
      BY <1>1, <1>2 DEF Chained
    <2>3. QED
      BY Zenon, <2>1, <2>2
  <1>3. CASE i > Len(a)
    <2> DEFINE k == i - Len(a)
    <2>1. c[i] = b[k] /\ k \in DOMAIN b /\ c[Len(a)] = a[Len(a)]
      BY <1>1, <1>3
    <2>2. CASE b[k].owner = a[Len(a)].data
      BY <1>1, <1>3, <2>1, <2>2
    <2>3. CASE b[k].owner # a[Len(a)].data
      <3>1. PICK j \in 1..(k - 1) : b[k].owner = b[j].data
        BY <2>1, <2>3 DEF Chained
      <3>2. c[Len(a) + j] = b[j] /\ Len(a) + j \in 1..(i - 1)
        BY <1>1, <1>3, <3>1
      <3>3. QED
        BY Zenon, <2>1, <3>1, <3>2
    <2>4. QED
      BY <2>2, <2>3
  <1>4. i <= Len(a) \/ i > Len(a)
    BY <1>1
  <1>5. QED
    BY Zenon, <1>2, <1>3, <1>4

(* Sequences with the same elements are the same. *)
LEMMA SeqEqual ==
  ASSUME NEW S, NEW a \in Seq(S), NEW b \in Seq(S), Len(a) = Len(b),
         \A i \in 1..Len(b) : a[i] = b[i]
  PROVE  a = b
  OBVIOUS

(* The first calls of a stack. *)
LEMMA PrefixStack ==
  ASSUME NEW S, NEW stack \in Seq(S), NEW n \in Nat, n <= Len(stack)
  PROVE  /\ SubSeq(stack, 1, n) \in Seq(S) /\ Len(SubSeq(stack, 1, n)) = n
         /\ \A i \in 1..n : SubSeq(stack, 1, n)[i] = stack[i]
  <1>1. SubSeq(stack, 1, n) \in Seq(S)
    OBVIOUS
  <1>2. Len(SubSeq(stack, 1, n)) = n
    OBVIOUS
  <1>3. \A i \in 1..n : SubSeq(stack, 1, n)[i] = stack[i]
    OBVIOUS
  <1>4. QED
    BY <1>1, <1>2, <1>3

(* A stack is the calls below its last one, and the last one. *)
LEMMA BelowStack ==
  ASSUME NEW S, NEW stack \in Seq(S), stack # <<>>
  PROVE  /\ Below(stack) \in Seq(S) /\ Len(Below(stack)) = Len(stack) - 1
         /\ Len(stack) \in Nat /\ Len(stack) > 0 /\ Top(stack) \in S
         /\ \A i \in 1..(Len(stack) - 1) : Below(stack)[i] = stack[i]
  <1>1. Len(stack) \in Nat /\ Len(stack) > 0 /\ Len(stack) \in 1..Len(stack)
    OBVIOUS
  <1>2. Top(stack) \in S
    BY <1>1 DEF Top
  <1> DEFINE n == Len(stack) - 1
  <1>3. n \in Nat /\ n <= Len(stack)
    BY <1>1
  <1>4. Below(stack) = SubSeq(stack, 1, n)
    BY DEF Below
  <1> HIDE DEF n
  <1>5. /\ Below(stack) \in Seq(S) /\ Len(Below(stack)) = n
        /\ \A i \in 1..n : Below(stack)[i] = stack[i]
    BY <1>3, <1>4, PrefixStack
  <1>6. QED
    BY <1>1, <1>2, <1>5 DEF n

LEMMA EmptyStack ==
  ASSUME NEW S, NEW stack \in Seq(S)
  PROVE  Len(stack) = 0 <=> stack = <<>>
  OBVIOUS

(* A call is the only one exactly when there is none below it. *)
LEMMA OnlyCall ==
  ASSUME NEW S, NEW stack \in Seq(S), stack # <<>>
  PROVE  (Len(stack) = 1) = (Below(stack) = <<>>)
  <1>1. /\ Below(stack) \in Seq(S) /\ Len(Below(stack)) = Len(stack) - 1
        /\ Len(stack) \in Nat
    BY BelowStack
  <1>2. Len(stack) = 1 <=> Len(Below(stack)) = 0
    BY <1>1
  <1>3. Len(Below(stack)) = 0 <=> Below(stack) = <<>>
    BY <1>1, EmptyStack, Zenon
  <1>4. QED
    BY <1>2, <1>3, Zenon

(* When all calls wait, those below the last one wait for the last one. *)
LEMMA BelowWaits ==
  ASSUME NEW stack, NEW name, stack # <<>>, CallsWait(stack, name)
  PROVE  CallsWait(Below(stack), Top(stack).req.name)
  <1>1. stack \in Seq(FrameSet)
    BY DEF CallsWait
  <1>2. /\ Below(stack) \in Seq(FrameSet) /\ Len(Below(stack)) = Len(stack) - 1
        /\ Len(stack) \in Nat /\ Len(stack) > 0
        /\ \A i \in 1..(Len(stack) - 1) : Below(stack)[i] = stack[i]
    BY <1>1, BelowStack
  <1> SUFFICES ASSUME NEW i \in 1..Len(Below(stack))
               PROVE  /\ FrameOK(Below(stack)[i]) /\ RequestOK(i = 1, Below(stack)[i].req)
                      /\ WaitsFor(Below(stack)[i], IF i = Len(Below(stack)) THEN Top(stack).req.name
                                                  ELSE Below(stack)[i + 1].req.name)
    BY <1>2 DEF CallsWait
  <1>3. i \in 1..(Len(stack) - 1) /\ i \in 1..Len(stack) /\ i # Len(stack)
    BY <1>2
  <1>4. /\ FrameOK(stack[i]) /\ RequestOK(i = 1, stack[i].req)
        /\ WaitsFor(stack[i], stack[i + 1].req.name)
    BY <1>3, Zenon DEF CallsWait
  <1>5. Below(stack)[i] = stack[i]
    BY <1>2, <1>3
  <1>6. CASE i = Len(Below(stack))
    <2>1. stack[i + 1] = Top(stack)
      BY <1>2, <1>6 DEF Top
    <2>2. QED
      BY <1>4, <1>5, <1>6, <2>1
  <1>7. CASE i # Len(Below(stack))
    <2>1. i + 1 \in 1..(Len(stack) - 1)
      BY <1>2, <1>7
    <2>2. Below(stack)[i + 1] = stack[i + 1]
      BY <1>2, <2>1
    <2>3. QED
      BY <1>4, <1>5, <1>7, <2>2
  <1>8. QED
    BY <1>6, <1>7

(* The stack with another last call. *)
WithTop(stack, g) == [stack EXCEPT ![Len(stack)] = g]

(* Another last call leaves the ones below as they are. *)
LEMMA WithTopStack ==
  ASSUME NEW S, NEW stack \in Seq(S), stack # <<>>, NEW g \in S
  PROVE  /\ WithTop(stack, g) \in Seq(S) /\ Len(WithTop(stack, g)) = Len(stack)
         /\ WithTop(stack, g) # <<>> /\ Top(WithTop(stack, g)) = g
         /\ Below(WithTop(stack, g)) = Below(stack)
  <1>1. Len(stack) \in Nat /\ Len(stack) > 0
    OBVIOUS
  <1> DEFINE after == WithTop(stack, g)
  <1>2. after \in Seq(S) /\ Len(after) = Len(stack) /\ after[Len(stack)] = g
    BY <1>1 DEF WithTop
  <1>3. \A i \in 1..(Len(stack) - 1) : after[i] = stack[i]
    BY <1>1 DEF WithTop
  <1> HIDE DEF after
  <1>4. after # <<>> /\ Top(after) = g
    BY <1>1, <1>2 DEF Top
  <1>5. Below(after) = Below(stack)
    <2>1. /\ Below(after) \in Seq(S) /\ Below(stack) \in Seq(S)
          /\ Len(Below(after)) = Len(Below(stack)) /\ Len(Below(stack)) = Len(stack) - 1
      BY <1>2, <1>4, BelowStack
    <2>2. /\ \A i \in 1..(Len(stack) - 1) : Below(after)[i] = after[i]
          /\ \A i \in 1..(Len(stack) - 1) : Below(stack)[i] = stack[i]
      <3>1. \A i \in 1..(Len(after) - 1) : Below(after)[i] = after[i]
        BY <1>2, <1>4, BelowStack
      <3>2. \A i \in 1..(Len(stack) - 1) : Below(stack)[i] = stack[i]
        BY BelowStack
      <3>3. QED
        BY <1>2, <3>1, <3>2
    <2> HIDE DEF Below
    <2>3. QED
      BY <1>3, <2>1, <2>2, SeqEqual
  <1>6. QED
    BY <1>2, <1>4, <1>5 DEF after

(* A waiting call that takes the records of the answer is at work again,   *)
(* and the entry that it waited for leads to no cycle.                     *)
LEMMA AnswerTaken ==
  ASSUME NEW stack, NEW name, stack # <<>>, CallsWait(stack, name),
         NEW records \in Seq(RecordSet), Chained(name, records),
         Top(stack).req.qtype # "CNAME" => Acyclic(name)
  PROVE  CallsOK([stack EXCEPT ![Len(stack)].records = @ \o records])
  <1> DEFINE n == Len(stack)
             f == stack[n]
             g == [f EXCEPT !.records = f.records \o records]
             after == [stack EXCEPT ![n] = g]
  <1>1. stack \in Seq(FrameSet) /\ n \in Nat /\ n > 0 /\ f \in FrameSet
    BY DEF CallsWait
  <1>2. FrameOK(f) /\ RequestOK(n = 1, f.req) /\ WaitsFor(f, name)
    <2>1. n \in 1..Len(stack)
      BY <1>1
    <2>2. QED
      BY <2>1, Zenon DEF CallsWait
  <1>3. f.records \in Seq(RecordSet) /\ f.next \in Nat /\ f.next > 0
    BY <1>1 DEF FrameSet
  <1>4. f.records \o records \in Seq(RecordSet) /\ f.records \o records # <<>>
    BY <1>2, <1>3 DEF WaitsFor
  <1>5. /\ g \in FrameSet /\ g.req = f.req /\ g.seen = f.seen /\ g.next = f.next
        /\ g.records = f.records \o records
    BY Zenon, <1>1, <1>4 DEF FrameSet
  <1>6. /\ after \in Seq(FrameSet) /\ Len(after) = n /\ after # <<>>
        /\ Top(after) = g /\ Below(after) = Below(stack)
    <2>1. after = WithTop(stack, g)
      BY DEF WithTop
    <2> HIDE DEF f, g, after
    <2>2. QED
      BY <1>1, <1>5, <2>1, WithTopStack
  <1>7. CallsWait(Below(stack), g.req.name)
    <2>1. Top(stack) = f
      BY DEF Top
    <2> HIDE DEF f, g, after
    <2>2. QED
      BY <1>5, <2>1, BelowWaits
  <1>9. FrameOK(g)
    <2>1. Chained(g.req.name, g.records)
      BY <1>2, <1>3, <1>5, ChainedOn DEF FrameOK, WaitsFor
    <2>2. QED
      BY <1>2, <1>4, <1>5, <2>1 DEF FrameOK
  <1>10. SettledBefore(g, g.next)
    <2>1. SettledBefore(f, f.next - 1)
      BY <1>2 DEF WaitsFor
    <2>2. EntryAt(f, f.next - 1).data = name /\ f.req.qtype # "CNAME"
      BY <1>2 DEF WaitsFor
    <2>3. Acyclic(name)
      BY <2>2 DEF Top
    <2>4. \A j \in 1..(f.next - 1) : j = f.next - 1 \/ j \in 1..(f.next - 1 - 1)
      BY <1>3
    <2>5. SettledBefore(f, f.next)
      BY <2>1, <2>2, <2>3, <2>4 DEF SettledBefore
    <2>6. QED
      BY <1>5, <2>5 DEF SettledBefore, EntryAt
  <1>11. CallsOK(after)
    BY Zenon, <1>2, <1>5, <1>6, <1>7, <1>9, <1>10 DEF CallsOK
  <1>12. QED
    BY <1>11

(* A return keeps the invariant: an answer goes to the call below, a       *)
(* missing one panics there, and an error ends all calls.                  *)
LEMMA ReturnInv ==
  ASSUME ChainInv, UnderWay, UNCHANGED <<conf, asked, start>>,
         NEW stack, NEW r \in Request, CallsWait(stack, r.name),
         RequestOK(stack = <<>>, r),
         stack # <<>> => r.qtype = asked.qtype,
         NEW result, ReturnedOK(result, r), Return(stack, result)
  PROVE  ChainInv'
  <1>1. asked # NoRequest /\ ~IsFiltered /\ ~IsRefused
    BY DEF UnderWay
  <1>2. CASE stack = <<>>
    <2>1. CustomReturns(result)
      BY <1>2 DEF Return
    <2>2. r = Renamed(asked, start)
      BY <1>2 DEF RequestOK
    <2>3. QED
      BY <1>1, <2>1, <2>2, FirstReturns, CustomReturnsInv
  <1>3. CASE stack # <<>> /\ result.kind = "answer"
    <2>1. /\ calls' = [stack EXCEPT ![Len(stack)].records = @ \o result.records]
          /\ sent' = sent \cup result.to /\ reply' = reply
      BY Zenon, <1>3 DEF Return, Errors
    <2>2. /\ result.records \in Seq(RecordSet) /\ Chained(r.name, result.records)
          /\ r.qtype # "CNAME" => Acyclic(r.name)
          /\ SentOK(result.to)
      BY <1>3 DEF ReturnedOK, ResultSet
    <2>3. Top(stack).req.qtype # "CNAME" => r.qtype # "CNAME"
      <3>1. stack \in Seq(FrameSet) /\ Len(stack) \in 1..Len(stack)
        BY <1>3 DEF CallsWait
      <3>2. RequestOK(Len(stack) = 1, Top(stack).req)
        BY Zenon, <3>1 DEF CallsWait, Top
      <3>3. Top(stack).req.qtype = asked.qtype
        BY <1>1, <3>2, Handling, RenamedTyped DEF RequestOK
      <3>4. QED
        BY <1>3, <3>3
    <2>4. CallsOK(calls')
      BY Zenon, <1>3, <2>1, <2>2, <2>3, AnswerTaken
    <2>5. SentOK(sent')
      BY <2>1, <2>2, SentUnion DEF ChainInv
    <2>6. QED
      BY <2>1, <2>4, <2>5, CallsGoOn
  <1>4. CASE stack # <<>> /\ result.kind = "none"
    <2>1. CustomReturns(Failure("panic", Top(stack).req, {}))
      BY <1>4 DEF Return, Errors
    <2>2. MayPanic
      BY <1>4 DEF MayPanic, RequestOK, ReturnedOK
    <2>3. Top(stack).req \in Request
      <3>1. stack \in Seq(FrameSet)
        BY DEF CallsWait
      <3>2. Top(stack) \in FrameSet
        BY <1>4, <3>1, BelowStack
      <3>3. QED
        BY <3>2 DEF FrameSet
    <2>4. QED
      BY <1>1, <2>1, <2>2, <2>3, FailureEnds, CustomReturnsInv
  <1>5. CASE stack # <<>> /\ result.kind \in {"error", "servfail"}
    <2>1. CustomReturns(result)
      BY Zenon, <1>5 DEF Return, Errors
    <2>2. InnerOK(result)
      BY <1>5 DEF ReturnedOK, InnerOK, RequestOK, OwnFailure, Errors
    <2>3. QED
      BY <1>1, <2>1, <2>2, CustomReturnsInv
  <1>6. QED
    BY <1>2, <1>3, <1>4, <1>5 DEF ReturnedOK

(* If no names are rewritten, the name of the request reaches the custom   *)
(* DNS resolver.                                                           *)
LEMMA StartIsAsked ==
  ASSUME ChainInv, asked # NoRequest, DOMAIN conf.rewrite = {}
  PROVE  start = asked.name
  <1>1. asked.name \in Domain
    BY Handling DEF Request
  <1>2. start \in Rewritings(conf.rewrite, asked.name)
    BY Handling
  <1>3. QED
    BY <1>1, <1>2, NothingRewritten

(* What the next resolver returns is what a call may return, and the name  *)
(* it was asked for is that of the request or a target.                    *)
LEMMA NextReturned ==
  ASSUME ChainInv, asked # NoRequest, NEW first \in BOOLEAN, NEW r \in Request, RequestOK(first, r),
         r.qtype # "CNAME" => Acyclic(r.name),
         ~IsMapped(r.name) \/ ~conf.filterUnmappedTypes,
         NEW result \in CustomNext(conf, r)
  PROVE  ReturnedOK(result, r)
  <1>1. GoodConf /\ asked \in Request /\ start \in Domain
        /\ start \in Rewritings(conf.rewrite, asked.name)
    BY Handling
  <1>2. CASE DOMAIN conf.rewrite # {}
    <2>1. result = Result("none", r, <<>>, {}) /\ "none" \in Kinds
      BY <1>2 DEF CustomNext, NoResponse, Failure, Kinds
    <2>2. result \in ResultSet /\ result.kind = "none" /\ result.to = {}
      BY <2>1, NothingTyped, EmptyTyped
    <2>3. SentOK(result.to)
      BY <2>2 DEF SentOK
    <2>4. QED
      BY <1>2, <2>2, <2>3 DEF ReturnedOK
  <1>3. CASE DOMAIN conf.rewrite = {}
    <2>1. RestOK(result, r)
      BY <1>1, <1>3, ConditionalRest DEF CustomNext
    <2>2. r.name \in {asked.name} \cup AllTargets /\ (asked.lower => r.lower)
      <3>1. CASE first
        <4>1. r = Renamed(asked, start)
          BY <3>1 DEF RequestOK
        <4>2. start = asked.name
          BY <1>3, StartIsAsked
        <4>3. QED
          BY <1>1, <4>1, <4>2, RenamedTyped
      <3>2. CASE ~first
        BY <1>1, <3>2, LeadsToClosed DEF RequestOK
      <3>3. QED
        BY <3>1, <3>2
    <2>3. SentOK(result.to)
      BY <2>1, <2>2 DEF RestOK, SentOK
    <2>4. QED
      BY <1>3, <2>1, <2>3 DEF RestOK, ReturnedOK
  <1>4. QED
    BY <1>2, <1>3

(* A call that begins is in order when those below wait for it. *)
LEMMA CallBegins ==
  ASSUME ChainInv, NEW stack, NEW r \in Request, NEW targets \in SUBSET AllTargets,
         CallsWait(stack, r.name), RequestOK(stack = <<>>, r), OnTheWay(targets, r.name),
         IsMapped(r.name)
  PROVE  CallsOK(Append(stack, Frame(r, targets)))
  <1> DEFINE f == Frame(r, targets)
             after == Append(stack, f)
  <1>1. stack \in Seq(FrameSet)
    BY DEF CallsWait
  <1>2. /\ f \in FrameSet /\ f.req = r /\ f.seen = targets /\ f.next = 1 /\ f.records = <<>>
    <2>1. <<>> \in Seq(RecordSet)
      BY NothingTyped
    <2>2. QED
      BY <2>1 DEF Frame, FrameSet
  <1>3. FrameOK(f)
    <2>1. Chained(r.name, <<>>)
      BY DEF Chained
    <2>2. r.name \in Domain /\ GoodConf
      BY ChainAssumption DEF Request, ChainInv
    <2>3. EntriesOf(r.name) \in Seq(Entry)
      BY <2>2, TargetsAreDomains
    <2>4. 1 <= Len(EntriesOf(r.name)) + 1
      BY <2>3
    <2> HIDE DEF f
    <2>5. QED
      BY <1>2, <2>1, <2>4 DEF FrameOK
  <1>4. SettledBefore(f, f.next)
    <2> HIDE DEF f
    <2>1. QED
      BY <1>2 DEF SettledBefore
  <1> HIDE DEF f
  <1>5. /\ after \in Seq(FrameSet) /\ after # <<>> /\ Len(after) = Len(stack) + 1
        /\ after[Len(after)] = f /\ Len(stack) \in Nat
        /\ \A i \in 1..Len(stack) : after[i] = stack[i]
    BY <1>1, <1>2
  <1> HIDE DEF after
  <1>6. Top(after) = f
    BY <1>5 DEF Top
  <1>7. Below(after) = stack
    <2>1. /\ Below(after) \in Seq(FrameSet) /\ Len(Below(after)) = Len(stack)
          /\ \A i \in 1..Len(stack) : Below(after)[i] = after[i]
      BY <1>5, BelowStack
    <2>2. QED
      BY <1>1, <1>5, <2>1, SeqEqual
  <1>8. (Len(after) = 1) = (stack = <<>>)
    BY <1>1, <1>5
  <1>9. CallsOK(after)
    BY <1>2, <1>3, <1>4, <1>5, <1>6, <1>7, <1>8 DEF CallsOK
  <1>10. QED
    BY <1>9 DEF after, f

(* processRequest keeps the invariant, as the first call or as the call    *)
(* for a target.                                                           *)
LEMMA ProcessRequestInv ==
  ASSUME ChainInv, UnderWay, UNCHANGED <<conf, asked, start>>,
         NEW stack, NEW r \in Request, NEW targets \in SUBSET AllTargets,
         CallsWait(stack, r.name), RequestOK(stack = <<>>, r), OnTheWay(targets, r.name),
         ProcessRequest(stack, r, targets)
  PROVE  ChainInv'
  <1>1. asked # NoRequest /\ ~IsFiltered /\ ~IsRefused
    BY DEF UnderWay
  <1>2. CASE IsMapped(r.name) /\ calls' = Append(stack, Frame(r, targets))
             /\ UNCHANGED <<sent, reply>>
    <2>1. CallsOK(calls')
      BY <1>2, CallBegins
    <2>2. SentOK(sent')
      BY <1>2 DEF ChainInv
    <2>3. QED
      BY <1>2, <2>1, <2>2, CallsGoOn
  <1>3. CASE ~IsMapped(r.name) /\ GoToNext(stack, r)
    <2>1. PICK result \in CustomNext(conf, r) : Return(stack, result)
      BY <1>3 DEF GoToNext
    <2>2. r.name \in Domain /\ GoodConf
      BY <1>1, Handling DEF Request
    <2>3. Acyclic(r.name)
      <3>1. Targets(r.name) = {}
        BY <1>3 DEF Targets
      <3>2. QED
        BY <2>2, <3>1, AcyclicByTargets
    <2>4. ReturnedOK(result, r)
      BY Zenon, <1>1, <1>3, <2>3, NextReturned
    <2>5. stack # <<>> => r.qtype = asked.qtype
      BY DEF RequestOK
    <2>6. QED
      BY <2>1, <2>4, <2>5, ReturnInv
  <1>4. CASE CustomReturns(Failure("error", r, {}))
    BY <1>1, <1>4, FailureEnds, CustomReturnsInv
  <1>5. QED
    BY <1>2, <1>3, <1>4 DEF ProcessRequest

(* What the invariant says of the last call. *)
LEMMA TopFacts ==
  ASSUME ChainInv, calls # <<>>
  PROVE  /\ UnderWay /\ GoodConf /\ start \in Domain /\ asked # NoRequest
         /\ calls \in Seq(FrameSet) /\ Top(calls) \in FrameSet /\ FrameOK(Top(calls))
         /\ Top(calls).req \in Request /\ Top(calls).req.name \in Domain
         /\ Top(calls).seen \subseteq AllTargets
         /\ Top(calls).next \in Nat /\ Top(calls).next > 0
         /\ Top(calls).records \in Seq(RecordSet)
         /\ Top(calls).req.qtype = asked.qtype
         /\ RequestOK(Len(calls) = 1, Top(calls).req)
         /\ CallsWait(Below(calls), Top(calls).req.name)
         /\ SettledBefore(Top(calls), Top(calls).next)
         /\ IsMapped(Top(calls).req.name)
         /\ EntriesOf(Top(calls).req.name) \in Seq(Entry)
         /\ Top(calls).req.name = start \/ Top(calls).req.name \in LeadsTo(start)
         /\ (Len(calls) = 1) = (Below(calls) = <<>>)
  <1>1. UnderWay /\ CallsOK(calls) /\ asked # NoRequest
    BY DEF ChainInv, UnderWay
  <1>2. GoodConf /\ start \in Domain /\ asked \in Request
    BY <1>1, Handling
  <1>3. /\ calls \in Seq(FrameSet) /\ FrameOK(Top(calls))
        /\ RequestOK(Len(calls) = 1, Top(calls).req)
        /\ CallsWait(Below(calls), Top(calls).req.name)
        /\ SettledBefore(Top(calls), Top(calls).next)
    BY <1>1 DEF CallsOK
  <1>4. /\ Top(calls) \in FrameSet /\ Len(Below(calls)) = Len(calls) - 1
        /\ Below(calls) \in Seq(FrameSet) /\ Len(calls) \in Nat
    BY <1>3, BelowStack
  <1>5. (Len(calls) = 1) = (Below(calls) = <<>>)
    BY Zenon, <1>1, <1>3, OnlyCall
  <1>6. /\ Top(calls).req \in Request /\ Top(calls).seen \subseteq AllTargets
        /\ Top(calls).next \in Nat /\ Top(calls).next > 0
        /\ Top(calls).records \in Seq(RecordSet)
    BY <1>4 DEF FrameSet
  <1>7. Top(calls).req.name \in Domain
    BY <1>6 DEF Request
  <1>8. IsMapped(Top(calls).req.name)
    BY <1>3 DEF FrameOK
  <1>9. EntriesOf(Top(calls).req.name) \in Seq(Entry)
    BY <1>2, <1>7, <1>8, TargetsAreDomains
  <1>10. /\ Top(calls).req.qtype = asked.qtype
         /\ Top(calls).req.name = start \/ Top(calls).req.name \in LeadsTo(start)
    BY <1>2, <1>3, RenamedTyped DEF RequestOK
  <1>11. QED
    BY <1>1, <1>2, <1>3, <1>4, <1>5, <1>6, <1>7, <1>8, <1>9, <1>10

(* The entry that is next is configured, and if it is a CNAME, the name of *)
(* the request and all the targets on the way lead to its target.          *)
LEMMA NextEntry ==
  ASSUME ChainInv, calls # <<>>, NEW f, f = Top(calls),
         NEW e, e = EntriesOf(f.req.name)[f.next], f.next <= Len(EntriesOf(f.req.name))
  PROVE  /\ e \in Entry /\ EntryAt(f, f.next) = e
         /\ e.type = "CNAME" =>
              /\ e.data \in AllTargets
              /\ e.data \in LeadsTo(start)
              /\ \A t \in f.seen : e.data \in LeadsTo(t)
  <1>1. f.next \in 1..Len(EntriesOf(f.req.name)) /\ EntriesOf(f.req.name) \in Seq(Entry)
    BY TopFacts
  <1>2. e \in Entry /\ EntryAt(f, f.next) = e
    BY <1>1 DEF EntryAt
  <1>3. ASSUME e.type = "CNAME"
        PROVE  /\ e.data \in AllTargets
               /\ e.data \in LeadsTo(start)
               /\ \A t \in f.seen : e.data \in LeadsTo(t)
    <2>1. e.data \in Targets(f.req.name)
      <3>1. e \in Range(EntriesOf(f.req.name))
        BY <1>1 DEF Range
      <3>2. QED
        BY <1>3, <3>1, TopFacts DEF Targets, TargetsOf
    <2>2. GoodConf /\ start \in Domain /\ f.req.name \in Domain
      BY TopFacts
    <2>3. e.data \in LeadsTo(f.req.name) /\ e.data \in AllTargets
      BY <2>1, <2>2, LeadsToClosed
    <2>4. e.data \in LeadsTo(start)
      BY <2>2, <2>3, TopFacts, LeadsOn
    <2>5. ASSUME NEW t \in f.seen
          PROVE  e.data \in LeadsTo(t)
      <3>1. t \in LeadsTo(start) /\ (t = f.req.name \/ f.req.name \in LeadsTo(t))
        BY TopFacts DEF FrameOK, OnTheWay
      <3>2. t \in Domain
        BY <2>2, <3>1, LeadsToClosed, TargetsAreDomains
      <3>3. QED
        BY SMTT(20), <2>2, <2>3, <3>1, <3>2, LeadsOn
    <2>6. QED
      BY <2>3, <2>4, <2>5
  <1>4. QED
    BY <1>2, <1>3

(* Records followed by records of the name itself belong to the name. *)
LEMMA ChainedOwn ==
  ASSUME NEW a \in Seq(RecordSet), NEW b \in Seq(RecordSet), NEW name,
         Chained(name, a), \A i \in DOMAIN b : b[i].owner = name
  PROVE  Chained(name, a \o b)
  <1> DEFINE c == a \o b
  <1> SUFFICES ASSUME NEW i \in DOMAIN c
               PROVE  c[i].owner \in {name} \cup {c[j].data : j \in 1..(i - 1)}
    BY DEF Chained
  <1>1. Len(a) \in Nat /\ Len(b) \in Nat /\ i \in 1..(Len(a) + Len(b))
    OBVIOUS
  <1>2. CASE i <= Len(a)
    <2>1. c[i] = a[i] /\ \A j \in 1..(i - 1) : c[j] = a[j]
      BY <1>1, <1>2
    <2>2. a[i].owner \in {name} \cup {a[j].data : j \in 1..(i - 1)}
      BY <1>1, <1>2 DEF Chained
    <2>3. QED
      BY <2>1, <2>2
  <1>3. CASE i > Len(a)
    <2>1. c[i] = b[i - Len(a)] /\ i - Len(a) \in DOMAIN b
      BY <1>1, <1>3
    <2>2. QED
      BY <2>1
  <1>4. QED
    BY <1>1, <1>2, <1>3

(* The length of two sequences together. *)
LEMMA ConcatLength ==
  ASSUME NEW S, NEW a \in Seq(S), NEW b \in Seq(S)
  PROVE  Len(a \o b) = Len(a) + Len(b) /\ Len(a) \in Nat
  OBVIOUS

(* All calls wait when those below the last one wait for it and it waits   *)
(* too.                                                                    *)
LEMMA TopWaits ==
  ASSUME NEW stack \in Seq(FrameSet), stack # <<>>, NEW g \in FrameSet, NEW name,
         CallsWait(Below(stack), g.req.name),
         FrameOK(g), RequestOK(Len(stack) = 1, g.req), WaitsFor(g, name)
  PROVE  CallsWait(WithTop(stack, g), name)
  <1> DEFINE after == WithTop(stack, g)
             below == Below(stack)
  <1>1. /\ after \in Seq(FrameSet) /\ Len(after) = Len(stack)
        /\ after # <<>> /\ Top(after) = g /\ Below(after) = below
    BY WithTopStack
  <1> HIDE DEF after, below
  <1>2. /\ below \in Seq(FrameSet) /\ Len(below) = Len(stack) - 1
        /\ Len(stack) \in Nat /\ Len(stack) > 0
        /\ \A i \in 1..(Len(stack) - 1) : below[i] = after[i]
    BY <1>1, BelowStack
  <1>3. after[Len(stack)] = g
    BY <1>1 DEF Top
  <1>4. ASSUME NEW i \in 1..Len(after)
        PROVE  /\ FrameOK(after[i]) /\ RequestOK(i = 1, after[i].req)
               /\ WaitsFor(after[i], IF i = Len(after) THEN name ELSE after[i + 1].req.name)
    <2>1. CASE i = Len(stack)
      BY <1>1, <1>3, <2>1
    <2>2. CASE i # Len(stack)
      <3>1. i \in 1..Len(below) /\ i \in 1..(Len(stack) - 1) /\ i # Len(after)
        BY <1>1, <1>2, <2>2
      <3>2. /\ FrameOK(below[i]) /\ RequestOK(i = 1, below[i].req)
            /\ WaitsFor(below[i], IF i = Len(below) THEN g.req.name ELSE below[i + 1].req.name)
        BY <3>1 DEF CallsWait, below
      <3>3. below[i] = after[i]
        BY <1>2, <3>1
      <3>4. (IF i = Len(below) THEN g.req.name ELSE below[i + 1].req.name) = after[i + 1].req.name
        <4>1. CASE i = Len(below)
          BY <1>2, <1>3, <4>1
        <4>2. CASE i # Len(below)
          <5>1. i + 1 \in 1..(Len(stack) - 1)
            BY <1>2, <3>1, <4>2
          <5>2. QED
            BY <1>2, <4>2, <5>1
        <4>3. QED
          BY <4>1, <4>2
      <3>5. QED
        BY <3>1, <3>2, <3>3, <3>4
    <2>3. QED
      BY <2>1, <2>2
  <1>5. CallsWait(after, name)
    BY <1>1, <1>4 DEF CallsWait
  <1>6. QED
    BY <1>5 DEF after

(* A call that goes on to its next entry is in order. *)
LEMMA ProceedFrame ==
  ASSUME ChainInv, calls # <<>>, NEW f, f = Top(calls),
         f.next <= Len(EntriesOf(f.req.name)),
         NEW records \in Seq(RecordSet), \A i \in DOMAIN records : records[i].owner = f.req.name,
         EntryAt(f, f.next).type = "CNAME" => records # <<>>
  PROVE  \E g \in FrameSet :
           /\ Proceed(calls, records) = WithTop(calls, g)
           /\ g.req = f.req /\ g.seen = f.seen /\ g.next = f.next + 1
           /\ g.records = f.records \o records
           /\ FrameOK(g)
  <1> DEFINE g == [f EXCEPT !.next = f.next + 1, !.records = f.records \o records]
  <1>1. /\ f \in FrameSet /\ f.next \in Nat /\ f.next > 0 /\ f.records \in Seq(RecordSet)
        /\ calls \in Seq(FrameSet) /\ FrameOK(f)
        /\ EntriesOf(f.req.name) \in Seq(Entry)
    BY TopFacts
  <1>2. Proceed(calls, records) = WithTop(calls, g)
    BY Zenon, <1>1 DEF Proceed, WithTop, Top
  <1>3. f.records \o records \in Seq(RecordSet) /\ f.next + 1 \in Nat \ {0}
    BY <1>1
  <1>4. /\ g \in FrameSet /\ g.req = f.req /\ g.seen = f.seen /\ g.next = f.next + 1
        /\ g.records = f.records \o records
    <2> DEFINE rs == f.records \o records
               n == f.next + 1
    <2>1. rs \in Seq(RecordSet) /\ n \in Nat \ {0} /\ g = [f EXCEPT !.next = n, !.records = rs]
      BY <1>3
    <2> HIDE DEF rs, n, g
    <2>2. /\ g \in FrameSet /\ g.req = f.req /\ g.seen = f.seen /\ g.next = n /\ g.records = rs
      BY Zenon, <1>1, <2>1 DEF FrameSet
    <2>3. QED
      BY <2>2 DEF rs, n
  <1> HIDE DEF g
  <1>5. Chained(g.req.name, g.records)
    BY Zenon, <1>1, <1>4, ChainedOwn DEF FrameOK
  <1>6. g.next <= Len(EntriesOf(g.req.name)) + 1
    BY <1>1, <1>4
  <1>7. g.records = <<>> => \A j \in 1..(g.next - 1) : EntryAt(g, j).type # "CNAME"
    <2>1. SUFFICES ASSUME g.records = <<>>, NEW j \in 1..(g.next - 1)
                   PROVE  EntryAt(f, j).type # "CNAME"
      BY <1>4 DEF EntryAt
    <2>2. f.records = <<>> /\ records = <<>>
      <3>1. Len(f.records \o records) = Len(f.records) + Len(records)
        BY <1>1
      <3>2. Len(f.records) \in Nat /\ Len(records) \in Nat /\ Len(f.records \o records) = 0
        BY <1>1, <1>4, <2>1
      <3>3. QED
        BY <1>1, <3>1, <3>2
    <2>3. j \in 1..(f.next - 1) \/ j = f.next
      BY <1>1, <1>4
    <2>4. QED
      BY <1>1, <2>2, <2>3 DEF FrameOK
  <1>8. FrameOK(g)
    BY <1>1, <1>4, <1>5, <1>6, <1>7 DEF FrameOK
  <1>9. QED
    BY <1>2, <1>4, <1>8

(* So are all calls, unless the entry was a CNAME that is to be followed. *)
LEMMA ProceedOK ==
  ASSUME ChainInv, calls # <<>>, NEW f, f = Top(calls),
         f.next <= Len(EntriesOf(f.req.name)),
         NEW records \in Seq(RecordSet), \A i \in DOMAIN records : records[i].owner = f.req.name,
         EntryAt(f, f.next).type = "CNAME" => records # <<>> /\ f.req.qtype = "CNAME"
  PROVE  CallsOK(Proceed(calls, records))
  <1>1. PICK g \in FrameSet :
             /\ Proceed(calls, records) = WithTop(calls, g)
             /\ g.req = f.req /\ g.seen = f.seen /\ g.next = f.next + 1
             /\ g.records = f.records \o records
             /\ FrameOK(g)
    BY ProceedFrame
  <1> DEFINE after == WithTop(calls, g)
  <1>2. /\ calls \in Seq(FrameSet) /\ f.next \in Nat /\ RequestOK(Len(calls) = 1, f.req)
        /\ CallsWait(Below(calls), f.req.name) /\ SettledBefore(f, f.next)
    BY TopFacts
  <1>3. /\ after \in Seq(FrameSet) /\ Len(after) = Len(calls)
        /\ after # <<>> /\ Top(after) = g /\ Below(after) = Below(calls)
    BY <1>2, WithTopStack
  <1>4. SettledBefore(g, g.next)
    <2>1. SUFFICES ASSUME NEW j \in 1..f.next, EntryAt(f, j).type = "CNAME", f.req.qtype # "CNAME"
                   PROVE  Acyclic(EntryAt(f, j).data)
      BY <1>1, <1>2 DEF SettledBefore, EntryAt
    <2>2. j \in 1..(f.next - 1)
      BY <1>2, <2>1
    <2>3. QED
      BY SMTT(20), <1>2, <2>1, <2>2 DEF SettledBefore
  <1> HIDE DEF after
  <1>5. CallsOK(after)
    BY <1>1, <1>2, <1>3, <1>4 DEF CallsOK
  <1>6. QED
    BY <1>1, <1>5 DEF after

(* Then all calls wait for its target. *)
LEMMA ProceedWaits ==
  ASSUME ChainInv, calls # <<>>, NEW f, f = Top(calls),
         f.next <= Len(EntriesOf(f.req.name)),
         NEW rec \in RecordSet, rec.owner = f.req.name,
         EntryAt(f, f.next).type = "CNAME", rec.data = EntryAt(f, f.next).data,
         f.req.qtype # "CNAME"
  PROVE  CallsWait(Proceed(calls, <<rec>>), rec.data)
  <1> DEFINE recs == <<rec>>
  <1>1. recs \in Seq(RecordSet) /\ recs # <<>> /\ \A i \in DOMAIN recs : recs[i].owner = f.req.name
    OBVIOUS
  <1>2. Len(recs) = 1 /\ recs[1] = rec
    OBVIOUS
  <1> HIDE DEF recs
  <1>3. PICK g \in FrameSet :
             /\ Proceed(calls, recs) = WithTop(calls, g)
             /\ g.req = f.req /\ g.seen = f.seen /\ g.next = f.next + 1
             /\ g.records = f.records \o recs
             /\ FrameOK(g)
    BY Zenon, <1>1, ProceedFrame
  <1>4. /\ calls \in Seq(FrameSet) /\ f.next \in Nat /\ f.next > 0
        /\ RequestOK(Len(calls) = 1, f.req) /\ f.records \in Seq(RecordSet)
        /\ CallsWait(Below(calls), f.req.name) /\ SettledBefore(f, f.next)
    BY SMTT(20), TopFacts
  <1>5. WaitsFor(g, rec.data)
    <2>1. g.next > 1 /\ g.next - 1 = f.next
      BY <1>3, <1>4
    <2>2. g.records # <<>> /\ g.records[Len(g.records)] = rec
      <3>1. Len(f.records \o recs) = Len(f.records) + 1 /\ Len(f.records) \in Nat
        <4>1. f.records \in Seq(RecordSet) /\ recs \in Seq(RecordSet) /\ Len(recs) = 1
          BY <1>1, <1>2, <1>4
        <4>2. Len(f.records \o recs) = Len(f.records) + Len(recs) /\ Len(f.records) \in Nat
          BY Zenon, <4>1, ConcatLength
        <4>3. QED
          BY <4>1, <4>2
      <3>2. (f.records \o recs)[Len(f.records) + 1] = recs[1]
        BY <1>1, <1>2, <1>4
      <3>3. QED
        BY <1>2, <1>3, <3>1, <3>2
    <2>3. SettledBefore(g, f.next)
      BY <1>3, <1>4 DEF SettledBefore, EntryAt
    <2>4. EntryAt(g, f.next) = EntryAt(f, f.next)
      BY <1>3 DEF EntryAt
    <2>5. QED
      BY <1>3, <2>1, <2>2, <2>3, <2>4 DEF WaitsFor
  <1>6. CallsWait(WithTop(calls, g), rec.data)
    BY <1>3, <1>4, <1>5, TopWaits
  <1>7. QED
    BY <1>3, <1>6 DEF recs

(* An entry keeps the invariant. A loop is reported at a target that was   *)
(* seen on the way, and such a target leads to itself.                     *)
LEMMA ChainEntryInv ==
  ASSUME ChainInv, ProcessDNSEntry
  PROVE  ChainInv'
  <1> DEFINE f == Top(calls)
             e == EntriesOf(f.req.name)[f.next]
  <1>1. calls # <<>> /\ f.next <= Len(EntriesOf(f.req.name)) /\ UNCHANGED <<conf, asked, start>>
    BY DEF ProcessDNSEntry
  <1>2. \/ ProcessCNAME(f, e) \/ ProcessValue(f, e)
        \/ CustomReturns(Failure("error", f.req, {}))
    BY DEF ProcessDNSEntry
  <1>3. /\ UnderWay /\ f.req \in Request /\ f.req.name \in Domain /\ asked # NoRequest
        /\ ~IsFiltered /\ ~IsRefused /\ f.req.qtype = asked.qtype
        /\ f.seen \subseteq AllTargets /\ calls \in Seq(FrameSet)
    BY <1>1, TopFacts DEF UnderWay
  <1>4. /\ e \in Entry /\ EntryAt(f, f.next) = e
        /\ e.type = "CNAME" =>
             /\ e.data \in AllTargets
             /\ e.data \in LeadsTo(start)
             /\ \A t \in f.seen : e.data \in LeadsTo(t)
    BY <1>1, NextEntry
  <1>5. e.type \in RecordTypes /\ e.data \in Domain
    BY <1>4 DEF Entry
  <1>6. SentOK(sent)
    BY DEF ChainInv
  <1> HIDE DEF f, e
  <1>7. f = Top(calls)
    BY DEF f
  <1>8. CASE ProcessCNAME(f, e)
    <2> DEFINE cname == Record(f.req.name, "CNAME", e.data)
               target == [f.req EXCEPT !.id = InternalId, !.name = e.data, !.lower = TRUE]
    <2>1. e.type = "CNAME"
      BY <1>8 DEF ProcessCNAME
    <2>2. \/ f.req.qtype = "CNAME" /\ calls' = Proceed(calls, <<cname>>)
             /\ UNCHANGED <<sent, reply>>
          \/ e.data \in f.seen /\ CustomReturns(Failure("loop", f.req, {}))
          \/ /\ f.req.qtype # "CNAME"
             /\ ProcessRequest(Proceed(calls, <<cname>>), target, f.seen \cup {e.data})
      BY <1>8 DEF ProcessCNAME
    <2>3. cname \in RecordSet /\ cname.owner = f.req.name /\ cname.data = e.data
      BY <1>3, <1>5, <2>1 DEF Record, RecordSet
    <2>4. /\ target \in Request /\ target.name = e.data /\ target.lower
          /\ target.qtype = f.req.qtype
      BY Zenon, <1>3, <1>5 DEF Request, InternalId
    <2> HIDE DEF cname, target
    <2>5. CASE f.req.qtype = "CNAME" /\ calls' = Proceed(calls, <<cname>>)
               /\ UNCHANGED <<sent, reply>>
      <3> DEFINE recs == <<cname>>
      <3>1. recs \in Seq(RecordSet) /\ recs # <<>>
            /\ \A i \in DOMAIN recs : recs[i].owner = f.req.name
        BY <2>3
      <3>2. calls' = Proceed(calls, recs)
        BY <2>5
      <3> HIDE DEF recs
      <3>3. CallsOK(calls')
        BY <1>1, <1>7, <2>5, <3>1, <3>2, ProceedOK DEF f
      <3>4. QED
        BY <1>1, <1>3, <1>6, <2>5, <3>3, CallsGoOn
    <2>6. CASE e.data \in f.seen /\ CustomReturns(Failure("loop", f.req, {}))
      <3>1. Cyclic
        BY <1>4, <2>1, <2>6 DEF Cyclic
      <3>2. QED
        BY <1>1, <1>3, <2>6, <3>1, FailureEnds, CustomReturnsInv
    <2>7. CASE /\ f.req.qtype # "CNAME"
               /\ ProcessRequest(Proceed(calls, <<cname>>), target, f.seen \cup {e.data})
      <3> DEFINE stack == Proceed(calls, <<cname>>)
      <3>1. CallsWait(stack, target.name)
        BY <1>1, <1>4, <1>7, <2>1, <2>3, <2>4, <2>7, ProceedWaits DEF f
      <3>2. stack # <<>>
        <4>1. Len(stack) = Len(calls) /\ Len(calls) > 0
          BY <1>1, <1>3 DEF Proceed
        <4>2. QED
          BY <4>1
      <3> HIDE DEF stack
      <3>3. RequestOK(stack = <<>>, target)
        BY <1>3, <1>4, <2>1, <2>4, <3>2 DEF RequestOK
      <3>4. OnTheWay(f.seen \cup {e.data}, target.name)
        <4>1. OnTheWay(f.seen, f.req.name)
          BY <1>1, TopFacts DEF FrameOK, f
        <4>2. QED
          BY SMTT(20), <1>4, <2>1, <2>4, <4>1 DEF OnTheWay
      <3>5. f.seen \cup {e.data} \in SUBSET AllTargets
        BY <1>3, <1>4, <2>1
      <3>6. ProcessRequest(stack, target, f.seen \cup {e.data})
        BY <2>7 DEF stack
      <3>7. QED
        BY <1>1, <1>3, <2>4, <3>1, <3>3, <3>4, <3>5, <3>6, ProcessRequestInv
    <2>8. QED
      BY <2>2, <2>5, <2>6, <2>7
  <1>9. CASE ProcessValue(f, e)
    <2> DEFINE rec == Record(f.req.name, e.type, e.data)
               recs == IF e.type = f.req.qtype THEN <<rec>> ELSE <<>>
    <2>1. e.type # "CNAME" /\ calls' = Proceed(calls, recs) /\ UNCHANGED <<sent, reply>>
      BY <1>9 DEF ProcessValue
    <2>2. rec \in RecordSet /\ rec.owner = f.req.name
      BY <1>3, <1>5 DEF Record, RecordSet
    <2> HIDE DEF rec
    <2>3. recs \in Seq(RecordSet) /\ \A i \in DOMAIN recs : recs[i].owner = f.req.name
      <3>1. CASE e.type = f.req.qtype
        BY <2>2, <3>1
      <3>2. CASE e.type # f.req.qtype
        BY <3>2
      <3>3. QED
        BY <3>1, <3>2
    <2> HIDE DEF recs
    <2>4. CallsOK(calls')
      BY <1>1, <1>4, <1>7, <2>1, <2>3, ProceedOK DEF f
    <2>5. QED
      BY <1>1, <1>3, <1>6, <2>1, <2>4, CallsGoOn
  <1>10. CASE CustomReturns(Failure("error", f.req, {}))
    BY <1>1, <1>3, <1>10, FailureEnds, CustomReturnsInv
  <1>11. QED
    BY <1>2, <1>8, <1>9, <1>10 DEF f, e

(* The end of the entries keeps the invariant: all of them were gone       *)
(* through, so what the name leads to has no cycle.                        *)
LEMMA ChainEndEntriesInv ==
  ASSUME ChainInv, EndEntries
  PROVE  ChainInv'
  <1> DEFINE f == Top(calls)
             r == f.req
             stack == Below(calls)
  <1>1. calls # <<>> /\ f.next > Len(EntriesOf(r.name)) /\ UNCHANGED <<conf, asked, start>>
    BY SMTT(20) DEF EndEntries
  <1>2. /\ UnderWay /\ r \in Request /\ r.name \in Domain /\ asked # NoRequest /\ GoodConf
        /\ FrameOK(f) /\ f.records \in Seq(RecordSet) /\ f.next \in Nat
        /\ RequestOK(stack = <<>>, r) /\ r.qtype = asked.qtype
        /\ CallsWait(stack, r.name) /\ SettledBefore(f, f.next)
        /\ IsMapped(r.name) /\ EntriesOf(r.name) \in Seq(Entry)
    BY <1>1, TopFacts
  <1>3. \/ /\ f.records # <<>> \/ conf.filterUnmappedTypes
           /\ Return(stack, Answer(r, f.records, {}))
        \/ /\ f.records = <<>> /\ ~conf.filterUnmappedTypes
           /\ GoToNext(stack, r)
    BY DEF EndEntries
  <1> HIDE DEF f, stack
  <1>4. \A t \in Targets(r.name) :
          \E j \in 1..(f.next - 1) : EntryAt(f, j).type = "CNAME" /\ EntryAt(f, j).data = t
    <2>1. SUFFICES ASSUME NEW j \in DOMAIN EntriesOf(r.name), EntriesOf(r.name)[j].type = "CNAME"
                   PROVE  j \in 1..(f.next - 1)
      BY <1>2, <2>1 DEF Targets, TargetsOf, Range, EntryAt
    <2>2. QED
      BY <1>1, <1>2
  <1>5. r.qtype # "CNAME" => Acyclic(r.name)
    BY <1>2, <1>4, AcyclicByTargets DEF SettledBefore
  <1>6. CASE Return(stack, Answer(r, f.records, {}))
    <2> DEFINE result == Answer(r, f.records, {})
    <2>1. "answer" \in Kinds
      BY SMTT(20) DEF Kinds
    <2>2. /\ result \in ResultSet /\ result.kind = "answer" /\ result.id = r.id
          /\ result.question = <<r.name>> /\ result.records = f.records /\ result.to = {}
      BY SMTT(20), <1>2, <2>1, NothingTyped, ResultTyped DEF Answer
    <2> HIDE DEF result
    <2>3. ReturnedOK(result, r)
      BY <1>2, <1>5, <2>2 DEF ReturnedOK, FrameOK, SentOK
    <2>4. Return(stack, result)
      BY SMTT(20), <1>6 DEF result
    <2>5. QED
      BY <1>1, <1>2, <2>3, <2>4, ReturnInv
  <1>7. CASE f.records = <<>> /\ ~conf.filterUnmappedTypes /\ GoToNext(stack, r)
    <2>1. PICK result \in CustomNext(conf, r) : Return(stack, result)
      BY SMTT(20), <1>7 DEF GoToNext
    <2>2. ReturnedOK(result, r)
      BY Zenon, <1>2, <1>5, <1>7, NextReturned
    <2>3. QED
      BY <1>1, <1>2, <2>1, <2>2, ReturnInv
  <1>8. QED
    BY <1>3, <1>6, <1>7

(* A reverse lookup is answered with records of the address. *)
LEMMA ReverseAnswered ==
  ASSUME ChainInv, asked # NoRequest, asked.qtype = "PTR",
         NEW urls \in Orders(ReverseAddresses(conf, start)),
         NEW result,
         result = Answer(Renamed(asked, start),
                         [i \in DOMAIN urls |-> Record(start, "PTR", urls[i][1])], {})
  PROVE  InnerOK(result)
  <1> DEFINE r == Renamed(asked, start)
             found == ReverseAddresses(conf, start)
             recs == [i \in DOMAIN urls |-> Record(start, "PTR", urls[i][1])]
  <1>1. GoodConf /\ asked \in Request /\ start \in Domain
    BY Handling
  <1>2. r \in Request /\ r.name = start /\ r.id = asked.id
    BY <1>1, RenamedTyped
  <1>3. Cardinality(found) \in Nat
    BY <1>1 DEF GoodConf
  <1>4. \A p \in found : p[1] \in Domain
    BY <1>1 DEF ReverseAddresses, GoodConf, ConfigOK
  <1>5. urls \in [1..Cardinality(found) -> found]
    BY DEF Orders
  <1> HIDE DEF r, found
  <1>6. ASSUME NEW i \in 1..Cardinality(found)
        PROVE  recs[i] \in RecordSet /\ recs[i].owner = start
    <2>1. urls[i][1] \in Domain /\ i \in DOMAIN urls
      BY <1>4, <1>5
    <2>2. "PTR" \in RecordTypes
      BY ChainAssumption
    <2>3. QED
      BY <1>1, <2>1, <2>2 DEF Record, RecordSet
  <1>7. recs \in Seq(RecordSet) /\ \A i \in DOMAIN recs : recs[i].owner = start
    <2>1. DOMAIN recs = 1..Cardinality(found) /\ recs = [i \in 1..Cardinality(found) |-> recs[i]]
      BY <1>5
    <2> HIDE DEF recs
    <2>2. QED
      BY <1>3, <1>6, <2>1
  <1> HIDE DEF recs
  <1>8. "answer" \in Kinds /\ result = Answer(r, recs, {})
    BY SMTT(20) DEF Kinds, r, recs
  <1>9. /\ result \in ResultSet /\ result.kind = "answer" /\ result.id = r.id
        /\ result.question = <<r.name>> /\ result.records = recs /\ result.to = {}
    BY <1>2, <1>7, <1>8, NothingTyped, ResultTyped DEF Answer
  <1>10. Chained(start, result.records)
    BY <1>7, <1>9, OwnRecordsChained
  <1>11. QED
    BY <1>2, <1>9, <1>10 DEF InnerOK, SentOK, Errors

(* The start of the chain keeps the invariant. *)
LEMMA ChainResolveInv ==
  ASSUME ChainInv, Resolve
  PROVE  ChainInv'
  <1>1. asked # NoRequest /\ calls = <<>> /\ reply = NoReply /\ UNCHANGED <<conf, asked, start>>
    BY DEF Resolve
  <1>2. GoodConf /\ asked \in Request /\ start \in Domain
    BY <1>1, Handling
  <1>3. CASE IsFiltered /\ HandleReq(Answer(asked, <<>>, {}))
    <2> DEFINE result == Answer(asked, <<>>, {})
    <2>1. "answer" \in Kinds
      BY DEF Kinds
    <2>2. /\ result.kind = "answer" /\ result.id = asked.id
          /\ result.question = <<asked.name>> /\ result.records = <<>> /\ result.to = {}
      BY <1>2, <2>1, NothingTyped, EmptyTyped DEF Answer
    <2>3. reply' = result /\ calls' = <<>> /\ sent' = sent \cup result.to
      BY <1>3, <2>2 DEF HandleReq
    <2> HIDE DEF result
    <2>4. LoopIffCycle'
      BY <1>1, <1>3, Frozen DEF LoopIffCycle, FollowsCNAMEs
    <2>5. AnswersTheRequest'
      BY <1>1, <2>2, <2>3 DEF AnswersTheRequest
    <2>6. PanicsOnlyAtATarget'
      BY <2>2, <2>3 DEF PanicsOnlyAtATarget
    <2>7. SentOK(reply'.to)
      BY <2>2, <2>3 DEF SentOK
    <2>8. QED
      BY <1>1, <2>3, <2>4, <2>5, <2>6, <2>7, RequestEnds
  <1>4. CASE IsRefused /\ HandleReq([Answer(asked, <<>>, {}) EXCEPT !.id = NoId, !.question = <<>>])
    <2> DEFINE result == [Answer(asked, <<>>, {}) EXCEPT !.id = NoId, !.question = <<>>]
    <2>1. result.kind = "answer" /\ result.to = {}
      BY DEF Answer, Result
    <2>2. reply' = result /\ calls' = <<>> /\ sent' = sent \cup result.to
      BY <1>4, <2>1 DEF HandleReq
    <2> HIDE DEF result
    <2>3. LoopIffCycle'
      BY <1>1, <1>4, Frozen DEF LoopIffCycle, FollowsCNAMEs
    <2>4. AnswersTheRequest'
      BY <1>1, <1>4, Frozen DEF AnswersTheRequest
    <2>5. PanicsOnlyAtATarget'
      BY <2>1, <2>2 DEF PanicsOnlyAtATarget
    <2>6. SentOK(reply'.to)
      BY <2>1, <2>2 DEF SentOK
    <2>7. QED
      BY <1>1, <2>2, <2>3, <2>4, <2>5, <2>6, RequestEnds
  <1>5. CASE ~IsFiltered /\ ~IsRefused /\ CustomDNS(Renamed(asked, start))
    <2> DEFINE r == Renamed(asked, start)
    <2>1. r \in Request /\ r.name = start /\ r.qtype = asked.qtype
      BY <1>2, RenamedTyped
    <2>2. UnderWay
      BY <1>1, <1>5 DEF UnderWay
    <2> HIDE DEF r
    <2>3. \/ /\ r.qtype = "PTR"
             /\ \E urls \in Orders(ReverseAddresses(conf, r.name)) :
                  CustomReturns(Answer(r, [i \in DOMAIN urls |->
                                             Record(r.name, "PTR", urls[i][1])], {}))
          \/ ProcessRequest(<<>>, r, {})
      BY SMTT(20), <1>5 DEF CustomDNS, r
    <2>4. CASE /\ r.qtype = "PTR"
               /\ \E urls \in Orders(ReverseAddresses(conf, r.name)) :
                    CustomReturns(Answer(r, [i \in DOMAIN urls |->
                                               Record(r.name, "PTR", urls[i][1])], {}))
      <3>1. PICK urls \in Orders(ReverseAddresses(conf, start)) :
              CustomReturns(Answer(r, [i \in DOMAIN urls |-> Record(start, "PTR", urls[i][1])], {}))
        BY Zenon, <2>1, <2>4
      <3> DEFINE result == Answer(r, [i \in DOMAIN urls |-> Record(start, "PTR", urls[i][1])], {})
      <3>2. InnerOK(result)
        BY <1>1, <2>1, <2>4, ReverseAnswered DEF r
      <3>3. QED
        BY <1>1, <1>5, <3>1, <3>2, CustomReturnsInv
    <2>5. CASE ProcessRequest(<<>>, r, {})
      <3>1. CallsWait(<<>>, r.name)
        BY DEF CallsWait
      <3>2. RequestOK(<<>> = <<>>, r)
        BY DEF RequestOK, r
      <3>3. OnTheWay({}, r.name) /\ {} \in SUBSET AllTargets
        BY DEF OnTheWay
      <3>4. QED
        BY Zenon, <1>1, <2>1, <2>2, <2>5, <3>1, <3>2, <3>3, ProcessRequestInv
    <2>6. QED
      BY Zenon, <2>3, <2>4, <2>5
  <1>6. QED
    BY <1>3, <1>4, <1>5 DEF Resolve

(* A new request finds nothing under way. *)
LEMMA ChainAskInv ==
  ASSUME ChainInv, NEW r \in Requests, Ask(r)
  PROVE  ChainInv'
  <1>1. /\ asked = NoRequest /\ asked' = r /\ start' \in Rewritings(conf.rewrite, r.name)
        /\ conf' = conf /\ calls' = calls /\ sent' = sent /\ reply' = reply
    BY DEF Ask
  <1>2. calls = <<>> /\ sent = {} /\ reply = NoReply /\ conf \in Configs
    BY <1>1 DEF ChainInv
  <1>3. r # NoRequest /\ r.name \in Domain /\ GoodConf /\ GoodConf'
    BY SMTT(20), <1>1, ConfStaysGood, ChainAssumption DEF Request, ChainInv
  <1>4. start' \in Domain
    BY <1>1, <1>3, RewritingsAreDomains DEF GoodConf, ConfigOK
  <1>5. CallsOK(calls)'
    <2>1. <<>> \in Seq(FrameSet')
      OBVIOUS
    <2>2. QED
      BY <1>1, <1>2, <2>1 DEF CallsOK
  <1>6. SentOK(sent)'
    BY <1>1, <1>2 DEF SentOK
  <1>7. LoopIffCycle' /\ AnswersTheRequest'
    BY Zenon, <1>1, <1>2 DEF LoopIffCycle, FollowsCNAMEs, AnswersTheRequest, Replied, NoReply
  <1>8. PanicsOnlyAtATarget'
    BY <1>1, <1>2 DEF PanicsOnlyAtATarget, NoReply, Failure, Result
  <1>9. QED
    BY <1>1, <1>2, <1>3, <1>4, <1>5, <1>6, <1>7, <1>8 DEF ChainInv

(* Every step keeps the invariant. *)
LEMMA ChainIsInductive ==
  ChainInv /\ [ChainNext]_chainVars => ChainInv'
  <1> SUFFICES ASSUME ChainInv, [ChainNext]_chainVars
               PROVE  ChainInv'
    OBVIOUS
  <1>1. CASE UNCHANGED chainVars
    <2>1. conf' = conf /\ asked' = asked /\ start' = start /\ calls' = calls
          /\ sent' = sent /\ reply' = reply
      BY <1>1 DEF chainVars
    <2>2. CallsOK(calls)' /\ SentOK(sent)'
      BY <2>1, Frozen DEF ChainInv
    <2>3. UnderWay' = UnderWay /\ Replied' = Replied
      BY SMTT(20), <2>1, Frozen DEF UnderWay, NoReply, Replied
    <2>4. LoopIffCycle' /\ AnswersTheRequest'
      BY <2>1, <2>3, Frozen, FrozenNames
         DEF ChainInv, LoopIffCycle, FollowsCNAMEs, AnswersTheRequest, ForeignFailure
    <2>5. PanicsOnlyAtATarget'
      BY <2>1, FrozenNames DEF ChainInv, PanicsOnlyAtATarget
    <2>6. QED
      BY <2>1, <2>2, <2>3, <2>4, <2>5, ConfStaysGood DEF ChainInv
  <1>2. QED
    BY <1>1, ChainAskInv, ChainResolveInv, ChainEntryInv, ChainEndEntriesInv DEF ChainNext

-----------------------------------------------------------------------------
(* The calls under way go to ever new targets: each but the first is for a *)
(* target that is on the way to it and was not on the way to those before. *)
Descends(stack) ==
  \A i, j \in 1..Len(stack) :
    i < j => /\ stack[i].seen \subseteq stack[j].seen
             /\ stack[j].req.name \in stack[j].seen \ stack[i].seen

(* The calls of a stack are the first ones of another. *)
FirstCalls(stack, of) ==
  /\ Len(stack) \in Nat /\ Len(of) \in Nat /\ Len(stack) <= Len(of)
  /\ \A i \in 1..Len(stack) : stack[i].req = of[i].req /\ stack[i].seen = of[i].seen

(* A call that returns or goes on to its next entry leaves the way to the  *)
(* others alone.                                                           *)
LEMMA FirstCallsDescend ==
  ASSUME NEW stack, NEW of, FirstCalls(stack, of), Descends(of)
  PROVE  Descends(stack)
  <1> SUFFICES ASSUME NEW i \in 1..Len(stack), NEW j \in 1..Len(stack), i < j
               PROVE  /\ stack[i].seen \subseteq stack[j].seen
                      /\ stack[j].req.name \in stack[j].seen \ stack[i].seen
    BY DEF Descends
  <1>1. i \in 1..Len(of) /\ j \in 1..Len(of)
    BY DEF FirstCalls
  <1>2. QED
    BY <1>1 DEF FirstCalls, Descends

(* A call for a target that the last one has not seen continues the way. *)
LEMMA NewTargetDescends ==
  ASSUME NEW stack \in Seq(FrameSet), Descends(stack), NEW r, NEW seen,
         stack # <<>> => /\ r.name \notin Top(stack).seen
                         /\ seen = Top(stack).seen \cup {r.name}
  PROVE  Descends(Append(stack, Frame(r, seen)))
  <1> PICK new : new = Append(stack, Frame(r, seen))
    BY Zenon
  <1> PICK n : n = Len(stack)
    OBVIOUS
  <1> SUFFICES ASSUME NEW i \in 1..Len(new), NEW j \in 1..Len(new), i < j
               PROVE  /\ new[i].seen \subseteq new[j].seen
                      /\ new[j].req.name \in new[j].seen \ new[i].seen
    BY DEF Descends
  <1>1. n \in Nat /\ Len(new) = n + 1 /\ new[n + 1] = Frame(r, seen)
        /\ \A k \in 1..n : new[k] = stack[k]
    OBVIOUS
  <1>2. CASE j # n + 1
    <2>1. i \in 1..n /\ j \in 1..n
      BY <1>1, <1>2
    <2>2. QED
      BY <1>1, <2>1 DEF Descends
  <1>3. CASE j = n + 1
    <2>1. i \in 1..n /\ n \in 1..n
      BY <1>1, <1>3
    <2>2. new[j].seen = Top(stack).seen \cup {r.name} /\ new[j].req.name = r.name
          /\ r.name \notin Top(stack).seen
      BY <1>1, <1>3, <2>1 DEF Frame, Top
    <2>3. stack[i].seen \subseteq Top(stack).seen
      <3>1. CASE i = n
        BY <3>1 DEF Top
      <3>2. CASE i # n
        <4>1. i < n
          BY <2>1, <3>2, <1>1
        <4>2. QED
          BY <4>1, <2>1 DEF Descends, Top
      <3>3. QED
        BY <3>1, <3>2
    <2>4. QED
      BY <1>1, <2>1, <2>2, <2>3
  <1>4. QED
    BY <1>2, <1>3

(* The last call takes records, and may go on to its next entry. *)
LEMMA ProceedKeepsCalls ==
  ASSUME NEW stack \in Seq(FrameSet), stack # <<>>, NEW records
  PROVE  FirstCalls(Proceed(stack, records), stack)
         /\ FirstCalls([stack EXCEPT ![Len(stack)].records = @ \o records], stack)
         /\ Len(Proceed(stack, records)) = Len(stack)
  <1>1. Len(stack) \in Nat /\ Len(stack) \in 1..Len(stack) /\ DOMAIN stack = 1..Len(stack)
    OBVIOUS
  <1>2. \A i \in 1..Len(stack) : stack[i] \in FrameSet
    OBVIOUS
  <1> PICK one : one = Proceed(stack, records)
    OBVIOUS
  <1> PICK two : two = [stack EXCEPT ![Len(stack)].records = @ \o records]
    BY Zenon
  <1>3. DOMAIN one = 1..Len(stack) /\ DOMAIN two = 1..Len(stack)
    BY <1>1 DEF Proceed
  <1>4. \A i \in 1..Len(stack) : one[i].req = stack[i].req /\ one[i].seen = stack[i].seen
    BY <1>1, <1>2 DEF Proceed, FrameSet
  <1>5. \A i \in 1..Len(stack) : two[i].req = stack[i].req /\ two[i].seen = stack[i].seen
    BY <1>1, <1>2 DEF FrameSet
  <1>6. Len(one) = Len(stack) /\ Len(two) = Len(stack)
    BY <1>1, <1>3
  <1>7. QED
    BY <1>1, <1>4, <1>5, <1>6 DEF FirstCalls

(* A call returns to the one before, or the request ends. *)
LEMMA ReturnDescends ==
  ASSUME NEW stack \in Seq(FrameSet), Descends(stack), NEW result, Return(stack, result)
  PROVE  Descends(calls')
  <1>1. CASE calls' = <<>>
    BY <1>1 DEF Descends
  <1>2. CASE stack # <<>>
             /\ calls' = [stack EXCEPT ![Len(stack)].records = @ \o result.records]
    BY Zenon, <1>2, ProceedKeepsCalls, FirstCallsDescend
  <1>3. QED
    BY Zenon, <1>1, <1>2 DEF Return, CustomReturns, HandleReq

(* The next resolver returns in place of the last call. *)
LEMMA GoToNextDescends ==
  ASSUME NEW stack \in Seq(FrameSet), Descends(stack), NEW r, GoToNext(stack, r)
  PROVE  Descends(calls')
  BY ReturnDescends DEF GoToNext

(* A call for a target that is new, and one for a request. *)
LEMMA RequestDescends ==
  ASSUME NEW stack \in Seq(FrameSet), Descends(stack), NEW r, NEW seen,
         ProcessRequest(stack, r, seen),
         stack # <<>> => /\ r.name \notin Top(stack).seen
                         /\ seen = Top(stack).seen \cup {r.name}
  PROVE  Descends(calls')
  <1>1. CASE calls' = Append(stack, Frame(r, seen))
    BY <1>1, NewTargetDescends
  <1>2. CASE GoToNext(stack, r)
    BY <1>2, GoToNextDescends
  <1>3. CASE CustomReturns(Failure("error", r, {}))
    BY SMTT(20), <1>3 DEF CustomReturns, HandleReq, Descends
  <1>4. QED
    BY <1>1, <1>2, <1>3 DEF ProcessRequest

(* An entry of the last call. *)
LEMMA EntryDescends ==
  ASSUME ChainInv, Descends(calls), ProcessDNSEntry
  PROVE  Descends(calls')
  <1> DEFINE f == Top(calls)
             e == EntriesOf(f.req.name)[f.next]
             cname == Record(f.req.name, "CNAME", e.data)
             target == [f.req EXCEPT !.id = InternalId, !.name = e.data, !.lower = TRUE]
  <1>1. calls # <<>> /\ f.next <= Len(EntriesOf(f.req.name))
    BY SMTT(20) DEF ProcessDNSEntry
  <1>2. calls \in Seq(FrameSet) /\ f.req \in Request /\ f.req.name \in Domain
    BY <1>1, TopFacts
  <1>3. /\ e \in Entry /\ EntryAt(f, f.next) = e
    BY <1>1, NextEntry
  <1>4. \/ CustomReturns(Failure("error", f.req, {}))
        \/ CustomReturns(Failure("loop", f.req, {}))
        \/ \E records : calls' = Proceed(calls, records)
        \/ /\ e.type = "CNAME" /\ f.req.qtype # "CNAME" /\ e.data \notin f.seen
           /\ ProcessRequest(Proceed(calls, <<cname>>), target, f.seen \cup {e.data})
    BY DEF ProcessDNSEntry, ProcessCNAME, ProcessValue
  <1>5. e.type \in RecordTypes /\ e.data \in Domain
    BY SMTT(20), <1>3 DEF Entry
  <1>6. cname \in RecordSet /\ cname.owner = f.req.name /\ cname.data = e.data
    BY <1>2, <1>5, ChainAssumption DEF Record, RecordSet, Supported
  <1>7. target.name = e.data
    BY <1>2, <1>5 DEF Request
  <1> HIDE DEF f, e, cname, target
  <1>8. f = Top(calls)
    BY DEF f
  <1>9. CASE \E records : calls' = Proceed(calls, records)
    <2> PICK records : calls' = Proceed(calls, records)
      BY <1>9
    <2>1. QED
      BY Zenon, <1>1, <1>2, ProceedKeepsCalls, FirstCallsDescend
  <1>10. CASE /\ e.type = "CNAME" /\ f.req.qtype # "CNAME" /\ e.data \notin f.seen
              /\ ProcessRequest(Proceed(calls, <<cname>>), target, f.seen \cup {e.data})
    <2> PICK waiting : waiting = Proceed(calls, <<cname>>)
      OBVIOUS
    <2>1. CallsWait(waiting, e.data)
      BY <1>1, <1>3, <1>6, <1>8, <1>10, ProceedWaits
    <2>2. waiting \in Seq(FrameSet)
      BY Zenon, <2>1 DEF CallsWait
    <2>3. FirstCalls(waiting, calls) /\ Len(waiting) = Len(calls)
      BY Zenon, <1>1, <1>2, ProceedKeepsCalls
    <2>4. Descends(waiting)
      BY <2>3, FirstCallsDescend
    <2>5. Top(waiting).seen = f.seen
      BY <1>1, <1>2, <1>8, <2>3 DEF FirstCalls, Top
    <2>6. QED
      BY <1>7, <1>10, <2>2, <2>4, <2>5, RequestDescends
  <1>11. QED
    BY <1>4, <1>9, <1>10 DEF CustomReturns, HandleReq, Descends

(* The end of the entries of the last call. *)
LEMMA EndDescends ==
  ASSUME ChainInv, Descends(calls), EndEntries
  PROVE  Descends(calls')
  <1>1. calls # <<>> /\ calls \in Seq(FrameSet)
    BY TopFacts DEF EndEntries
  <1>2. /\ Below(calls) \in Seq(FrameSet) /\ Len(Below(calls)) = Len(calls) - 1
        /\ Len(calls) \in Nat /\ Len(calls) > 0
        /\ \A i \in 1..(Len(calls) - 1) : Below(calls)[i] = calls[i]
    BY <1>1, BelowStack
  <1>3. FirstCalls(Below(calls), calls)
    BY <1>2 DEF FirstCalls
  <1>4. Descends(Below(calls))
    BY <1>3, FirstCallsDescend
  <1>5. QED
    BY <1>2, <1>4, ReturnDescends, GoToNextDescends DEF EndEntries

(* Every step of the chain, together with ChainInv. *)
LEMMA DescendsIsInductive ==
  ASSUME ChainInv, Descends(calls), [ChainNext]_chainVars
  PROVE  Descends(calls)'
  <1>1. CASE UNCHANGED calls
    BY <1>1 DEF Descends
  <1>2. CASE Resolve
    <2>1. calls = <<>> /\ calls \in Seq(FrameSet)
      BY <1>2 DEF Resolve
    <2>2. ASSUME NEW r, ProcessRequest(<<>>, r, {})
          PROVE  Descends(calls')
      BY Zenon, <2>1, <2>2, RequestDescends
    <2>3. calls' = <<>> \/ \E r : ProcessRequest(<<>>, r, {})
      BY Zenon, <1>2 DEF Resolve, CustomDNS, CustomReturns, HandleReq
    <2>4. QED
      BY <2>2, <2>3 DEF Descends
  <1>3. CASE ProcessDNSEntry
    BY <1>3, EntryDescends
  <1>4. CASE EndEntries
    BY <1>4, EndDescends
  <1>5. QED
    BY <1>1, <1>2, <1>3, <1>4 DEF ChainNext, Ask, chainVars

(* A target is the data of an entry. *)
LEMMA TargetsOfEntries ==
  ASSUME NEW entries, NEW x \in TargetsOf(entries)
  PROVE  \E i \in DOMAIN entries : x = entries[i].data
  BY DEF TargetsOf, Range

-----------------------------------------------------------------------------
(* What FiniteSets means by finite and by the number of elements: the      *)
(* theorems instantiated next speak of their own copy of the module.       *)
LEMMA FiniteAndCount ==
  /\ \A S : IsFiniteSet(S) <=>
             \E s \in Seq(S) : \A x \in S : \E n \in 1..Len(s) : s[n] = x
  /\ \A S : Cardinality(S) =
             LET Count[Q \in SUBSET S] ==
                   IF Q = {} THEN 0 ELSE 1 + Count[Q \ {CHOOSE x : x \in Q}]
             IN  Count[S]
  <1>1. \A S : IsFiniteSet(S) <=>
             \E s \in Seq(S) : \A x \in S : \E n \in 1..Len(s) : s[n] = x
    BY DEF IsFiniteSet
  <1>2. \A S : Cardinality(S) =
             LET Count[Q \in SUBSET S] ==
                   IF Q = {} THEN 0 ELSE 1 + Count[Q \ {CHOOSE x : x \in Q}]
             IN  Count[S]
    BY Zenon DEF Cardinality
  <1>3. QED
    BY <1>1, <1>2, Zenon

LOCAL INSTANCE WellFoundedInduction
LOCAL INSTANCE FiniteSetTheorems

(* Some numbers have a least one; the walk from a name to the root ends at *)
(* it.                                                                     *)
LEMMA LeastNumber ==
  ASSUME NEW S, S \subseteq Nat, S # {}
  PROVE  \E x \in S : \A y \in S : x <= y
  <1>1. PICK x \in S : \A y \in S : ~(<<y, x>> \in OpToRel(<, Nat))
    BY Zenon, WFMin, NatLessThanWellFounded
  <1>2. \A y \in S : ~(y < x)
    BY Zenon, <1>1 DEF OpToRel
  <1>3. QED
    BY <1>2

(* The domain that the walk from a name to the root finds first is one of  *)
(* the domains.                                                            *)
LEMMA ClosestIsOne ==
  ASSUME NEW name \in Domain, NEW domains, Matching(name, domains) # {}
  PROVE  Closest(name, domains) \in domains
  <1> DEFINE M == Matching(name, domains)
  <1>1. M \subseteq Nat
    BY DEF Matching, Domain
  <1>2. \E k \in M : \A l \in M : k <= l
    BY <1>1, LeastNumber
  <1>3. (CHOOSE k \in M : \A l \in M : k <= l) \in M
    BY <1>2
  <1>4. QED
    BY <1>3 DEF Matching, Closest

(* The entries of an address are finitely many. *)
LEMMA ReverseIsFinite ==
  ASSUME ConfigOK(conf), NEW name
  PROVE  IsFiniteSet(ReverseAddresses(conf, name))
  <1> DEFINE Of(d) == {d} \X DOMAIN conf.mapping[d]
             all == {Of(d) : d \in DOMAIN conf.mapping}
  <1>1. ASSUME NEW d \in DOMAIN conf.mapping
        PROVE  IsFiniteSet(Of(d))
    <2>1. conf.mapping[d] \in Seq(Entry)
      BY DEF ConfigOK
    <2>2. DOMAIN conf.mapping[d] = 1..Len(conf.mapping[d]) /\ Len(conf.mapping[d]) \in Int
      BY <2>1
    <2>3. IsFiniteSet(DOMAIN conf.mapping[d])
      BY <2>2, FS_Interval
    <2>4. IsFiniteSet({d})
      BY FS_Singleton
    <2>5. QED
      BY <2>3, <2>4, FS_Product
  <1>2. IsFiniteSet(all)
    <2>1. IsFiniteSet(DOMAIN conf.mapping)
      BY FiniteAndCount DEF ConfigOK, IsFiniteSet
    <2> DEFINE g == [d \in DOMAIN conf.mapping |-> Of(d)]
    <2>2. g \in Surjection(DOMAIN conf.mapping, all)
      BY Zenon DEF Surjection
    <2>3. QED
      BY <2>1, <2>2, FS_Surjection
  <1>3. IsFiniteSet(UNION all)
    BY Zenon, <1>1, <1>2, FS_UNION
  <1>4. ReverseAddresses(conf, name) \subseteq UNION all
    BY DEF ReverseAddresses
  <1>5. QED
    BY <1>3, <1>4, FS_Subset

(* Every configuration is a good one: a walk from a mapped name to the     *)
(* root meets a least match, and a finite mapping has finitely many        *)
(* entries.                                                                *)
LEMMA ConfigurationsAreGood ==
  ASSUME conf \in Configs
  PROVE  GoodConf
  <1>1. ConfigOK(conf)
    BY ChainAssumption
  <1>2. \A x \in Domain : IsMapped(x) =>
           Closest(x, DOMAIN conf.mapping) \in DOMAIN conf.mapping
    BY ClosestIsOne DEF IsMapped
  <1>3. \A x : Cardinality(ReverseAddresses(conf, x)) \in Nat
    BY <1>1, ReverseIsFinite, FS_CardinalityType
  <1>4. \A S : Cardinality(S) =
             LET Count[Q \in SUBSET S] ==
                   IF Q = {} THEN 0 ELSE 1 + Count[Q \ {CHOOSE x : x \in Q}]
             IN  Count[S]
    BY Zenon DEF Cardinality
  <1>5. QED
    BY <1>1, <1>2, <1>3, <1>4, FiniteAndCount, Zenon DEF GoodConf

(* It holds at the start. *)
LEMMA ChainBegins ==
  ChainInit => ChainInv
  <1> SUFFICES ASSUME ChainInit
               PROVE  ChainInv
    OBVIOUS
  <1>1. conf \in Configs /\ asked = NoRequest /\ start = Root /\ calls = <<>> /\ sent = {}
        /\ reply = NoReply
    BY DEF ChainInit
  <1>2. start \in Domain
    BY <1>1 DEF Root, Domain
  <1>3. CallsOK(calls) /\ SentOK(sent)
    <2>1. <<>> \in Seq(FrameSet)
      OBVIOUS
    <2>2. QED
      BY <1>1, <2>1 DEF CallsOK, SentOK
  <1>4. LoopIffCycle /\ AnswersTheRequest
    BY <1>1 DEF LoopIffCycle, FollowsCNAMEs, AnswersTheRequest, Replied
  <1>5. PanicsOnlyAtATarget
    BY <1>1 DEF PanicsOnlyAtATarget, NoReply, Failure, Result
  <1>6. QED
    BY <1>1, <1>2, <1>3, <1>4, <1>5, ConfigurationsAreGood DEF ChainInv

(* The chain keeps its inductive invariant, for all configurations,        *)
(* requests and names.                                                     *)
THEOREM ChainInvariance ==
  ChainSpec => []ChainInv
  BY ChainBegins, ChainIsInductive, PTL DEF ChainSpec

(* For every configuration: processRequest reports a loop of CNAMEs only   *)
(* for a name that leads to a cycle, and no such name is answered unless   *)
(* an error falls back to the upstreams.                                   *)
THEOREM LoopAlwaysIffCycle ==
  ChainSpec => []LoopIffCycle
  <1>1. ChainInv => LoopIffCycle
    BY DEF ChainInv
  <1>2. QED
    BY <1>1, ChainInvariance, PTL

(* For every configuration: a reply has the number and the question of its *)
(* request, and its records belong to the name that was asked or to the    *)
(* target of an earlier CNAME, although names were rewritten on the way.   *)
THEOREM AlwaysAnswersTheRequest ==
  ChainSpec => []AnswersTheRequest
  <1>1. ChainInv => AnswersTheRequest
    BY DEF ChainInv
  <1>2. QED
    BY <1>1, ChainInvariance, PTL

(* For every configuration: the upstreams at the end of the chain are      *)
(* asked for the name of the request or for the target of a CNAME, never   *)
(* for a rewritten name.                                                   *)
THEOREM RewritesAlwaysInside ==
  ChainSpec => []RewritesStayInside
  <1>1. ChainInv => RewritesStayInside
    <2>1. SUFFICES ASSUME SentOK(sent), NEW n, <<"tree", n>> \in sent
                   PROVE  n \in {asked.name} \cup AllTargets
      BY <2>1 DEF ChainInv, RewritesStayInside, SentToTree
    <2>2. QED
      BY <2>1 DEF SentOK
  <1>2. QED
    BY <1>1, ChainInvariance, PTL

(* For every configuration: a special-use name in lower case is not asked  *)
(* at those upstreams.                                                     *)
THEOREM SpecialAlwaysInside ==
  ChainSpec => []SpecialStaysInside
  <1>1. ChainInv => SpecialStaysInside
    <2>1. SUFFICES ASSUME SentOK(sent), asked.lower, NEW n, <<"tree", n>> \in sent
                   PROVE  NotSpecial(n)
      BY <2>1 DEF ChainInv, SpecialStaysInside, SentToTree, NotSpecial
    <2>2. QED
      BY SMTT(20), <2>1 DEF SentOK
  <1>2. QED
    BY <1>1, ChainInvariance, PTL

(* For every configuration: a response without a message never gets to the *)
(* server, and a request panics only if names are rewritten and it leads   *)
(* to a target that the mapping does not answer.                           *)
THEOREM PanicsAlwaysAtATarget ==
  ChainSpec => []PanicsOnlyAtATarget
  <1>1. ChainInv => PanicsOnlyAtATarget
    BY DEF ChainInv
  <1>2. QED
    BY <1>1, ChainInvariance, PTL

-----------------------------------------------------------------------------
(* The targets of all CNAMEs are finitely many. *)
LEMMA TargetsAreFinite ==
  ASSUME ConfigOK(conf)
  PROVE  IsFiniteSet(AllTargets)
  <1> DEFINE Of(d) == TargetsOf(conf.mapping[d])
             all == {Of(d) : d \in DOMAIN conf.mapping}
  <1>1. ASSUME NEW d \in DOMAIN conf.mapping
        PROVE  IsFiniteSet(Of(d))
    <2> PICK entries : entries = conf.mapping[d]
      OBVIOUS
    <2> DEFINE data == {entries[i].data : i \in 1..Len(entries)}
               g == [i \in 1..Len(entries) |-> entries[i].data]
    <2>1. entries \in Seq(Entry)
      BY DEF ConfigOK
    <2>2. Len(entries) \in Int /\ DOMAIN entries = 1..Len(entries)
      BY <2>1
    <2>3. IsFiniteSet(1..Len(entries))
      BY <2>2, FS_Interval
    <2>4. g \in Surjection(1..Len(entries), data)
      BY DEF Surjection
    <2>5. IsFiniteSet(data)
      BY <2>3, <2>4, FS_Surjection
    <2>6. Of(d) \subseteq data
      <3> SUFFICES ASSUME NEW x \in Of(d)
                   PROVE  x \in data
        OBVIOUS
      <3> PICK i \in DOMAIN entries : x = entries[i].data
        BY TargetsOfEntries
      <3>1. QED
        BY <2>2
    <2>7. QED
      BY <2>5, <2>6, FS_Subset
  <1>2. IsFiniteSet(all)
    <2>1. IsFiniteSet(DOMAIN conf.mapping)
      BY FiniteAndCount DEF ConfigOK, IsFiniteSet
    <2> DEFINE g == [d \in DOMAIN conf.mapping |-> Of(d)]
    <2>2. g \in Surjection(DOMAIN conf.mapping, all)
      BY DEF Surjection
    <2>3. QED
      BY <2>1, <2>2, FS_Surjection
  <1>3. IsFiniteSet(UNION all)
    BY <1>1, <1>2, FS_UNION
  <1>4. QED
    BY <1>3 DEF AllTargets

(* No target is resolved within itself: among the calls of processRequest  *)
(* after the first no two are for the same name, so that there are at most *)
(* as many as there are targets.                                           *)
CallsAreBounded ==
  /\ \A i, j \in 2..Len(calls) : i < j => calls[i].req.name # calls[j].req.name
  /\ Len(calls) <= Cardinality(AllTargets) + 1

(* For every configuration: the recursion of processRequest and            *)
(* processCNAME is not deeper than the number of targets, whatever cycles  *)
(* the CNAMEs have.                                                        *)
THEOREM CallsAlwaysBounded ==
  ChainSpec => []CallsAreBounded
  <1>1. ChainInit => Descends(calls)
    BY DEF ChainInit, Descends
  <1>2. ChainInv /\ Descends(calls) => CallsAreBounded
    <2> SUFFICES ASSUME ChainInv, Descends(calls)
                 PROVE  CallsAreBounded
      OBVIOUS
    <2> PICK n : n = Len(calls)
      BY Zenon
    <2>1. calls \in Seq(FrameSet) /\ n \in Nat /\ ConfigOK(conf)
      BY DEF ChainInv, CallsOK, GoodConf
    <2>2. \A i, j \in 2..n : i < j => calls[i].req.name # calls[j].req.name
      <3> SUFFICES ASSUME NEW i \in 2..n, NEW j \in 2..n, i < j
                   PROVE  calls[i].req.name # calls[j].req.name
        OBVIOUS
      <3>1. 1 \in 1..n /\ i \in 1..n /\ j \in 1..n /\ 1 < i
        BY <2>1
      <3>2. calls[i].req.name \in calls[i].seen
        BY <3>1 DEF Descends
      <3>3. calls[j].req.name \notin calls[i].seen
        BY <3>1 DEF Descends
      <3>4. QED
        BY <3>2, <3>3
    <2>3. \A i \in 2..n : calls[i].req.name \in AllTargets
      <3> SUFFICES ASSUME NEW i \in 2..n
                   PROVE  calls[i].req.name \in AllTargets
        OBVIOUS
      <3>1. 1 \in 1..n /\ i \in 1..n /\ 1 < i
        BY <2>1
      <3>2. calls[i] \in FrameSet
        BY <2>1, <3>1
      <3>3. calls[i].seen \subseteq AllTargets
        BY <3>2 DEF FrameSet
      <3>4. QED
        BY <3>1, <3>3 DEF Descends
    <2> DEFINE name == [i \in 2..n |-> calls[i].req.name]
    <2>4. name \in Injection(2..n, AllTargets)
      <3>1. name \in [2..n -> AllTargets]
        BY <2>3
      <3>2. ASSUME NEW i \in 2..n, NEW j \in 2..n, name[i] = name[j]
            PROVE  i = j
        <4>1. ~(i < j) /\ ~(j < i)
          BY <2>2, <3>2
        <4>2. QED
          BY <2>1, <4>1
      <3>3. QED
        BY <3>1, <3>2 DEF Injection, IsInjective
    <2>5. IsFiniteSet(AllTargets)
      BY <2>1, TargetsAreFinite
    <2> HIDE DEF name
    <2>6. Cardinality(2..n) <= Cardinality(AllTargets)
      BY <2>4, <2>5, FS_Injection
    <2>7. Cardinality(2..n) = IF 2 > n THEN 0 ELSE n - 2 + 1
      <3>1. 2 \in Int /\ n \in Int
        BY <2>1
      <3>2. QED
        BY <3>1, FS_Interval, Zenon
    <2>8. Cardinality(AllTargets) \in Nat
      BY <2>5, FS_CardinalityType
    <2>9. n <= Cardinality(AllTargets) + 1
      BY <2>1, <2>6, <2>7, <2>8
    <2>10. QED
      BY <2>2, <2>9 DEF CallsAreBounded
  <1>3. QED
    BY <1>1, <1>2, ChainInvariance, DescendsIsInductive, PTL DEF ChainSpec
=============================================================================
