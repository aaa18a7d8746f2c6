---------------------------- MODULE MCResolvers -----------------------------
(* What a query goes through: the names of its client, the resolvers that  *)
(* answer from the configuration, and the blocking resolver.  The three    *)
(* share no state, so that in a behaviour only one of them moves.          *)
EXTENDS BlockingResolve, ResolverChain, ClientNames, TLC

(* A denylist group that also has an allowlist and a group that has only   *)
(* an allowlist.                                                           *)
CONSTANTS ads, kids, default, laptop, tablet, anyone, domain, address, alias

MCDenylistGroups == {ads}

MCAllowlistGroups == {ads, kids}

MCClientGroupsBlock == (laptop :> {ads}) @@ (tablet :> {kids}) @@ (anyone :> {ads})

MCAnswers == {<<>>, <<address>>, <<address, alias>>}

MCArgs == {{}, {ads}}

MCDurations == {0}

-----------------------------------------------------------------------------
(* Domains with a label less or more; names that end in b are rewritten,   *)
(* w.w.b in two ways.                                                      *)
MCLabels == {"a", "b", "w", "1", "arpa"}
MCRecordTypes == {"A", "AAAA", "TXT", "SRV", "CNAME", "PTR", "MX"}

MCA == <<"a">>
MCB == <<"b">>
MCWA == <<"w", "a">>
MCWB == <<"w", "b">>
MCWWB == <<"w", "w", "b">>
MCAddress == <<"1", "arpa">>

MCEntry(type, data) == [type |-> type, data |-> data]

(* What is configured for a domain. *)
MCEntries ==
  {<<MCEntry("A", MCAddress)>>, <<MCEntry("CNAME", MCB), MCEntry("CNAME", MCWA)>>}
    \cup {<<MCEntry("CNAME", d)>> : d \in {MCA, MCB, MCWA, MCWB}}

MCMappings == UNION {[ds -> MCEntries] : ds \in SUBSET {MCA, MCB, MCWA}}

MCRewrites == {<<>>, MCB :> MCA}

MCTwoWays == (MCB :> MCA) @@ (MCWB :> MCA)

MCSpecial == {<<>>, (MCB :> "nxdomain") @@ (MCA :> "localhost") @@ (MCWA :> "forward")}

MCConfig(mappings, rest, upstreams) ==
  [filter : {{"TXT"}}, mapping : mappings, filterUnmappedTypes : BOOLEAN,
   rewrite : rest.rewrite, fallback : BOOLEAN, fqdnOnly : rest.fqdnOnly,
   conditional : rest.conditional, condRewrite : rest.condRewrite,
   condFallback : rest.fallback,
   special : rest.special, upstream : upstreams]

(* Every mapping with the simplest end of the chain, and a few mappings    *)
(* with all the others.                                                    *)
MCConfigs ==
  MCConfig(MCMappings,
           [rewrite |-> MCRewrites, fqdnOnly |-> {FALSE}, conditional |-> {{}},
            condRewrite |-> {<<>>},
            fallback |-> {FALSE}, special |-> {<<>>}], {"record", "servfail"})
    \cup
  MCConfig({<<>>, MCWA :> <<MCEntry("CNAME", MCWB)>>, MCA :> <<MCEntry("A", MCAddress)>>,
            MCA :> <<MCEntry("A", MCAddress), MCEntry("MX", MCB)>>},
           [rewrite |-> {<<>>, MCTwoWays}, fqdnOnly |-> BOOLEAN,
            conditional |-> {{}, {MCA, Root}}, condRewrite |-> {<<>>, MCTwoWays},
            fallback |-> BOOLEAN,
            special |-> MCSpecial],
           {"record", "empty", "error", "servfail"})

MCRequests ==
  [id : {2}, name : {MCA, MCWA, MCWB}, qtype : {"A", "TXT", "CNAME"}, lower : {TRUE}]
    \cup [id : {2}, name : {MCWB, MCWWB}, qtype : {"A"}, lower : BOOLEAN]
    \cup [id : {2}, name : {MCAddress}, qtype : {"PTR"}, lower : {TRUE}]

-----------------------------------------------------------------------------
(* One address, for which the router has no name or two; one group of      *)
(* upstreams has names, the other one is a network.                        *)
CONSTANTS trusted, network

MCNameLists == {<<>>, <<tablet, laptop>>}

MCSetups ==
  [mapped : {<<>>}, external : {TRUE}, order : {<<>>, <<2>>}]
    \cup [mapped : {<<tablet>>}, external : {FALSE}, order : {<<>>}]

MCByName == (laptop :> {trusted}) @@ (tablet :> {trusted, network}) @@ (address :> {})

-----------------------------------------------------------------------------
VARIABLE part

(* A state of a part that does not move. *)
MCRestingBlocking == Init /\ question = domain

MCRestingChain ==
  /\ conf = CHOOSE c \in Configs : TRUE
  /\ asked = NoRequest /\ start = Root /\ calls = <<>>
  /\ sent = {} /\ reply = NoReply

MCRestingNames ==
  /\ setup = CHOOSE s \in Setups : TRUE
  /\ router = Failed
  /\ said = [n \in Saying |-> 0]
  /\ cached = <<>>
  /\ lookup = [w \in Workers |-> NotLookingUp]
  /\ used = NotUsed

MCInit ==
  \/ part = "blocking" /\ Init /\ MCRestingChain /\ MCRestingNames
  \/ part = "chain" /\ ChainInit /\ MCRestingBlocking /\ MCRestingNames
  \/ part = "names" /\ NamesInit /\ MCRestingBlocking /\ MCRestingChain

MCNext ==
  \/ part = "blocking" /\ Next /\ UNCHANGED <<chainVars, nameVars, part>>
  \/ part = "chain" /\ ChainNext /\ UNCHANGED <<vars, nameVars, part>>
  \/ part = "names" /\ NamesNext /\ UNCHANGED <<vars, chainVars, part>>

MCSpec == MCInit /\ [][MCNext]_<<vars, chainVars, nameVars, part>>
=============================================================================
