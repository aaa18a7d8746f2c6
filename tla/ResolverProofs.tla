--------------------------- MODULE ResolverProofs ---------------------------
(***************************************************************************)
(* Proofs about two resolvers of the chain and the server around it.       *)
(*                                                                         *)
(* BlockingResolve, for all groups, clients, lists and answers, and any    *)
(* number of changes during a query.                                       *)
(*                                                                         *)
(* ClientNames, for any number of queries, any names and any times.        *)
(*                                                                         *)
(* Server and QueryLog, for any number of servers and queries, and any sizes *)
(* of the channel and of the bulks.                                        *)
(***************************************************************************)
EXTENDS BlockingResolve, ClientNames, Server, BlockingStatusProofs

(***************************************************************************)
(* BlockingResolve                                                         *)
(***************************************************************************)
InProgress == pc # "idle"

(* The lists of this moment lie between what held all the time and what    *)
(* held at some time of the query.                                         *)
ListsBetween ==
  InProgress =>
    /\ seen.alwaysDenied \subseteq deny /\ deny \subseteq seen.everDenied
    /\ seen.alwaysAllowed \subseteq allow /\ allow \subseteq seen.everAllowed

(* So do the groups that were read at the start, although the status has   *)
(* changed since.                                                          *)
GroupsBetween ==
  InProgress =>
    /\ client \ seen.everDisabled \subseteq groups
    /\ groups \subseteq client \ seen.alwaysDisabled

(* An entry was not on the allowlist when it was looked at. *)
NotAllowed(e) == ~Matches(seen.alwaysAllowed, client \ seen.everDisabled, e)

(* An entry was looked at and is no reason to block. *)
Harmless(e) ==
  Matches(seen.alwaysDenied, client \ seen.everDisabled, e) =>
    Matches(seen.everAllowed, client, e)

(* What is known at each point of Resolve. *)
QuestionChecked ==
  /\ pc = "allowed" => Matches(seen.everAllowed, client, question)
  /\ pc = "denylist" => NotAllowed(question)
  /\ pc \in {"denylist", "next", "answer", "entry"} =>
       groups \cap AllowlistOnlyGroups = {}
  /\ pc \in {"next", "answer", "entry"} => Harmless(question)

Elements(s) == {s[k] : k \in DOMAIN s}

AnswerChecked ==
  /\ pc \in {"idle", "allowlist", "denylist", "next", "allowed"} => answers = <<>>
  /\ pc \in {"answer", "entry"} =>
       /\ Elements(todo) \subseteq Elements(answers)
       /\ \A e \in Elements(answers) : e \in Elements(todo) \/ Harmless(e)
  /\ pc = "entry" => todo # <<>> /\ NotAllowed(Head(todo))

ResolveInv ==
  /\ GoodStatus(status) /\ TypeOK
  /\ ListsBetween /\ GroupsBetween /\ QuestionChecked /\ AnswerChecked
  /\ BlockedForAReason /\ DeniedIsBlocked

-----------------------------------------------------------------------------
(* More in the list and more groups match more. *)
LEMMA MatchesMore ==
  ASSUME NEW less, NEW more, NEW few, NEW many, NEW e,
         less \subseteq more, few \subseteq many, Matches(less, few, e)
  PROVE  Matches(more, many, e)
  BY DEF Matches

(* A refresh leaves pairs of groups and entries in the list. *)
LEMMA ReplacedType ==
  ASSUME NEW gs, NEW list, list \subseteq gs \X Entries,
         NEW g \in gs, NEW es \in SUBSET Entries
  PROVE  Replaced(list, g, es) \subseteq gs \X Entries
  BY DEF Replaced

(* Initially no query is in progress. *)
LEMMA ResolveInitial == Init => ResolveInv
  <1> SUFFICES ASSUME Init PROVE ResolveInv
    OBVIOUS
  <1>1. GoodStatus(status)
    BY InitGood DEF Init
  <1>2. TypeOK
    BY <1>1, ResolveAssumption DEF Init, TypeOK, GoodStatus
  <1> QED
    BY <1>1, <1>2 DEF Init, ResolveInv, InProgress, ListsBetween, GroupsBetween, QuestionChecked,
       AnswerChecked, BlockedForAReason, DeniedIsBlocked

(* A change of status or lists during the query only widens what held at   *)
(* some time and narrows what held all the time.                           *)
LEMMA ChangeKeeps ==
  ASSUME ResolveInv, Change, GoodStatus(status'),
         deny' \subseteq DenylistGroups \X Entries,
         allow' \subseteq AllowlistGroups \X Entries
  PROVE  ResolveInv'
  <1> USE DEF InProgress
  <1>1. /\ UNCHANGED <<pc, client, groups, question, todo, verdict, answers>>
        /\ pc # "done" /\ verdict = "none"
    BY DEF Change, queryVars, ResolveInv, TypeOK
  <1>2. TypeOK'
    BY <1>1, ResolveAssumption DEF ResolveInv, TypeOK, Change, GoodStatus
  <1>3. BlockedForAReason' /\ DeniedIsBlocked'
    BY <1>1 DEF BlockedForAReason, DeniedIsBlocked
  <1>4. CASE pc = "idle"
    BY <1>1, <1>2, <1>3, <1>4 DEF ResolveInv, ListsBetween, GroupsBetween, QuestionChecked,
       AnswerChecked
  <1>5. CASE pc # "idle"
    <2>1. /\ seen'.alwaysDenied = seen.alwaysDenied \cap deny'
          /\ seen'.everDenied = seen.everDenied \cup deny'
          /\ seen'.alwaysAllowed = seen.alwaysAllowed \cap allow'
          /\ seen'.everAllowed = seen.everAllowed \cup allow'
          /\ seen'.alwaysDisabled \subseteq seen.alwaysDisabled
          /\ seen.everDisabled \subseteq seen'.everDisabled
      BY <1>5 DEF Change, Also
    <2>2. ListsBetween' /\ GroupsBetween'
      BY <1>1, <1>5, <2>1 DEF ResolveInv, ListsBetween, GroupsBetween
    <2>3. ASSUME NEW e PROVE (NotAllowed(e) => NotAllowed(e)') /\ (Harmless(e) => Harmless(e)')
      BY <1>1, <2>1, MatchesMore DEF NotAllowed, Harmless
    <2>4. Matches(seen.everAllowed, client, question)
            => Matches(seen.everAllowed, client, question)'
      BY <1>1, <2>1, MatchesMore
    <2>5. QuestionChecked'
      BY <1>1, <2>3, <2>4 DEF ResolveInv, QuestionChecked
    <2>6. AnswerChecked'
      BY <1>1, <2>3 DEF ResolveInv, AnswerChecked, Elements
    <2> QED
      BY <1>2, <1>3, <2>2, <2>5, <2>6 DEF ResolveInv
  <1> QED
    BY <1>4, <1>5

(* Resolve starts with the status and the lists of this moment. *)
LEMMA ReceiveKeeps ==
  ASSUME ResolveInv, NEW e \in Entries, NEW ids, ReceiveQuery(e, ids)
  PROVE  ResolveInv'
  <1>1. /\ UNCHANGED <<status, deny, allow, todo, verdict, answers>>
        /\ pc' \in {"next", "allowlist"} /\ question' = e /\ changes' = 0
        /\ verdict = "none" /\ answers = <<>>
        /\ groups' = client' \ status.disabledGroups
        /\ pc' = "next" => groups' = {}
    BY DEF ReceiveQuery, ResolveInv, TypeOK, AnswerChecked
  <1>2. /\ seen'.alwaysDenied = deny /\ seen'.everDenied = deny
        /\ seen'.alwaysAllowed = allow /\ seen'.everAllowed = allow
        /\ seen'.alwaysDisabled = status.disabledGroups
        /\ seen'.everDisabled = status.disabledGroups
    BY DEF ReceiveQuery, Now
  <1>3. GoodStatus(status)'
    BY <1>1 DEF ResolveInv
  <1>4. TypeOK'
    BY <1>1, ResolveAssumption DEF ResolveInv, TypeOK
  <1>5. ListsBetween' /\ GroupsBetween'
    BY <1>1, <1>2 DEF ListsBetween, GroupsBetween
  <1>6. QuestionChecked' /\ AnswerChecked'
    BY Zenon, <1>1, <1>2 DEF QuestionChecked, AnswerChecked, Harmless, Matches
  <1>7. BlockedForAReason' /\ DeniedIsBlocked'
    BY <1>1 DEF BlockedForAReason, DeniedIsBlocked
  <1> QED
    BY <1>3, <1>4, <1>5, <1>6, <1>7 DEF ResolveInv

(* What an entry is once a list was asked for it, in terms of what held    *)
(* during the query.                                                       *)
LEMMA Lookups ==
  ASSUME ResolveInv, pc # "idle", NEW e
  PROVE  /\ ~Matches(allow, groups, e) => NotAllowed(e)
         /\ Matches(allow, groups, e) => Matches(seen.everAllowed, client, e)
         /\ Matches(deny, groups, e) =>
              Matches(seen.everDenied, client \ seen.alwaysDisabled, e)
         /\ ~Matches(deny, groups, e) => Harmless(e)
  <1>1. /\ seen.alwaysAllowed \subseteq allow /\ allow \subseteq seen.everAllowed
        /\ seen.alwaysDenied \subseteq deny /\ deny \subseteq seen.everDenied
        /\ client \ seen.everDisabled \subseteq groups
        /\ groups \subseteq client \ seen.alwaysDisabled
        /\ groups \subseteq client
    BY DEF ResolveInv, ListsBetween, GroupsBetween, InProgress
  <1> QED
    BY <1>1, MatchesMore DEF NotAllowed, Harmless

(* The steps of Resolve leave status, lists and history alone. *)
LEMMA InQueryKeeps ==
  ASSUME ResolveInv, InQuery, pc # "idle", pc' # "idle"
  PROVE  GoodStatus(status)' /\ ListsBetween' /\ GroupsBetween'
  BY DEF ResolveInv, InQuery, ListsBetween, GroupsBetween, InProgress

(* handleDenylist: the allowlist. *)
LEMMA CheckAllowlistKeeps ==
  ASSUME ResolveInv, CheckAllowlist
  PROVE  ResolveInv'
  <1>1. /\ pc = "allowlist" /\ pc' \in {"allowed", "done", "denylist"}
        /\ InQuery /\ UNCHANGED <<todo, answers>> /\ answers = <<>> /\ verdict = "none"
    BY DEF CheckAllowlist, Finish, ResolveInv, TypeOK, AnswerChecked
  <1>2. GoodStatus(status)' /\ ListsBetween' /\ GroupsBetween'
    BY <1>1, InQueryKeeps
  <1>3. TypeOK'
    BY <1>1 DEF CheckAllowlist, Finish, InQuery, ResolveInv, TypeOK
  <1>4. QuestionChecked'
    BY Zenon, <1>1, Lookups DEF CheckAllowlist, Finish, InQuery, QuestionChecked, NotAllowed
  <1>5. AnswerChecked'
    BY <1>1 DEF AnswerChecked
  <1>6. DeniedIsBlocked'
    BY <1>1 DEF CheckAllowlist, Finish, DeniedIsBlocked
  <1>7. BlockedForAReason'
    <2> SUFFICES ASSUME verdict' = "blocked" PROVE BlockedForAReason'
      BY DEF BlockedForAReason
    <2>1. /\ ~Matches(allow, groups, question)
          /\ groups \cap AllowlistOnlyGroups # {}
      BY <1>1 DEF CheckAllowlist
    <2>2. NotAllowed(question) /\ (client \ seen.alwaysDisabled) \cap AllowlistOnlyGroups # {}
      BY <1>1, <2>1, Lookups DEF ResolveInv, GroupsBetween, InProgress
    <2>3. question \in Checked'
      BY <1>1 DEF Checked, InQuery
    <2> QED
      BY <1>1, <2>2, <2>3 DEF BlockedForAReason, NotAllowed, InQuery
  <1> QED
    BY <1>2, <1>3, <1>4, <1>5, <1>6, <1>7 DEF ResolveInv

(* handleDenylist: the denylist. *)
LEMMA CheckDenylistKeeps ==
  ASSUME ResolveInv, CheckDenylist
  PROVE  ResolveInv'
  <1>1. /\ pc = "denylist" /\ pc' \in {"done", "next"}
        /\ InQuery /\ UNCHANGED <<todo, answers>> /\ answers = <<>> /\ verdict = "none"
        /\ NotAllowed(question) /\ groups \cap AllowlistOnlyGroups = {}
    BY DEF CheckDenylist, Finish, ResolveInv, TypeOK, AnswerChecked, QuestionChecked
  <1>2. GoodStatus(status)' /\ ListsBetween' /\ GroupsBetween'
    BY <1>1, InQueryKeeps
  <1>3. TypeOK'
    BY <1>1 DEF CheckDenylist, Finish, InQuery, ResolveInv, TypeOK
  <1>4. QuestionChecked'
    BY Zenon, <1>1, Lookups DEF CheckDenylist, Finish, InQuery, QuestionChecked, Harmless
  <1>5. AnswerChecked'
    BY <1>1 DEF AnswerChecked
  <1>6. DeniedIsBlocked'
    BY <1>1 DEF CheckDenylist, Finish, DeniedIsBlocked
  <1>7. BlockedForAReason'
    <2> SUFFICES ASSUME verdict' = "blocked" PROVE BlockedForAReason'
      BY DEF BlockedForAReason
    <2>1. Matches(seen.everDenied, client \ seen.alwaysDisabled, question)
      BY Zenon, <1>1, Lookups DEF CheckDenylist
    <2>2. question \in Checked'
      BY <1>1 DEF Checked, InQuery
    <2> QED
      BY <1>1, <2>1, <2>2 DEF BlockedForAReason, NotAllowed, InQuery
  <1> QED
    BY <1>2, <1>3, <1>4, <1>5, <1>6, <1>7 DEF ResolveInv

(* An answer passes if the question was allowlisted, or if the question    *)
(* and all entries are harmless and no group has only an allowlist.        *)
LEMMA PassKeeps ==
  ASSUME ResolveInv, InQuery, Finish("passed"), UNCHANGED <<todo, answers>>,
         \/ pc = "allowed"
         \/ pc = "next"
         \/ pc = "answer" /\ todo = <<>>
  PROVE  ResolveInv'
  <1>1. pc' = "done" /\ verdict' = "passed"
    BY DEF Finish
  <1>2. GoodStatus(status)' /\ ListsBetween' /\ GroupsBetween'
    BY <1>1, InQueryKeeps
  <1>3. TypeOK'
    BY <1>1 DEF InQuery, ResolveInv, TypeOK
  <1>4. QuestionChecked' /\ AnswerChecked' /\ BlockedForAReason'
    BY <1>1 DEF QuestionChecked, AnswerChecked, BlockedForAReason
  <1>5. DeniedIsBlocked'
    <2>1. CASE pc = "allowed"
      BY <2>1 DEF ResolveInv, QuestionChecked, DeniedIsBlocked, InQuery
    <2>2. CASE pc # "allowed"
      <3>1. (client \ seen.everDisabled) \cap AllowlistOnlyGroups = {}
        BY <2>2 DEF ResolveInv, QuestionChecked, GroupsBetween, InProgress
      <3>2. Elements(todo) = {} \/ answers = <<>>
        BY <2>2 DEF Elements, ResolveInv, AnswerChecked
      <3>3. \A e \in Elements(answers) : Harmless(e)
        BY <2>2, <3>2 DEF ResolveInv, AnswerChecked, Elements
      <3>4. Harmless(question)
        BY <2>2 DEF ResolveInv, QuestionChecked
      <3>5. Checked' = {question} \cup Elements(answers)
        BY DEF Checked, Elements, InQuery
      <3> QED
        BY Zenon, <3>1, <3>3, <3>4, <3>5 DEF DeniedIsBlocked, Harmless, InQuery
    <2> QED
      BY <2>1, <2>2
  <1> QED
    BY <1>2, <1>3, <1>4, <1>5 DEF ResolveInv

(* The answer of the next resolver is still to be checked as a whole. *)
LEMMA NextAnswersKeeps ==
  ASSUME ResolveInv, NEW es \in Answers, NextAnswers(es)
  PROVE  ResolveInv'
  <1>1. /\ pc = "next" /\ pc' = "answer" /\ InQuery /\ verdict' = "none"
        /\ todo' = es /\ answers' = es /\ es \in Seq(Entries)
    BY ResolveAssumption DEF NextAnswers, ResolveInv, TypeOK
  <1>2. GoodStatus(status)' /\ ListsBetween' /\ GroupsBetween'
    BY <1>1, InQueryKeeps
  <1>3. TypeOK'
    BY <1>1 DEF InQuery, ResolveInv, TypeOK
  <1>4. QuestionChecked'
    BY <1>1 DEF ResolveInv, InQuery, QuestionChecked, Harmless
  <1>5. AnswerChecked' /\ BlockedForAReason' /\ DeniedIsBlocked'
    BY <1>1 DEF AnswerChecked, Elements, BlockedForAReason, DeniedIsBlocked
  <1> QED
    BY <1>2, <1>3, <1>4, <1>5 DEF ResolveInv

(* The head of a sequence and the elements of its tail. *)
LEMMA HeadAndTail ==
  ASSUME NEW s \in Seq(Entries), s # <<>>
  PROVE  /\ Tail(s) \in Seq(Entries)
         /\ Head(s) \in Elements(s)
         /\ Elements(Tail(s)) \subseteq Elements(s)
         /\ \A e \in Elements(s) : e = Head(s) \/ e \in Elements(Tail(s))
  <1>1. Tail(s) \in Seq(Entries) /\ Head(s) = s[1] /\ 1 \in DOMAIN s
    OBVIOUS
  <1>2. \A k \in DOMAIN Tail(s) : k + 1 \in DOMAIN s /\ Tail(s)[k] = s[k + 1]
    OBVIOUS
  <1>3. \A k \in DOMAIN s : k # 1 => k - 1 \in DOMAIN Tail(s) /\ Tail(s)[k - 1] = s[k]
    OBVIOUS
  <1> QED
    BY <1>1, <1>2, <1>3 DEF Elements

(* An entry that is done with is harmless. *)
LEMMA DropHeadKeeps ==
  ASSUME ResolveInv, InQuery, pc \in {"answer", "entry"}, pc' = "answer", todo # <<>>,
         todo' = Tail(todo), UNCHANGED <<verdict, answers>>, Harmless(Head(todo))
  PROVE  ResolveInv'
  <1>1. todo \in Seq(Entries) /\ verdict' = "none"
    BY DEF ResolveInv, TypeOK
  <1>2. GoodStatus(status)' /\ ListsBetween' /\ GroupsBetween'
    BY InQueryKeeps
  <1>3. TypeOK'
    BY <1>1, HeadAndTail DEF InQuery, ResolveInv, TypeOK
  <1>4. QuestionChecked'
    BY DEF ResolveInv, InQuery, QuestionChecked, Harmless
  <1>5. AnswerChecked'
    <2>1. /\ Elements(todo) \subseteq Elements(answers)
          /\ \A e \in Elements(answers) : e \in Elements(todo) \/ Harmless(e)
      BY DEF ResolveInv, AnswerChecked
    <2>2. Elements(todo') \subseteq Elements(answers)
      BY <1>1, <2>1, HeadAndTail
    <2>3. \A e \in Elements(answers) : e \in Elements(todo') \/ Harmless(e)
      BY <1>1, <2>1, HeadAndTail
    <2>4. \A e : Harmless(e)' <=> Harmless(e)
      BY DEF Harmless, InQuery
    <2> QED
      BY Zenon, <2>2, <2>3, <2>4 DEF AnswerChecked, Elements
  <1>6. BlockedForAReason' /\ DeniedIsBlocked'
    BY <1>1 DEF BlockedForAReason, DeniedIsBlocked
  <1> QED
    BY <1>2, <1>3, <1>4, <1>5, <1>6 DEF ResolveInv

(* The allowlist for an entry of the answer. *)
LEMMA CheckEntryAllowedKeeps ==
  ASSUME ResolveInv, CheckEntryAllowed
  PROVE  ResolveInv'
  <1>1. /\ pc = "answer" /\ todo # <<>> /\ InQuery /\ verdict = "none"
        /\ UNCHANGED <<verdict, answers>>
    BY DEF CheckEntryAllowed, ResolveInv, TypeOK
  <1>2. CASE Matches(allow, groups, Head(todo))
    <2>1. Harmless(Head(todo))
      BY <1>1, <1>2, Lookups DEF Harmless
    <2> QED
      BY <1>1, <1>2, <2>1, DropHeadKeeps DEF CheckEntryAllowed
  <1>3. CASE ~Matches(allow, groups, Head(todo))
    <2>1. pc' = "entry" /\ todo' = todo /\ NotAllowed(Head(todo))
      BY <1>1, <1>3, Lookups DEF CheckEntryAllowed
    <2>2. GoodStatus(status)' /\ ListsBetween' /\ GroupsBetween'
      BY <1>1, <2>1, InQueryKeeps
    <2>3. TypeOK'
      BY <1>1, <2>1 DEF InQuery, ResolveInv, TypeOK
    <2>4. QuestionChecked'
      BY <1>1, <2>1 DEF ResolveInv, InQuery, QuestionChecked, Harmless
    <2>5. AnswerChecked'
      <3>1. \A e : (Harmless(e)' <=> Harmless(e)) /\ (NotAllowed(e)' <=> NotAllowed(e))
        BY <1>1 DEF Harmless, NotAllowed, InQuery
      <3> QED
        BY <1>1, <2>1, <3>1 DEF ResolveInv, AnswerChecked, Elements
    <2>6. BlockedForAReason' /\ DeniedIsBlocked'
      BY <1>1 DEF BlockedForAReason, DeniedIsBlocked
    <2> QED
      BY <2>2, <2>3, <2>4, <2>5, <2>6 DEF ResolveInv
  <1> QED
    BY <1>2, <1>3

(* The denylist for an entry of the answer that is not allowlisted. *)
LEMMA CheckEntryDeniedKeeps ==
  ASSUME ResolveInv, CheckEntryDenied
  PROVE  ResolveInv'
  <1>1. /\ pc = "entry" /\ todo # <<>> /\ InQuery /\ verdict = "none"
        /\ UNCHANGED answers /\ NotAllowed(Head(todo)) /\ todo \in Seq(Entries)
        /\ Elements(todo) \subseteq Elements(answers)
    BY DEF CheckEntryDenied, ResolveInv, TypeOK, AnswerChecked
  <1>2. CASE Matches(deny, groups, Head(todo))
    <2>1. pc' = "done" /\ verdict' = "blocked" /\ todo' = todo
      BY <1>2 DEF CheckEntryDenied, Finish
    <2>2. GoodStatus(status)' /\ ListsBetween' /\ GroupsBetween'
      BY <1>1, <2>1, InQueryKeeps
    <2>3. TypeOK'
      BY <1>1, <2>1 DEF InQuery, ResolveInv, TypeOK
    <2>4. QuestionChecked' /\ AnswerChecked' /\ DeniedIsBlocked'
      BY <2>1 DEF QuestionChecked, AnswerChecked, DeniedIsBlocked
    <2>5. BlockedForAReason'
      <3>1. Matches(seen.everDenied, client \ seen.alwaysDisabled, Head(todo))
        BY Zenon, <1>1, <1>2, Lookups
      <3>2. Head(todo) \in Checked'
        BY Zenon, <1>1, HeadAndTail DEF Checked, Elements, InQuery
      <3> QED
        BY <1>1, <3>1, <3>2 DEF BlockedForAReason, NotAllowed, InQuery
    <2> QED
      BY <2>2, <2>3, <2>4, <2>5 DEF ResolveInv
  <1>3. CASE ~Matches(deny, groups, Head(todo))
    <2>1. Harmless(Head(todo))
      BY <1>1, <1>3, Lookups
    <2> QED
      BY <1>1, <1>3, <2>1, DropHeadKeeps DEF CheckEntryDenied
  <1> QED
    BY <1>2, <1>3

-----------------------------------------------------------------------------
(* Every step, of the query or from outside, keeps the invariant. *)
THEOREM ResolveInvariance == Spec => []ResolveInv
  <1>1. ResolveInv /\ [Next]_vars => ResolveInv'
    <2> SUFFICES ASSUME ResolveInv, [Next]_vars PROVE ResolveInv'
      OBVIOUS
    <2> GoodStatus(status) /\ TypeOK
      BY DEF ResolveInv
    <2>1. CASE EnableBlocking
      <3>1. GoodStatus(status')
        BY <2>1, EnableGood DEF EnableBlocking
      <3> QED
        BY <2>1, <3>1, ChangeKeeps DEF EnableBlocking, TypeOK
    <2>2. ASSUME NEW gs \in GroupArgs, DisableBlocking(gs) PROVE ResolveInv'
      <3>1. GoodStatus(status')
        BY <2>2, DisableGood DEF DisableBlocking
      <3> QED
        BY <2>2, <3>1, ChangeKeeps DEF DisableBlocking, TypeOK
    <2>3. ASSUME NEW g \in DenylistGroups, NEW es \in SUBSET Entries, RefreshDenylist(g, es)
          PROVE  ResolveInv'
      <3>1. deny' \subseteq DenylistGroups \X Entries
        BY <2>3, ReplacedType DEF RefreshDenylist, TypeOK
      <3> QED
        BY <2>3, <3>1, ChangeKeeps DEF RefreshDenylist, TypeOK
    <2>4. ASSUME NEW g \in AllowlistGroups, NEW es \in SUBSET Entries, RefreshAllowlist(g, es)
          PROVE  ResolveInv'
      <3>1. allow' \subseteq AllowlistGroups \X Entries
        BY <2>4, ReplacedType DEF RefreshAllowlist, TypeOK
      <3> QED
        BY <2>4, <3>1, ChangeKeeps DEF RefreshAllowlist, TypeOK
    <2>5. ASSUME NEW e \in Entries, NEW ids \in SUBSET DOMAIN ClientGroupsBlock,
                 ReceiveQuery(e, ids)
          PROVE  ResolveInv'
      BY <2>5, ReceiveKeeps
    <2>6. CASE CheckAllowlist
      BY <2>6, CheckAllowlistKeeps
    <2>7. CASE CheckDenylist
      BY <2>7, CheckDenylistKeeps
    <2>8. CASE NextUnchecked
      BY <2>8, PassKeeps DEF NextUnchecked
    <2>9. ASSUME NEW es \in Answers, NextAnswers(es) PROVE ResolveInv'
      BY <2>9, NextAnswersKeeps
    <2>10. CASE CheckEntryAllowed
      BY <2>10, CheckEntryAllowedKeeps
    <2>11. CASE CheckEntryDenied
      BY <2>11, CheckEntryDeniedKeeps
    <2>12. CASE PassAnswer
      BY <2>12, PassKeeps DEF PassAnswer
    <2>13. CASE UNCHANGED vars
      <3>1. UNCHANGED <<status, deny, allow, pc, client, groups, question, todo,
                        verdict, answers, seen, changes>>
        BY <2>13 DEF vars, queryVars
      <3>2. GoodStatus(status)' /\ TypeOK'
        BY <3>1 DEF TypeOK
      <3>3. ListsBetween' /\ GroupsBetween'
        BY <3>1 DEF ResolveInv, ListsBetween, GroupsBetween, InProgress
      <3>4. QuestionChecked'
        BY <3>1 DEF ResolveInv, QuestionChecked, NotAllowed, Harmless
      <3>5. AnswerChecked'
        BY Zenon, <3>1 DEF ResolveInv, AnswerChecked, NotAllowed, Harmless
      <3>6. BlockedForAReason' /\ DeniedIsBlocked'
        BY <3>1 DEF ResolveInv, BlockedForAReason, DeniedIsBlocked, Checked
      <3> QED
        BY <3>2, <3>3, <3>4, <3>5, <3>6 DEF ResolveInv
    <2> QED
      BY <2>1, <2>2, <2>3, <2>4, <2>5, <2>6, <2>7, <2>8, <2>9, <2>10, <2>11, <2>12,
         <2>13 DEF Next, ResolveStep
  <1> QED
    BY <1>1, ResolveInitial, PTL DEF Spec

(* The groups that are checked are those of the client, and a verdict is   *)
(* there exactly when Resolve has returned.                                *)
THEOREM ResolveTypeCorrect == Spec => []TypeOK
  <1>1. ResolveInv => TypeOK
    BY DEF ResolveInv
  <1> QED
    BY <1>1, ResolveInvariance, PTL

(* A blocked query was blocked for something that held during it, however  *)
(* status and lists changed between the lookups of Resolve.                *)
THEOREM BlockedAlwaysForAReason == Spec => []BlockedForAReason
  <1>1. ResolveInv => BlockedForAReason
    BY DEF ResolveInv
  <1> QED
    BY <1>1, ResolveInvariance, PTL

(* What was denied all the time, and allowlisted at no time, does not pass *)
(* Resolve, however status and lists changed between its lookups.          *)
THEOREM DeniedAlwaysBlocked == Spec => []DeniedIsBlocked
  <1>1. ResolveInv => DeniedIsBlocked
    BY DEF ResolveInv
  <1> QED
    BY <1>1, ResolveInvariance, PTL

-----------------------------------------------------------------------------
(***************************************************************************)
(* ClientNames                                                             *)
(***************************************************************************)
(* Names that are those of an answer of the router, or of its failure. *)
ResolvedNames == {ResolveClientNames(setup, n) : n \in Saying}

NamesEntry == [names : ResolvedNames, age : Nat]

NamesLookup ==
  [stage : {"idle", "asking", "answered"}, names : ResolvedNames \cup {<<>>}, age : Nat]

NamesTypes ==
  /\ router \in Saying
  /\ said \in [Saying -> Nat] /\ said[router] = 0
  /\ cached \in Seq(NamesEntry)
  /\ lookup \in [Workers -> NamesLookup]

(* The router gave these names not longer ago than t. *)
GivenWithin(names, t) ==
  \E n \in Saying : said[n] <= t /\ names = ResolveClientNames(setup, n)

(* What was used is recent, what a lookup brings is not older than its     *)
(* timeout, and an entry is removed soon after its end.                    *)
NamesInv ==
  /\ NamesTypes /\ NamesAreRecent
  /\ \A w \in Workers : lookup[w].stage = "answered" =>
       /\ lookup[w].age <= Timeout
       /\ GivenWithin(lookup[w].names, lookup[w].age)
  /\ \A i \in DOMAIN cached :
       /\ cached[i].age <= TTL + Interval
       /\ GivenWithin(cached[i].names, cached[i].age + Timeout)

-----------------------------------------------------------------------------
(* Facts about types and times.                                            *)
LEMMA EntriesAreTyped ==
  ASSUME NamesTypes, NEW i \in DOMAIN cached
  PROVE  cached[i] \in NamesEntry /\ cached[i].age \in Nat /\ cached[i].names \in ResolvedNames
  <1>1. cached \in Seq(NamesEntry)
    BY DEF NamesTypes
  <1>2. cached[i] \in NamesEntry
    BY <1>1
  <1> QED BY <1>2 DEF NamesEntry

LEMMA OldestIsNat ==
  /\ TTL \in Nat /\ Interval \in Nat /\ Timeout \in Nat
  /\ Oldest = TTL + Interval + Timeout /\ Oldest \in Nat
  BY NamesAssumption DEF Oldest

LEMMA NamesInitial == NamesInit => NamesInv
  <1> SUFFICES ASSUME NamesInit PROVE NamesInv
    OBVIOUS
  <1>1. /\ router \in Saying
        /\ said = [n \in Saying |-> IF n = router THEN 0 ELSE Oldest + 1]
        /\ cached = <<>> /\ lookup = [w \in Workers |-> NotLookingUp] /\ used = NotUsed
    BY DEF NamesInit
  <1>2. said \in [Saying -> Nat] /\ said[router] = 0
    BY <1>1, OldestIsNat
  <1>3. NotLookingUp \in NamesLookup /\ NotLookingUp.stage = "idle"
    BY DEF NotLookingUp, NamesLookup
  <1>4. \A w \in Workers : lookup[w] = NotLookingUp
    BY <1>1
  <1>5. NamesTypes
    BY <1>1, <1>2, <1>3 DEF NamesTypes
  <1>6. NamesAreRecent
    BY <1>1 DEF NamesAreRecent, NotUsed, Used
  <1>7. \A w \in Workers : lookup[w].stage # "answered"
    BY <1>3, <1>4
  <1>8. DOMAIN cached = {}
    BY <1>1
  <1> QED BY <1>5, <1>6, <1>7, <1>8 DEF NamesInv

(* What is given within Oldest may be used. *)
LEMMA UsedIsRecent ==
  ASSUME NEW names, NEW by, Use(by, names), setup' = setup, said' = said,
         by = "address" => \E n \in Saying :
                             said[n] <= Oldest /\ names = ResolveClientNames(setup, n)
  PROVE  NamesAreRecent'
  <1>1. PICK g \in GroupsByClient(names) : used' = Used(by, names, g)
    BY DEF Use
  <1>2. used'.by = by /\ used'.names = names /\ used'.group = g
    BY <1>1 DEF Used
  <1> QED BY <1>1, <1>2 DEF NamesAreRecent

(* One lemma for each action.                                              *)
LEMMA RouterSaysKeeps ==
  ASSUME NamesInv, NEW m \in Saying, RouterSays(m)
  PROVE  NamesInv'
  <1>1. /\ said \in [Saying -> Nat] /\ router' = m /\ said' = [said EXCEPT ![m] = 0]
        /\ UNCHANGED <<setup, cached, lookup, used>>
    BY DEF RouterSays, NamesInv, NamesTypes
  <1>2. /\ said' \in [Saying -> Nat] /\ said'[m] = 0
        /\ \A n \in Saying : said'[n] <= said[n]
    BY <1>1
  <1>3. NamesTypes'
    BY <1>1, <1>2 DEF NamesInv, NamesTypes, NamesEntry, NamesLookup, ResolvedNames
  <1>4. \A n \in Saying, t \in Nat : said[n] <= t => said'[n] <= t
    BY <1>1, <1>2
  <1>5. ASSUME NEW names, NEW t \in Nat, GivenWithin(names, t) PROVE GivenWithin(names, t)'
    BY <1>1, <1>4, <1>5 DEF GivenWithin
  <1>6. NamesAreRecent'
    BY <1>1, <1>4, OldestIsNat DEF NamesInv, NamesAreRecent
  <1>7. \A w \in Workers : lookup[w].age \in Nat
    BY DEF NamesInv, NamesTypes, NamesLookup
  <1>8. \A i \in DOMAIN cached : cached[i].age + Timeout \in Nat
    BY EntriesAreTyped, OldestIsNat DEF NamesInv
  <1> QED BY <1>1, <1>3, <1>5, <1>6, <1>7, <1>8 DEF NamesInv

(* A step that leaves the router, the cache and the lookups alone. *)
LEMMA OnlyUsed ==
  ASSUME NamesInv, UNCHANGED <<setup, router, said, cached, lookup>>, NamesAreRecent'
  PROVE  NamesInv'
  <1>1. NamesTypes'
    BY DEF NamesInv, NamesTypes, NamesEntry, NamesLookup, ResolvedNames
  <1> QED BY <1>1 DEF NamesInv, GivenWithin

LEMMA QueryWithIdKeeps ==
  ASSUME NamesInv, NEW names, QueryWithId(names)
  PROVE  NamesInv'
  <1>1. NamesAreRecent'
    BY UsedIsRecent DEF QueryWithId
  <1> QED BY <1>1, OnlyUsed DEF QueryWithId

LEMMA QueryHitsKeeps ==
  ASSUME NamesInv, QueryHits PROVE NamesInv'
  <1>1. 1 \in DOMAIN cached /\ cached[1].age \in Nat
    <2>1. cached \in Seq(NamesEntry) /\ cached # <<>>
      BY DEF NamesInv, NamesTypes, QueryHits
    <2>2. 1 \in DOMAIN cached
      BY <2>1
    <2> QED BY <2>2, EntriesAreTyped DEF NamesInv
  <1>2. cached[1].age + Timeout <= Oldest /\ cached[1].age + Timeout \in Nat
    BY <1>1, OldestIsNat DEF NamesInv
  <1>3. PICK n \in Saying : /\ said[n] <= cached[1].age + Timeout
                            /\ cached[1].names = ResolveClientNames(setup, n)
    BY <1>1 DEF NamesInv, GivenWithin
  <1>4. said[n] <= Oldest
    BY <1>2, <1>3, OldestIsNat DEF NamesInv, NamesTypes
  <1>5. NamesAreRecent'
    BY <1>3, <1>4, UsedIsRecent DEF QueryHits
  <1> QED BY <1>5, OnlyUsed DEF QueryHits

(* Lookup of one worker, while the router and the configuration rest. *)
LEMMA LookupKept ==
  ASSUME NamesInv, UNCHANGED <<setup, router, said, cached>>, NEW w \in Workers,
         NEW l \in NamesLookup, lookup' = [lookup EXCEPT ![w] = l],
         l.stage = "answered" => l.age <= Timeout /\ GivenWithin(l.names, l.age),
         NamesAreRecent'
  PROVE  NamesInv'
  <1>1. lookup \in [Workers -> NamesLookup]
    BY DEF NamesInv, NamesTypes
  <1>2. lookup' \in [Workers -> NamesLookup] /\ lookup'[w] = l
        /\ \A v \in Workers : v # w => lookup'[v] = lookup[v]
    BY <1>1
  <1>3. NamesLookup' = NamesLookup /\ NamesEntry' = NamesEntry
    BY SMTT(20) DEF NamesLookup, NamesEntry, ResolvedNames
  <1>4. NamesTypes'
    <2>1. NamesTypes /\ UNCHANGED <<router, said, cached>>
      BY Zenon DEF NamesInv
    <2> QED BY Zenon, <1>2, <1>3, <2>1 DEF NamesTypes
  <1>5. ASSUME NEW v \in Workers, lookup'[v].stage = "answered"
        PROVE  /\ lookup'[v].age <= Timeout
               /\ GivenWithin(lookup'[v].names, lookup'[v].age)
    BY <1>2, <1>5 DEF NamesInv
  <1>6. \A v \in Workers : lookup'[v].stage = "answered" =>
          lookup'[v].age <= Timeout /\ GivenWithin(lookup[v].names, lookup[v].age)'
    BY <1>5 DEF GivenWithin
  <1>7. \A i \in DOMAIN cached : GivenWithin(cached[i].names, cached[i].age + Timeout)'
    BY DEF NamesInv, GivenWithin
  <1> QED BY SMTT(20), <1>4, <1>6, <1>7 DEF NamesInv

LEMMA QueryMissesKeeps ==
  ASSUME NamesInv, NEW w \in Workers, QueryMisses(w)
  PROVE  NamesInv'
  <1> DEFINE l == [lookup[w] EXCEPT !.stage = "asking"]
  <1>1. lookup \in [Workers -> NamesLookup]
    BY DEF NamesInv, NamesTypes
  <1>2. l \in NamesLookup /\ l.stage = "asking"
    BY <1>1 DEF NamesLookup
  <1>3. lookup' = [lookup EXCEPT ![w] = l]
    BY DEF QueryMisses
  <1>4. NamesAreRecent'
    BY DEF NamesInv, NamesAreRecent, QueryMisses
  <1> HIDE DEF l
  <1> QED BY Zenon, <1>2, <1>3, <1>4, LookupKept DEF QueryMisses

LEMMA RouterAnswersKeeps ==
  ASSUME NamesInv, NEW w \in Workers, RouterAnswers(w)
  PROVE  NamesInv'
  <1> DEFINE l == [stage |-> "answered", age |-> 0,
                   names |-> ResolveClientNames(setup, router)]
  <1>1. router \in Saying /\ said[router] = 0
    BY DEF NamesInv, NamesTypes
  <1>2. /\ l \in NamesLookup /\ l.age = 0
        /\ l.names = ResolveClientNames(setup, router)
    BY <1>1 DEF NamesLookup, ResolvedNames
  <1>3. lookup' = [lookup EXCEPT ![w] = l]
    BY DEF RouterAnswers
  <1>4. NamesAreRecent'
    BY DEF NamesInv, NamesAreRecent, RouterAnswers
  <1> HIDE DEF l
  <1>5. l.age <= Timeout /\ GivenWithin(l.names, l.age)
    BY SMTT(20), <1>1, <1>2, OldestIsNat DEF GivenWithin
  <1> QED BY Zenon, <1>2, <1>3, <1>4, <1>5, LookupKept DEF RouterAnswers

LEMMA QueryPutsKeeps ==
  ASSUME NamesInv, NEW w \in Workers, QueryPuts(w)
  PROVE  NamesInv'
  <1> DEFINE names == lookup[w].names
             e == [names |-> names, age |-> 0]
  <1>1. lookup \in [Workers -> NamesLookup] /\ said \in [Saying -> Nat]
    BY DEF NamesInv, NamesTypes
  <1>2. lookup[w].age \in Nat /\ lookup[w].age <= Timeout
    BY <1>1 DEF NamesInv, QueryPuts, NamesLookup
  <1>3. PICK n \in Saying : said[n] <= lookup[w].age /\ names = ResolveClientNames(setup, n)
    BY DEF NamesInv, QueryPuts, GivenWithin
  <1>4. said[n] <= Timeout /\ said[n] <= Oldest
    BY <1>1, <1>2, <1>3, OldestIsNat
  <1>5. NamesAreRecent'
    BY <1>3, <1>4, UsedIsRecent DEF QueryPuts
  <1>6. e \in NamesEntry /\ e.names = names /\ e.age = 0
    BY <1>3 DEF NamesEntry, ResolvedNames
  <1>7. /\ cached' = <<e>> /\ lookup' = [lookup EXCEPT ![w] = NotLookingUp]
        /\ UNCHANGED <<setup, router, said>>
    BY DEF QueryPuts
  <1> HIDE DEF e
  <1>8. NamesLookup' = NamesLookup /\ NamesEntry' = NamesEntry
    BY <1>7 DEF NamesLookup, NamesEntry, ResolvedNames
  <1>9. NotLookingUp \in NamesLookup /\ NotLookingUp.stage = "idle"
    BY DEF NamesLookup, NotLookingUp
  <1>10. lookup' \in [Workers -> NamesLookup] /\ lookup'[w].stage = "idle"
         /\ \A v \in Workers : v # w => lookup'[v] = lookup[v]
    BY <1>1, <1>7, <1>9
  <1>11. cached' \in Seq(NamesEntry) /\ DOMAIN cached' = {1} /\ cached'[1] = e
    BY <1>6, <1>7
  <1>12. NamesTypes'
    BY <1>7, <1>8, <1>10, <1>11 DEF NamesInv, NamesTypes
  <1>13. e.age <= TTL + Interval /\ GivenWithin(e.names, e.age + Timeout)
    BY <1>3, <1>4, <1>6, OldestIsNat DEF GivenWithin
  <1>14. \A i \in DOMAIN cached' : /\ cached'[i].age <= TTL + Interval
                                   /\ GivenWithin(cached[i].names, cached[i].age + Timeout)'
    BY <1>7, <1>11, <1>13 DEF GivenWithin
  <1>15. \A v \in Workers : lookup'[v].stage = "answered" =>
           /\ lookup'[v].age <= Timeout
           /\ GivenWithin(lookup[v].names, lookup[v].age)'
    <2> SUFFICES ASSUME NEW v \in Workers, lookup'[v].stage = "answered"
                 PROVE  /\ lookup'[v].age <= Timeout
                        /\ GivenWithin(lookup[v].names, lookup[v].age)'
      OBVIOUS
    <2>1. lookup'[v] = lookup[v]
      BY <1>10
    <2> QED BY <1>7, <2>1 DEF NamesInv, GivenWithin
  <1> QED BY <1>5, <1>12, <1>14, <1>15 DEF NamesInv

LEMMA RemovedKeeps ==
  ASSUME NamesInv, Removed PROVE NamesInv'
  <1>1. DOMAIN cached' = {} /\ cached' = <<>> /\ UNCHANGED <<setup, router, said, lookup, used>>
    BY DEF Removed
  <1>2. NamesLookup' = NamesLookup
    BY SMTT(20), <1>1 DEF NamesLookup, ResolvedNames
  <1>3. NamesTypes'
    <2>1. NamesTypes
      BY Zenon DEF NamesInv
    <2>2. cached' \in Seq(NamesEntry')
      BY <1>1
    <2> QED BY Zenon, <1>1, <1>2, <2>1, <2>2 DEF NamesTypes
  <1> QED BY <1>1, <1>3 DEF NamesInv, GivenWithin, NamesAreRecent

(* With every tick what the router said gets older, but not faster than    *)
(* the lookups and the entry.                                              *)
LEMMA TickKeepsNames ==
  ASSUME NamesInv, Tick PROVE NamesInv'
  <1>1. /\ router \in Saying /\ said \in [Saying -> Nat] /\ NamesTypes
        /\ lookup \in [Workers -> NamesLookup] /\ cached \in Seq(NamesEntry)
    BY DEF NamesInv, NamesTypes
  <1>2. /\ said' = [n \in Saying |-> IF n = router THEN 0 ELSE Capped(said[n] + 1)]
        /\ used' = NotUsed /\ UNCHANGED <<setup, router>>
    BY DEF Tick
  <1>3. said' \in [Saying -> Nat] /\ said'[router] = 0
        /\ \A n \in Saying : said'[n] <= said[n] + 1
    BY <1>1, <1>2, OldestIsNat DEF Capped
  <1>4. NamesLookup' = NamesLookup /\ NamesEntry' = NamesEntry
    BY <1>2 DEF NamesLookup, NamesEntry, ResolvedNames
  <1>5. ASSUME NEW names, NEW t \in Nat, GivenWithin(names, t)
        PROVE  \E n \in Saying : said'[n] <= t + 1 /\ names = ResolveClientNames(setup, n)
    <2>1. PICK n \in Saying : said[n] <= t /\ names = ResolveClientNames(setup, n)
      BY <1>5 DEF GivenWithin
    <2>2. said'[n] <= t + 1
      BY <1>1, <1>3, <2>1
    <2> QED BY <2>1, <2>2
  <1>6. ASSUME NEW i \in DOMAIN cached
        PROVE  /\ cached'[i] \in NamesEntry
               /\ cached'[i].age <= TTL + Interval
               /\ GivenWithin(cached[i].names, cached[i].age + Timeout)'
    <2>1. cached[i] \in NamesEntry /\ cached[i].age \in Nat /\ cached[i].names \in ResolvedNames
      BY <1>1, EntriesAreTyped
    <2>2. cached'[i] = [cached[i] EXCEPT !.age = @ + 1] /\ cached[i].age < TTL + Interval
      BY DEF Tick
    <2>3. /\ cached'[i] \in NamesEntry /\ cached'[i].names = cached[i].names
          /\ cached'[i].age = cached[i].age + 1
      BY <2>1, <2>2 DEF NamesEntry
    <2>4. cached'[i].age <= TTL + Interval
      BY <2>1, <2>2, <2>3, OldestIsNat
    <2>5. cached[i].age + Timeout \in Nat
          /\ cached'[i].age + Timeout = (cached[i].age + Timeout) + 1
      BY <2>1, <2>3, OldestIsNat
    <2>6. GivenWithin(cached[i].names, cached[i].age + Timeout)
      BY DEF NamesInv
    <2>7. \E n \in Saying : /\ said'[n] <= cached'[i].age + Timeout
                            /\ cached[i].names = ResolveClientNames(setup, n)
      BY <1>5, <2>5, <2>6
    <2> QED BY <1>2, <2>3, <2>4, <2>7 DEF GivenWithin
  <1>7. DOMAIN cached' = DOMAIN cached /\ cached' \in Seq(NamesEntry)
    <2>1. cached' = [i \in DOMAIN cached |-> [cached[i] EXCEPT !.age = @ + 1]]
      BY DEF Tick
    <2>2. DOMAIN cached' = DOMAIN cached
      BY <2>1
    <2>3. cached' \in [1..Len(cached) -> NamesEntry]
      <3>1. DOMAIN cached = 1..Len(cached)
        BY <1>1
      <3>2. \A i \in 1..Len(cached) : cached'[i] \in NamesEntry
        BY <1>6, <3>1
      <3>3. cached' = [i \in 1..Len(cached) |-> [cached[i] EXCEPT !.age = @ + 1]]
        BY <2>1, <3>1
      <3>4. cached' = [i \in 1..Len(cached) |-> cached'[i]]
        BY <3>3
      <3> HIDE DEF NamesEntry
      <3> QED BY <3>2, <3>4, Zenon
    <2> QED BY <1>1, <2>2, <2>3
  <1>8. ASSUME NEW w \in Workers
        PROVE  /\ lookup'[w] \in NamesLookup
               /\ lookup'[w].stage = "answered" =>
                    /\ lookup'[w].age <= Timeout
                    /\ GivenWithin(lookup[w].names, lookup[w].age)'
    <2>1. /\ lookup[w] \in NamesLookup /\ lookup[w].age \in Nat
          /\ lookup'[w] = IF lookup[w].stage = "answered"
                          THEN [lookup[w] EXCEPT !.age = @ + 1] ELSE lookup[w]
      BY <1>1 DEF Tick, NamesLookup
    <2>2. CASE lookup[w].stage # "answered"
      BY <2>1, <2>2
    <2>3. CASE lookup[w].stage = "answered"
      <3>1. /\ lookup'[w] \in NamesLookup /\ lookup'[w].names = lookup[w].names
            /\ lookup'[w].age = lookup[w].age + 1
        BY <2>1, <2>3 DEF NamesLookup
      <3>2. lookup[w].age < Timeout
        BY <2>3 DEF Tick
      <3>3. lookup'[w].age <= Timeout
        BY <2>1, <3>1, <3>2, OldestIsNat
      <3>4. GivenWithin(lookup[w].names, lookup[w].age)
        BY <2>3 DEF NamesInv
      <3>5. \E n \in Saying : /\ said'[n] <= lookup'[w].age
                              /\ lookup[w].names = ResolveClientNames(setup, n)
        BY <1>5, <2>1, <3>1, <3>4
      <3> QED BY <1>2, <3>1, <3>3, <3>5 DEF GivenWithin
    <2> QED BY <2>2, <2>3
  <1>9. lookup' \in [Workers -> NamesLookup]
    BY <1>8 DEF Tick
  <1>10. NamesTypes'
    BY <1>1, <1>2, <1>3, <1>4, <1>7, <1>9 DEF NamesTypes
  <1>11. NamesAreRecent'
    BY <1>2 DEF NamesAreRecent, NotUsed, Used
  <1>12. \A i \in DOMAIN cached' : /\ cached'[i].age <= TTL + Interval
                                   /\ GivenWithin(cached[i].names, cached[i].age + Timeout)'
    BY Zenon, <1>6, <1>7
  <1> QED BY Zenon, <1>8, <1>10, <1>11, <1>12 DEF NamesInv

(* The names of a client that has only an address are those that the       *)
(* router gave not longer ago than the life of an entry of the cache, the  *)
(* interval of its cleanup and the timeout of a lookup together, although  *)
(* getClientNames of several queries look the names up in parallel; for    *)
(* any times and names.                                                    *)
THEOREM NamesAlwaysRecent == NamesSpec => []NamesAreRecent
  <1>1. NamesInv /\ [NamesNext]_nameVars => NamesInv'
    <2> SUFFICES ASSUME NamesInv, [NamesNext]_nameVars PROVE NamesInv'
      OBVIOUS
    <2>1. CASE UNCHANGED nameVars
      <3>1. NamesAreRecent'
        BY <2>1 DEF nameVars, NamesInv, NamesAreRecent
      <3> QED BY <2>1, <3>1, OnlyUsed DEF nameVars
    <2> QED BY Zenon, <2>1, RouterSaysKeeps, QueryWithIdKeeps, QueryHitsKeeps, QueryMissesKeeps,
               RouterAnswersKeeps, QueryPutsKeeps, RemovedKeeps, TickKeepsNames
            DEF NamesNext
  <1>2. NamesInv => NamesAreRecent
    BY DEF NamesInv
  <1> QED BY <1>1, <1>2, NamesInitial, PTL DEF NamesSpec

(***************************************************************************)
(* Server and QueryLog                                                     *)
(***************************************************************************)
(* DNS servers are listeners. *)
LEMMA ServersListen ==
  \A i \in DOMAIN DnsServers : DnsServers[i] \in Listeners
  BY DEF Listeners, Range

(* What is to be shown of a Stop that succeeds, server by server. *)
LEMMA GracefulByServer ==
  ASSUME stopped => \A i \in DOMAIN DnsServers : InFlight(DnsServers[i]) = {}
  PROVE  StopsGracefully
  BY DEF StopsGracefully, Range

LOCAL INSTANCE SequenceTheorems

LogType ==
  /\ writer \in {"database", "console"}
  /\ logChan \in Seq(Queries) /\ inHand \in Seq(Queries)
  /\ pending \in Seq(Queries) /\ written \in Seq(Queries)
  /\ accepted \in Seq(Queries)
  /\ flushed \in 0..(Len(pending) + 1)

(* Only the database writer collects entries. *)
OnlyDatabaseCollects == writer = "console" => pending = <<>> /\ flushed = 0

LogInv == LogType /\ OnlyDatabaseCollects /\ LogAccounted

(* The servers that Stop has passed are closed, and their queries replied. *)
PassedIsQuiet ==
  \A i \in DOMAIN DnsServers : i < stopAt \/ stopped =>
    listener[DnsServers[i]] = "closed" /\ InFlight(DnsServers[i]) = {}

ServerInv == ServerTypeOK /\ PassedIsQuiet

-----------------------------------------------------------------------------
LEMMA Associative ==
  \A s, t, u \in Seq(Queries) : (s \o t) \o u = s \o (t \o u)
  BY ConcatAssociative

LEMMA UnwrittenType ==
  ASSUME LogType
  PROVE  Unwritten \in Seq(Queries)
  <1>1. CASE flushed = 0
    BY <1>1 DEF LogType, Unwritten
  <1>2. CASE flushed # 0
    <2>1. Len(pending) \in Nat /\ flushed \in 1..(Len(pending) + 1)
      BY <1>2, LenProperties DEF LogType
    <2>2. \A i \in flushed..Len(pending) : pending[i] \in Queries
      BY <2>1, ElementOfSeq DEF LogType
    <2>3. SubSeq(pending, flushed, Len(pending)) \in Seq(Queries)
      BY <2>1, <2>2, SubSeqProperties
    <2> QED BY <1>2, <2>3 DEF Unwritten
  <1> QED BY <1>1, <1>2

(* An entry enters the channel. *)
LEMMA LogEntryKeeps ==
  ASSUME LogInv, NEW e \in Queries, LogEntry(e)
  PROVE  LogInv'
  <1> USE DEF LogInv, LogEntry
  <1>1. Append(logChan, e) \in Seq(Queries) /\ Append(accepted, e) \in Seq(Queries)
    BY AppendProperties DEF LogType
  <1>2. Unwritten' = Unwritten
    BY DEF Unwritten
  <1>3. CASE UNCHANGED <<logChan, accepted>>
    BY <1>2, <1>3 DEF LogAccounted, LogType, OnlyDatabaseCollects
  <1>4. CASE logChan' = Append(logChan, e) /\ accepted' = Append(accepted, e)
    <2> DEFINE s == written \o Unwritten \o inHand
    <2>1. s \in Seq(Queries) /\ <<e>> \in Seq(Queries)
      BY UnwrittenType, ConcatProperties DEF LogType
    <2>2. logChan' = logChan \o <<e>> /\ accepted' = accepted \o <<e>>
      BY <1>4, AppendIsConcat DEF LogType
    <2>3. accepted = s \o logChan
      BY DEF LogAccounted
    <2> HIDE DEF s
    <2>4. accepted' = s \o logChan'
      <3>1. (s \o logChan) \o <<e>> = s \o (logChan \o <<e>>)
        <4>1. logChan \in Seq(Queries)
          BY DEF LogType
        <4> QED BY <2>1, <4>1, Associative, Zenon
      <3> QED BY <2>2, <2>3, <3>1, Zenon
    <2>5. LogType' /\ OnlyDatabaseCollects'
      BY <1>1, <1>4 DEF LogType, OnlyDatabaseCollects
    <2> QED BY <1>2, <2>4, <2>5 DEF LogAccounted, s
  <1> QED BY <1>3, <1>4

(* An entry goes from the channel to the goroutine. *)
LEMMA TakeEntryKeeps ==
  ASSUME LogInv, TakeEntry
  PROVE  LogInv'
  <1> USE DEF LogInv, TakeEntry
  <1> DEFINE s == written \o Unwritten
             h == Head(logChan)
             t == Tail(logChan)
  <1>1. h \in Queries /\ t \in Seq(Queries) /\ <<h>> \in Seq(Queries)
    BY HeadTailProperties DEF LogType
  <1>2. LogType' /\ OnlyDatabaseCollects'
    BY <1>1 DEF LogType, OnlyDatabaseCollects
  <1>3. Unwritten' = Unwritten
    BY DEF Unwritten
  <1>4. s \in Seq(Queries)
    BY UnwrittenType, ConcatProperties DEF LogType
  <1>5. logChan = <<h>> \o t
    BY DEF LogType
  <1>6. accepted = s \o logChan
    BY <1>4, ConcatEmptySeq DEF LogAccounted
  <1> HIDE DEF s, h, t
  <1>7. accepted = (s \o <<h>>) \o t
    BY <1>1, <1>4, <1>5, <1>6, Associative
  <1> QED BY <1>2, <1>3, <1>7 DEF LogAccounted, s, h, t

(* The goroutine hands its entry to the writer. *)
LEMMA WriteEntryKeeps ==
  ASSUME LogInv, WriteEntry
  PROVE  LogInv'
  <1> USE DEF LogInv, WriteEntry
  <1>1. CASE writer = "database"
    <2>1. flushed = 0 /\ pending' = pending \o inHand /\ Unwritten = pending
      BY <1>1 DEF Unwritten
    <2>2. pending' \in Seq(Queries) /\ Len(pending') \in Nat
      BY <2>1, ConcatProperties, LenProperties DEF LogType
    <2>3. LogType' /\ OnlyDatabaseCollects'
      BY <1>1, <2>1, <2>2 DEF LogType, OnlyDatabaseCollects
    <2>4. Unwritten' = pending \o inHand
      BY <2>1 DEF Unwritten
    <2>5. written \o (pending \o inHand) = (written \o pending) \o inHand
      <3>1. written \in Seq(Queries) /\ pending \in Seq(Queries) /\ inHand \in Seq(Queries)
        BY DEF LogType
      <3> QED BY <3>1, Associative, Zenon
    <2>6. written \o (pending \o inHand) \in Seq(Queries)
      BY ConcatProperties DEF LogType
    <2>7. (written \o (pending \o inHand)) \o <<>> = written \o (pending \o inHand)
      BY <2>6, ConcatEmptySeq
    <2> QED BY <1>1, <2>1, <2>3, <2>4, <2>5, <2>7 DEF LogAccounted
  <1>2. CASE writer = "console"
    <2>1. Unwritten = <<>> /\ Unwritten' = <<>> /\ written' = written \o inHand
      BY <1>2 DEF Unwritten, OnlyDatabaseCollects
    <2>2. written \o inHand \in Seq(Queries)
      BY ConcatProperties DEF LogType
    <2>3. LogType' /\ OnlyDatabaseCollects'
      BY <1>2, <2>1, <2>2 DEF LogType, OnlyDatabaseCollects
    <2>4. written \o <<>> = written
          /\ ((written \o inHand) \o <<>>) \o <<>> = written \o inHand
      BY <2>2, ConcatEmptySeq DEF LogType
    <2> QED BY <1>2, <2>1, <2>3, <2>4 DEF LogAccounted
  <1> QED BY <1>1, <1>2 DEF LogType

(* The ticker begins to write what is collected. *)
LEMMA StartDBWriteKeeps ==
  ASSUME LogInv, StartDBWrite
  PROVE  LogInv'
  <1> USE DEF LogInv, StartDBWrite
  <1>1. LogType' /\ OnlyDatabaseCollects'
    BY LenProperties DEF LogType, OnlyDatabaseCollects
  <1>2. Unwritten' = Unwritten
    BY SubSeqFull DEF Unwritten, LogType
  <1> QED BY <1>1, <1>2 DEF LogAccounted

(* A bulk is written: it ends where the rest begins. *)
LEMMA WriteBulkKeeps ==
  ASSUME LogInv, WriteBulk
  PROVE  LogInv'
  <1> USE DEF LogInv
  <1>1. Len(pending) \in Nat /\ DOMAIN pending = 1..Len(pending)
    BY LenProperties DEF LogType
  <1>2. flushed \in 1..Len(pending)
    BY <1>1 DEF WriteBulk
  <1>3. PICK last \in flushed..Len(pending) :
          /\ written' = written \o SubSeq(pending, flushed, last)
          /\ flushed' = last + 1
          /\ UNCHANGED <<writer, logChan, inHand, pending, accepted, dropped>>
    <2> DEFINE end == IF flushed + BulkSize - 1 > Len(pending)
                      THEN Len(pending) ELSE flushed + BulkSize - 1
    <2>1. end \in flushed..Len(pending)
      BY <1>1, <1>2, LogAssumption
    <2> QED BY <2>1, Zenon DEF WriteBulk
  <1> DEFINE bulk == SubSeq(pending, flushed, last)
             rest == SubSeq(pending, last + 1, Len(pending))
  <1>4. bulk \in Seq(Queries) /\ rest \in Seq(Queries)
    <2>1. \A i \in 1..Len(pending) : pending[i] \in Queries
      BY ElementOfSeq DEF LogType
    <2>2. last \in Int /\ flushed \in Int /\ last + 1 \in Int /\ Len(pending) \in Int
          /\ (\A i \in flushed..last : i \in 1..Len(pending))
          /\ (\A i \in (last + 1)..Len(pending) : i \in 1..Len(pending))
      BY <1>1, <1>2, <1>3
    <2> QED BY <2>1, <2>2, SubSeqProperties
  <1>5. LogType' /\ OnlyDatabaseCollects'
    <2>1. written' \in Seq(Queries)
      BY <1>3, <1>4, ConcatProperties DEF LogType
    <2>2. flushed' \in 0..(Len(pending) + 1)
      BY <1>1, <1>2, <1>3
    <2>3. writer # "console"
      BY <1>1, <1>2 DEF OnlyDatabaseCollects
    <2> QED BY <1>3, <2>1, <2>2, <2>3 DEF LogType, OnlyDatabaseCollects
  <1>6. Unwritten = bulk \o rest
    <2>1. bulk \o rest = SubSeq(pending, flushed, Len(pending))
      <3>1. /\ flushed \in 1..(Len(pending) + 1)
            /\ last \in (flushed - 1)..Len(pending)
            /\ Len(pending) \in last..Len(pending)
        BY <1>1, <1>2, <1>3
      <3> QED BY <3>1, ConcatAdjacentSubSeq, Zenon DEF LogType
    <2>2. flushed # 0
      BY <1>2
    <2> QED BY <2>1, <2>2, Zenon DEF Unwritten
  <1>7. Unwritten' = rest
    BY <1>1, <1>2, <1>3 DEF Unwritten
  <1> HIDE DEF bulk, rest
  <1>8. written \o (bulk \o rest) = (written \o bulk) \o rest
    <2>1. written \in Seq(Queries)
      BY DEF LogType
    <2> QED BY <1>4, <2>1, Associative, Zenon
  <1> QED BY <1>3, <1>5, <1>6, <1>7, <1>8 DEF LogAccounted, bulk

(* Nothing is left of the entries that were collected. *)
LEMMA EndDBWriteKeeps ==
  ASSUME LogInv, EndDBWrite
  PROVE  LogInv'
  <1> USE DEF LogInv, EndDBWrite
  <1>1. Len(pending) \in Nat
    BY LenProperties DEF LogType
  <1>2. Len(pending) < flushed /\ flushed # 0 /\ flushed \in Int /\ Len(pending) \in Int
    BY <1>1 DEF LogType
  <1>3. SubSeq(pending, flushed, Len(pending)) = <<>>
    BY <1>2, SubSeqEmpty
  <1>4. Unwritten = <<>> /\ Unwritten' = <<>>
    BY <1>2, <1>3 DEF Unwritten
  <1>5. LogType' /\ OnlyDatabaseCollects'
    BY EmptySeq DEF LogType, OnlyDatabaseCollects
  <1> QED BY <1>4, <1>5 DEF LogAccounted

LEMMA WriterKeeps ==
  ASSUME LogInv, WriterStep
  PROVE  LogInv'
  BY TakeEntryKeeps, WriteEntryKeeps, StartDBWriteKeeps, WriteBulkKeeps,
     EndDBWriteKeeps DEF WriterStep

LEMMA LogUnchanged ==
  ASSUME LogInv, UNCHANGED logVars
  PROVE  LogInv'
  BY DEF LogInv, logVars, LogType, OnlyDatabaseCollects, LogAccounted, Unwritten

-----------------------------------------------------------------------------
LEMMA InitHolds == ServerInit => LogInv /\ ServerInv
  <1> SUFFICES ASSUME ServerInit PROVE LogInv /\ ServerInv
    OBVIOUS
  <1> USE DEF ServerInit, LogInit
  <1>1. LogType /\ OnlyDatabaseCollects
    BY EmptySeq DEF LogType, OnlyDatabaseCollects
  <1>2. LogAccounted
    <2>1. Unwritten = <<>>
      BY DEF Unwritten
    <2>2. <<>> \o <<>> = <<>>
      BY EmptySeq, ConcatEmptySeq
    <2> QED BY <2>1, <2>2, Zenon DEF LogAccounted
  <1>3. 1 \in DOMAIN DnsServers /\ DOMAIN DnsServers \subseteq Nat
    BY ServerAssumption, EmptySeq, LenProperties
  <1>4. ServerTypeOK
    BY Zenon, <1>3 DEF ServerTypeOK
  <1>5. PassedIsQuiet
    BY <1>3, ServerAssumption, LenProperties DEF PassedIsQuiet
  <1> QED BY <1>1, <1>2, <1>4, <1>5 DEF LogInv, ServerInv

(* A listener that is closed stays so and takes no queries: neither the    *)
(* listeners nor the queries undo what Stop has done.                      *)
LEMMA QuietKept ==
  ASSUME ServerInv, ServerTypeOK', stopAt' = stopAt, stopped' = stopped,
         \A l \in Listeners : listener[l] = "closed" =>
           listener'[l] = "closed" /\ InFlight(l)' \subseteq InFlight(l)
  PROVE  ServerInv'
  <1>1. \A i \in DOMAIN DnsServers : DnsServers[i] \in Listeners
    BY ServersListen
  <1> QED BY <1>1 DEF ServerInv, PassedIsQuiet

(* A query that goes on to its next stage was in flight before. *)
LEMMA QueryKeeps ==
  ASSUME ServerInv, NEW q \in Queries,
         NEW stage \in {"resolving", "logging", "returning", "replied"},
         \/ query[q] \in {"resolving", "logging", "returning"}
         \/ listener[Via[q]] = "serving",
         query' = [query EXCEPT ![q] = stage],
         UNCHANGED <<listener, signals, errChan, main, stopAt, stopped>>
  PROVE  ServerInv'
  <1>1. ServerTypeOK'
    BY DEF ServerInv, ServerTypeOK
  <1>2. ASSUME NEW l \in Listeners, listener[l] = "closed"
        PROVE  InFlight(l)' \subseteq InFlight(l)
    <2> SUFFICES ASSUME NEW p \in Queries, p \in InFlight(l)' PROVE p \in InFlight(l)
      BY DEF InFlight
    <2>1. Via[p] = l /\ query'[p] \in {"resolving", "logging", "returning"}
      BY DEF InFlight
    <2>2. CASE p = q
      BY <1>2, <2>1, <2>2 DEF InFlight
    <2>3. CASE p # q
      BY SMTT(20), <2>1, <2>3 DEF InFlight, ServerInv, ServerTypeOK
    <2> QED BY <2>2, <2>3
  <1> QED BY <1>1, <1>2, QuietKept

(* Listeners, signals and the end of the program leave the queries alone.  *)
LEMMA QueriesAlone ==
  ASSUME ServerInv, ServerTypeOK', UNCHANGED <<query, stopAt, stopped>>,
         \A l \in Listeners : listener[l] = "closed" => listener'[l] = "closed"
  PROVE  ServerInv'
  <1>1. \A l \in Listeners : InFlight(l)' = InFlight(l)
    BY DEF InFlight
  <1> QED BY SMTT(20), <1>1, QuietKept

(* Stop goes on when the server is closed and its queries are replied.     *)
LEMMA StopServerKeeps ==
  ASSUME ServerInv, StopServer
  PROVE  ServerInv'
  <1> USE DEF StopServer, StopNext
  <1>1. Len(DnsServers) \in Nat /\ DOMAIN DnsServers = 1..Len(DnsServers)
    BY ServerAssumption, LenProperties
  <1>2. stopAt \in 1..Len(DnsServers)
    BY <1>1 DEF ServerInv, ServerTypeOK
  <1>3. ServerTypeOK'
    <2>1. stopAt' \in DOMAIN DnsServers
      <3>1. stopAt' = stopAt \/ (stopAt' = stopAt + 1 /\ stopAt # Len(DnsServers))
        OBVIOUS
      <3>2. \A n \in Nat : \A i \in 1..n : i # n => i + 1 \in 1..n
        OBVIOUS
      <3>3. stopAt' \in 1..Len(DnsServers)
        BY <1>1, <1>2, <3>1, <3>2, Zenon
      <3> QED BY <1>1, <3>3
    <2>2. main' \in {"running", "stopping", "done", "exited"} /\ stopped' \in BOOLEAN
      BY Zenon DEF ServerInv, ServerTypeOK
    <2> QED BY <2>1, <2>2 DEF ServerInv, ServerTypeOK
  <1>4. ASSUME NEW i \in DOMAIN DnsServers, i < stopAt' \/ stopped'
        PROVE  i < stopAt \/ stopped \/ i = stopAt
    <2>1. CASE stopAt = Len(DnsServers)
      BY <1>1, <1>2, <2>1
    <2>2. CASE stopAt # Len(DnsServers) /\ i < stopAt'
      <3>1. stopAt' = stopAt + 1
        BY <2>2
      <3>2. i \in Nat /\ stopAt \in Nat
        <4>1. i \in 1..Len(DnsServers)
          BY <1>1, Zenon
        <4>2. \A n \in Nat : \A k \in 1..n : k \in Nat
          OBVIOUS
        <4> QED BY <1>1, <1>2, <4>1, <4>2, Zenon
      <3>3. i < stopAt + 1
        BY <2>2, <3>1
      <3> QED BY <3>2, <3>3
    <2>3. CASE stopAt # Len(DnsServers) /\ stopped'
      BY Zenon, <2>3
    <2> QED BY <1>4, <2>1, <2>2, <2>3
  <1>5. \A l : InFlight(l)' = InFlight(l)
    BY DEF InFlight
  <1>6. PassedIsQuiet'
    BY <1>4, <1>5 DEF ServerInv, PassedIsQuiet
  <1> QED BY Zenon, <1>3, <1>6 DEF ServerInv

LEMMA StepKeeps == LogInv /\ ServerInv /\ [ServerNext]_programVars => LogInv' /\ ServerInv'
  <1> SUFFICES ASSUME LogInv, ServerInv, [ServerNext]_programVars PROVE LogInv' /\ ServerInv'
    OBVIOUS
  <1>1. ASSUME NEW l \in Listeners, ListenerStarts(l) PROVE LogInv' /\ ServerInv'
    <2>1. ServerTypeOK' /\ \A k \in Listeners : listener[k] = "closed" => listener'[k] = "closed"
      BY <1>1 DEF ListenerStarts, ServerInv, ServerTypeOK
    <2> QED BY <1>1, <2>1, LogUnchanged, QueriesAlone DEF ListenerStarts
  <1>2. ASSUME NEW l \in Listeners, ListenerFails(l) PROVE LogInv' /\ ServerInv'
    <2>1. ServerTypeOK' /\ \A k \in Listeners : listener[k] = "closed" => listener'[k] = "closed"
      BY SMTT(20), <1>2 DEF ListenerFails, ServerInv, ServerTypeOK
    <2> QED BY <1>2, <2>1, LogUnchanged, QueriesAlone DEF ListenerFails
  <1>3. ASSUME NEW q \in Queries, Receive(q) PROVE LogInv' /\ ServerInv'
    BY Zenon, <1>3, LogUnchanged, QueryKeeps DEF Receive
  <1>4. ASSUME NEW q \in Queries, NEW stage \in {"logging", "returning"}, Resolved(q, stage)
        PROVE  LogInv' /\ ServerInv'
    BY Zenon, <1>4, LogUnchanged, QueryKeeps DEF Resolved
  <1>5. ASSUME NEW q \in Queries, Log(q) PROVE LogInv' /\ ServerInv'
    BY Zenon, <1>5, LogEntryKeeps, QueryKeeps DEF Log
  <1>6. ASSUME NEW q \in Queries, Reply(q) PROVE LogInv' /\ ServerInv'
    BY Zenon, <1>6, LogUnchanged, QueryKeeps DEF Reply
  <1>7. CASE LogStep
    <2>1. ServerTypeOK' /\ UNCHANGED <<query, stopAt, stopped, listener>>
      BY <1>7 DEF LogStep, serverVars, ServerInv, ServerTypeOK
    <2> QED BY <1>7, <2>1, WriterKeeps, QueriesAlone DEF LogStep
  <1>8. CASE Signal \/ HandleSignal \/ HandleError \/ StopFails \/ StopListening \/ Exit
    <2>1. \A i \in DOMAIN DnsServers : DnsServers[i] \in Listeners
      BY ServersListen
    <2>2. ServerTypeOK' /\ \A k \in Listeners : listener[k] = "closed" => listener'[k] = "closed"
      BY Zenon, <1>8, <2>1 DEF Signal, HandleSignal, HandleError, StopFails, StopListening,
                        Exit, ServerInv, ServerTypeOK
    <2>3. UNCHANGED <<logVars, query, stopAt, stopped>>
      BY <1>8 DEF Signal, HandleSignal, HandleError, StopFails, StopListening, Exit
    <2> QED BY <2>2, <2>3, LogUnchanged, QueriesAlone
  <1>9. CASE StopServer
    BY Zenon, <1>9, StopServerKeeps, LogUnchanged DEF StopServer, StopNext
  <1>10. CASE UNCHANGED programVars
    <2>1. UNCHANGED logVars /\ ServerTypeOK' /\ UNCHANGED <<query, stopAt, stopped, listener>>
      BY <1>10 DEF programVars, serverVars, ServerInv, ServerTypeOK
    <2> QED BY <2>1, LogUnchanged, QueriesAlone
  <1> QED BY <1>1, <1>2, <1>3, <1>4, <1>5, <1>6, <1>7, <1>8, <1>9, <1>10
          DEF ServerNext, StopStep

(* No entry that the channel of the log took is lost or written twice, in  *)
(* whatever steps doDBWrite, Write and the queries come, for any capacity  *)
(* and any size of the bulks.                                              *)
THEOREM LogAlwaysAccounted == ServerSpec => []LogAccounted
  <1>1. LogInv => LogAccounted
    BY DEF LogInv
  <1> QED BY <1>1, InitHolds, StepKeeps, PTL DEF ServerSpec

(* Stop stays within the DNS servers, and all variables keep their types. *)
THEOREM ServerTypeCorrect == ServerSpec => []ServerTypeOK
  <1>1. ServerInv => ServerTypeOK
    BY DEF ServerInv
  <1> QED BY <1>1, InitHolds, StepKeeps, PTL DEF ServerSpec

(* Once Stop has stopped all DNS servers, every query that one of them had *)
(* taken has been replied to, for any number of servers and queries.       *)
THEOREM StopIsGraceful == ServerSpec => []StopsGracefully
  <1>1. ServerInv => StopsGracefully
    BY GracefulByServer DEF ServerInv, PassedIsQuiet
  <1> QED BY <1>1, InitHolds, StepKeeps, PTL DEF ServerSpec
=============================================================================
