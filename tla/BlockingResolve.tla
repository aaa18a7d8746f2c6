--------------------------- MODULE BlockingResolve --------------------------
(***************************************************************************)
(* How BlockingResolver.Resolve decides about a query while the status and *)
(* the lists change under it.  The groups are read once, under the lock of *)
(* the status; each lookup in a list sees the list of its moment.          *)
(*                                                                         *)
(* A query has one question.  A list is a relation between groups and      *)
(* entries (a domain, a CNAME target, an address); how an entry is matched *)
(* is not modelled here.                                                   *)
(***************************************************************************)
EXTENDS BlockingStatus, Sequences

CONSTANTS
  AllowlistGroups,    \* keys of cfg.Allowlists that have a source
  ClientGroupsBlock,  \* client identifier -> its groups
  DefaultClient,      \* the identifier "default"
  Entries,            \* what lists contain and queries ask for
  Answers,            \* entries of the answers of the next resolver
  GroupArgs,          \* group lists a caller may pass to DisableBlocking
  MaxChanges          \* bound: changes of status and lists during a query

ASSUME ResolveAssumption ==
  /\ DefaultClient \in DOMAIN ClientGroupsBlock
  /\ Answers \subseteq Seq(Entries)
  /\ MaxChanges \in Nat

VARIABLES
  status,    \* r.status
  deny,      \* denylistMatcher: pairs <<group, entry>>
  allow,     \* allowlistMatcher
  pc,        \* where the query is
  client,    \* groups of the client
  groups,    \* groupsToCheck
  question,  \* domain of the question
  todo,      \* entries of the answer not yet checked
  verdict,   \* "none", "blocked" or "passed"
  answers,   \* history: entries of the answer of the next resolver
  seen,      \* history: what has been true during the query
  changes    \* changes during the query

queryVars == <<pc, client, groups, question, todo, verdict, answers>>
vars == <<status, deny, allow, queryVars, seen, changes>>

(* determineAllowlistOnlyGroups *)
AllowlistOnlyGroups == AllowlistGroups \ DenylistGroups

Matches(list, gs, e) == \E g \in gs : <<g, e>> \in list

(* What holds now, as a history that starts now. *)
Now(s, d, a) ==
  [everDenied |-> d, alwaysDenied |-> d, everAllowed |-> a,
   alwaysAllowed |-> a, everDisabled |-> s.disabledGroups,
   alwaysDisabled |-> s.disabledGroups]

Also(h, s, d, a) ==
  [everDenied     |-> h.everDenied \cup d,
   alwaysDenied   |-> h.alwaysDenied \cap d,
   everAllowed    |-> h.everAllowed \cup a,
   alwaysAllowed  |-> h.alwaysAllowed \cap a,
   everDisabled   |-> h.everDisabled \cup s.disabledGroups,
   alwaysDisabled |-> h.alwaysDisabled \cap s.disabledGroups]

Init ==
  /\ status = InitStatus
  /\ deny = {} /\ allow = {}
  /\ pc = "idle"
  /\ client = {} /\ groups = {} /\ todo = <<>> /\ answers = <<>>
  /\ question \in Entries
  /\ verdict = "none"
  /\ seen = Now(InitStatus, {}, {})
  /\ changes = 0

-----------------------------------------------------------------------------
(* Changes from outside, between two steps of the query or before it. *)
Change ==
  /\ pc # "done"
  /\ changes < MaxChanges
  /\ changes' = changes + 1
  /\ seen' = IF pc = "idle" THEN Now(status', deny', allow')
                            ELSE Also(seen, status', deny', allow')
  /\ UNCHANGED queryVars

EnableBlocking ==
  /\ status' = EnableStatus(status)
  /\ UNCHANGED <<deny, allow>>
  /\ Change

DisableBlocking(gs) ==
  /\ status' = DisableStatus(status, 0, gs)
  /\ UNCHANGED <<deny, allow>>
  /\ Change

(* A refresh puts another list in the place of the list of a group. *)
Replaced(list, g, es) ==
  {p \in list : p[1] # g} \cup ({g} \X es)

RefreshDenylist(g, es) ==
  /\ deny' = Replaced(deny, g, es)
  /\ UNCHANGED <<status, allow>>
  /\ Change

RefreshAllowlist(g, es) ==
  /\ allow' = Replaced(allow, g, es)
  /\ UNCHANGED <<status, deny>>
  /\ Change

-----------------------------------------------------------------------------
(* The groups of all the identifiers that match the client, or else the    *)
(* default groups.                                                         *)
GroupsOf(ids) ==
  LET gs == UNION {ClientGroupsBlock[id] : id \in ids}
  IN  IF gs = {} THEN ClientGroupsBlock[DefaultClient] ELSE gs

(* Mistake: the default groups are always added. *)
ReceiveQueryWithDefault(e, ids) ==
  /\ pc = "idle"
  /\ question' = e
  /\ client' = GroupsOf(ids)
  /\ groups' = (GroupsOf(ids) \cup ClientGroupsBlock[DefaultClient])
                  \ status.disabledGroups
  /\ pc' = IF groups' = {} THEN "next" ELSE "allowlist"
  /\ seen' = Now(status, deny, allow)
  /\ changes' = 0
  /\ UNCHANGED <<status, deny, allow, todo, verdict, answers>>

(* groupsToCheckForClient; `ids` are the identifiers that match by name,   *)
(* address, network or, as far as their addresses are cached, host name.   *)
ReceiveQuery(e, ids) ==
  /\ pc = "idle"
  /\ question' = e
  /\ client' = GroupsOf(ids)
  /\ groups' = GroupsOf(ids) \ status.disabledGroups
  /\ pc' = IF groups' = {} THEN "next" ELSE "allowlist"
  /\ seen' = Now(status, deny, allow)
  /\ changes' = 0
  /\ UNCHANGED <<status, deny, allow, todo, verdict, answers>>

Finish(v) ==
  /\ pc' = "done"
  /\ verdict' = v

InQuery == UNCHANGED <<status, deny, allow, client, groups, question, seen, changes>>

(* Mistake: groups with only an allowlist are looked at first. *)
CheckAllowlistLast ==
  /\ pc = "allowlist"
  /\ \/ /\ groups \cap AllowlistOnlyGroups # {}
        /\ Finish("blocked")
     \/ /\ groups \cap AllowlistOnlyGroups = {}
        /\ pc' = "denylist" /\ UNCHANGED verdict
  /\ UNCHANGED <<todo, answers>>
  /\ InQuery

(* handleDenylist *)
CheckAllowlist ==
  /\ pc = "allowlist"
  /\ \/ /\ Matches(allow, groups, question)
        /\ pc' = "allowed" /\ UNCHANGED verdict
     \/ /\ ~Matches(allow, groups, question)
        /\ groups \cap AllowlistOnlyGroups # {}
        /\ Finish("blocked")
     \/ /\ ~Matches(allow, groups, question)
        /\ groups \cap AllowlistOnlyGroups = {}
        /\ pc' = "denylist" /\ UNCHANGED verdict
  /\ UNCHANGED <<todo, answers>>
  /\ InQuery

CheckDenylist ==
  /\ pc = "denylist"
  /\ IF Matches(deny, groups, question)
     THEN Finish("blocked")
     ELSE pc' = "next" /\ UNCHANGED verdict
  /\ UNCHANGED <<todo, answers>>
  /\ InQuery

(* The next resolver fails, or what it answers is not checked: the         *)
(* question is allowlisted, or there is no group to check.                 *)
NextUnchecked ==
  /\ pc \in {"next", "allowed"}
  /\ Finish("passed")
  /\ UNCHANGED <<todo, answers>>
  /\ InQuery

NextAnswers(es) ==
  /\ pc = "next" /\ groups # {}
  /\ answers' = es
  /\ todo' = es
  /\ pc' = "answer"
  /\ UNCHANGED verdict
  /\ InQuery

(* Mistake: an allowlisted entry ends the check of the answer. *)
CheckEntryAllowedReturns ==
  /\ pc = "answer" /\ todo # <<>>
  /\ IF Matches(allow, groups, Head(todo))
     THEN todo' = <<>> /\ UNCHANGED pc
     ELSE pc' = "entry" /\ UNCHANGED todo
  /\ UNCHANGED <<verdict, answers>>
  /\ InQuery

(* The entry at the head of the answer: the allowlist first, then the      *)
(* denylist.                                                               *)
CheckEntryAllowed ==
  /\ pc = "answer" /\ todo # <<>>
  /\ IF Matches(allow, groups, Head(todo))
     THEN todo' = Tail(todo) /\ UNCHANGED pc
     ELSE pc' = "entry" /\ UNCHANGED todo
  /\ UNCHANGED <<verdict, answers>>
  /\ InQuery

CheckEntryDenied ==
  /\ pc = "entry"
  /\ IF Matches(deny, groups, Head(todo))
     THEN Finish("blocked") /\ UNCHANGED todo
     ELSE todo' = Tail(todo) /\ pc' = "answer" /\ UNCHANGED verdict
  /\ UNCHANGED answers
  /\ InQuery

PassAnswer ==
  /\ pc = "answer" /\ todo = <<>>
  /\ Finish("passed")
  /\ UNCHANGED <<todo, answers>>
  /\ InQuery

-----------------------------------------------------------------------------
ResolveStep ==
  \/ CheckAllowlist
  \/ CheckDenylist
  \/ NextUnchecked
  \/ \E es \in Answers : NextAnswers(es)
  \/ CheckEntryAllowed
  \/ CheckEntryDenied
  \/ PassAnswer

Next ==
  \/ EnableBlocking
  \/ \E gs \in GroupArgs : DisableBlocking(gs)
  \/ \E g \in DenylistGroups, es \in SUBSET Entries : RefreshDenylist(g, es)
  \/ \E g \in AllowlistGroups, es \in SUBSET Entries : RefreshAllowlist(g, es)
  \/ \E e \in Entries, ids \in SUBSET DOMAIN ClientGroupsBlock :
       ReceiveQuery(e, ids)
  \/ ResolveStep

Spec == Init /\ [][Next]_vars

-----------------------------------------------------------------------------
(* Types of the variables. *)
TypeOK ==
  /\ status \in Status
  /\ deny \subseteq DenylistGroups \X Entries
  /\ allow \subseteq AllowlistGroups \X Entries
  /\ pc \in {"idle", "allowlist", "denylist", "next", "allowed", "answer",
            "entry", "done"}
  /\ groups \subseteq client
  /\ question \in Entries
  /\ todo \in Seq(Entries) /\ answers \in Seq(Entries)
  /\ verdict \in {"none", "blocked", "passed"}
  /\ (pc = "done") = (verdict # "none")
  /\ changes \in 0..MaxChanges

(* Entries that Resolve had to look at. *)
Checked == {question} \cup {answers[k] : k \in DOMAIN answers}

(* A query is blocked only for a reason: one of its entries was not all    *)
(* the time on the allowlist of a group that was enabled all the time, and *)
(* it was on the denylist of a group of the client that was enabled at     *)
(* some time, or the question fell under a group with only an allowlist.   *)
BlockedForAReason ==
  LET on == client \ seen.alwaysDisabled
  IN  verdict = "blocked" =>
        \E e \in Checked :
          /\ ~Matches(seen.alwaysAllowed, client \ seen.everDisabled, e)
          /\ \/ Matches(seen.everDenied, on, e)
             \/ e = question /\ on \cap AllowlistOnlyGroups # {}

(* A query that ought to be blocked is blocked: if it passes, then either  *)
(* the question was allowlisted at some time, or none of its entries was   *)
(* all the time on the denylist of an enabled group without being          *)
(* allowlisted, and no enabled group has only an allowlist.                *)
DeniedIsBlocked ==
  LET on == client \ seen.everDisabled
  IN  verdict = "passed" =>
        \/ Matches(seen.everAllowed, client, question)
        \/ /\ on \cap AllowlistOnlyGroups = {}
           /\ \A e \in Checked :
                Matches(seen.alwaysDenied, on, e) =>
                  Matches(seen.everAllowed, client, e)
=============================================================================
