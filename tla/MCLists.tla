------------------------------ MODULE MCLists -------------------------------
(* What is loaded from sources: the lists, what an entry of a list matches *)
(* and the hosts files.  The three share no state, so that in a behaviour  *)
(* only one of them moves.                                                 *)
EXTENDS MCListCache, StringCaches, HostsFile, SequencesExt, TLC

CONSTANTS h1, h2

(* In the order of strings, among those of one length. *)
MCOrdered ==
  << <<"com">>, <<"net">>, <<"com", "a">>, <<"com", "b">>, <<"com", "c">>,
     <<"com", "a", "x">>, <<"com", "b", "x">>, <<"com", "a", "y">> >>

MCDomains == ToSet(MCOrdered)

MCLabels == {"com", "net", "a", "b", "c", "x", "y"}

MCRank == [n \in MCDomains |-> CHOOSE i \in DOMAIN MCOrdered : MCOrdered[i] = n]

MCLength == [n \in MCDomains |-> CASE Len(n) = 1 -> 3 [] Len(n) = 2 -> 5
                                   [] Len(n) = 3 -> 7]

(* A name is also spelled in capitals, and one line is only "*.". *)
MCSpellings == MCDomains \cup {<<"COM", "A">>}

MCLower ==
  [w \in MCSpellings \cup {<<>>} |->
     IF w = <<"COM", "A">> THEN <<"com", "a">> ELSE w]

MCEntries ==
  [form : {"wildcard", "name"}, name : MCSpellings, valid : {TRUE}]
    \cup {[form |-> "wildcard", name |-> <<>>, valid |-> TRUE],
          [form |-> "regex", matches |-> {<<"com", "b">>}, valid |-> TRUE],
          [form |-> "regex", matches |-> {<<"net">>}, valid |-> FALSE],
          [form |-> "wildcard", name |-> <<"net">>, valid |-> FALSE],
          [form |-> "name", name |-> <<"net">>, valid |-> FALSE]}

(* A name is a host or an alias, also in turn. *)
MCHostsFiles == {<<{h1}, {}>>, <<{}, {h1}>>, <<{h1}, {h2}>>, <<{h2}, {h1}>>}

-----------------------------------------------------------------------------
VARIABLE part

(* A state of a part that does not move. *)
MCRestingLists ==
  /\ caches = [k \in Kinds |-> [g \in Groups |-> {}]]
  /\ accepted = [g \in Groups |-> {Nothing}]
  /\ last = [g \in Groups |-> Nothing] /\ alone = [g \in Groups |-> TRUE]
  /\ stage = [r \in Refreshers |-> [g \in Groups |-> Idle]]
  /\ built = [r \in Refreshers |-> [g \in Groups |-> Nothing]]
  /\ lookup = NoLookup

MCRestingHosts == HostsInit /\ strategy = "fast"

MCInit ==
  \/ part = "lists" /\ Init /\ StringsInit /\ MCRestingHosts
  \/ part = "strings" /\ StringsInit /\ MCRestingLists /\ MCRestingHosts
  \/ part = "hosts" /\ HostsInit /\ StringsInit /\ MCRestingLists

MCNext ==
  \/ part = "lists" /\ Next /\ UNCHANGED <<stringVars, hostsVars, part>>
  \/ part = "strings" /\ StringsNext /\ UNCHANGED <<vars, hostsVars, part>>
  \/ part = "hosts" /\ HostsNext /\ UNCHANGED <<vars, stringVars, part>>

MCSpec == MCInit /\ [][MCNext]_<<vars, stringVars, hostsVars, part>>
=============================================================================
