----------------------------- MODULE StringCaches ---------------------------
(***************************************************************************)
(* What a list matches: the factory that sorts the entries of a list into  *)
(* the regex, the wildcard and the string cache, and the lookup in each of *)
(* them (cache/stringcache/string_caches.go, trie/trie.go).                *)
(*                                                                         *)
(* A name is the sequence of its labels, top-level label first, which is   *)
(* the order in which SplitTLD takes them.  Names that are looked up are   *)
(* in lower case, as the callers of Match pass them; an entry may have any *)
(* spelling.                                                               *)
(***************************************************************************)
EXTENDS Naturals, Sequences, FiniteSets

CONSTANTS
  Labels,   \* labels of names
  Domains,  \* names in lower case
  Lower,    \* Lower[w]: the name that the spelling w stands for
  Length,   \* Length[n]: length of n as a string
  Rank,     \* Rank[n]: place of n in the order of strings
  Entries,  \* lines of a list, see Entry
  MaxAdded  \* bound: entries of a list

(* A line: a regex in slashes with the names it matches, a line with a *,  *)
(* or any other line; an invalid one is dropped.  The name of a line is    *)
(* what is left of it, nothing of the wildcard "*.".                       *)
Entry ==
  [form : {"regex"}, matches : SUBSET Domains, valid : BOOLEAN]
    \cup [form : {"wildcard", "name"}, name : DOMAIN Lower, valid : BOOLEAN]

ASSUME StringsAssumption ==
  /\ Domains \subseteq Seq(Labels) \ {<<>>}
  /\ Lower \in [DOMAIN Lower -> Domains \cup {<<>>}]
  /\ Length \in [Domains -> Nat]
  /\ Rank \in [Domains -> Nat]
  /\ \A m, n \in Domains : Rank[m] = Rank[n] => m = n
  /\ Entries \subseteq Entry /\ MaxAdded \in Nat
  /\ \A e \in Entries : e.form = "name" /\ e.valid => Lower[e.name] # <<>>

VARIABLES
  regexes,  \* the regexes, as the sets of names they match
  trie,     \* trie[p]: the node that the labels p lead to from the root
  inserts,  \* calls of insert, the one that runs first
  buckets,  \* buckets[l]: sorted names of length l
  added     \* history: entries added so far

stringVars == <<regexes, trie, inserts, buckets, added>>

-----------------------------------------------------------------------------
(* A node of the trie is a parent, whose children are the nodes one label  *)
(* further, or a terminal.  A terminal of the program holds the labels     *)
(* that come after those that lead to it, here it holds its whole name.    *)
Terminal(name) == [terminal |-> TRUE, name |-> name]
Parent == [terminal |-> FALSE, name |-> <<>>]

IsTerminal(p) == p \in DOMAIN trie /\ trie[p].terminal
IsParent(p) == p \in DOMAIN trie /\ ~trie[p].terminal

(* The labels from the d-th on, compared one by one: those of the terminal *)
(* are used up before they differ from those of the key.                   *)
TerminalHasParentOf(name, key, d) ==
  \A i \in d..Len(name) : i <= Len(key) /\ key[i] = name[i]

(* The way down goes through parents and ends at a terminal. *)
HasParentOf(key) ==
  \E d \in 1..Len(key) :
    /\ \A i \in 1..(d - 1) : IsParent(SubSeq(key, 1, i))
    /\ LET p == SubSeq(key, 1, d)
       IN  IsTerminal(p) /\ TerminalHasParentOf(trie[p].name, key, d + 1)

(* A call of insert at the d-th label of its key. *)
Call(key, d) == [key |-> key, depth |-> d]

Running == Head(inserts)
Child == SubSeq(Running.key, 1, Running.depth)
AtEnd == Running.depth = Len(Running.key)

(* One round of the loop of insert: there is no child, or the key ends at  *)
(* it; the nodes below a replaced child go with it.                        *)
InsertTerminal ==
  /\ inserts # <<>>
  /\ Child \notin DOMAIN trie \/ AtEnd
  /\ LET kept == {p \in DOMAIN trie :
                    ~(Len(p) >= Len(Child) /\ SubSeq(p, 1, Len(Child)) = Child)}
     IN  trie' = [p \in kept \cup {Child} |->
                    IF p = Child THEN Terminal(Running.key) ELSE trie[p]]
  /\ inserts' = Tail(inserts)

InsertGoesDown ==
  /\ inserts # <<>>
  /\ IsParent(Child) /\ ~AtEnd
  /\ inserts' = <<Call(Running.key, Running.depth + 1)>> \o Tail(inserts)
  /\ UNCHANGED trie

(* A terminal in the way stands for a parent of the key. *)
InsertCovered ==
  /\ inserts # <<>>
  /\ IsTerminal(Child) /\ ~AtEnd
  /\ TerminalHasParentOf(trie[Child].name, Running.key, Running.depth + 1)
  /\ inserts' = Tail(inserts)
  /\ UNCHANGED trie

(* Mistake: the terminal that is in the way is forgotten. *)
InsertForgets ==
  /\ inserts # <<>>
  /\ IsTerminal(Child) /\ ~AtEnd
  /\ ~TerminalHasParentOf(trie[Child].name, Running.key, Running.depth + 1)
  /\ trie' = [trie EXCEPT ![Child] = Parent]
  /\ inserts' = <<Call(Running.key, Running.depth + 1)>> \o Tail(inserts)

(* It does not: a parent takes its place, and both are inserted below it,  *)
(* the terminal first.                                                     *)
InsertSplits ==
  /\ inserts # <<>>
  /\ IsTerminal(Child) /\ ~AtEnd
  /\ ~TerminalHasParentOf(trie[Child].name, Running.key, Running.depth + 1)
  /\ trie' = [trie EXCEPT ![Child] = Parent]
  /\ inserts' = <<Call(trie[Child].name, Running.depth + 1),
                  Call(Running.key, Running.depth + 1)>> \o Tail(inserts)

Insert ==
  /\ InsertTerminal \/ InsertGoesDown \/ InsertCovered \/ InsertSplits
  /\ UNCHANGED <<regexes, buckets, added>>

-----------------------------------------------------------------------------
(* sort.Search: an index with every name before n just before it, and none *)
(* at it; in a sorted bucket there is only one.                            *)
Search(bucket, n) ==
  CHOOSE ix \in 0..Len(bucket) :
    /\ ix = 0 \/ Rank[bucket[ix]] < Rank[n]
    /\ ix = Len(bucket) \/ Rank[bucket[ix + 1]] >= Rank[n]

FoundAt(bucket, n, ix) == ix < Len(bucket) /\ bucket[ix + 1] = n

InsertString(bucket, n) ==
  LET ix == Search(bucket, n)
  IN  IF FoundAt(bucket, n, ix) THEN bucket
      ELSE SubSeq(bucket, 1, ix) \o <<n>> \o SubSeq(bucket, ix + 1, Len(bucket))

StringContains(n) ==
  LET bucket == buckets[Length[n]]
  IN  FoundAt(bucket, n, Search(bucket, n))

-----------------------------------------------------------------------------
Lengths == {Length[n] : n \in Domains}

StringsInit ==
  /\ regexes = {}
  /\ trie = <<>>
  /\ inserts = <<>>
  /\ buckets = [l \in Lengths |-> <<>>]
  /\ added = {}

(* AddEntry of chainedGroupFactory: the first factory that takes the form  *)
(* of the entry handles it, whether it is valid or not.                    *)
AddRegex(e) ==
  /\ e.form = "regex"
  /\ regexes' = IF e.valid THEN regexes \cup {e.matches} ELSE regexes
  /\ UNCHANGED <<trie, inserts, buckets>>

AddWildcard(e) ==
  /\ e.form = "wildcard"
  /\ inserts' = IF e.valid /\ Lower[e.name] # <<>>
                THEN <<Call(Lower[e.name], 1)>> ELSE <<>>
  /\ UNCHANGED <<regexes, trie, buckets>>

AddString(e) ==
  /\ e.form = "name"
  /\ buckets' = IF e.valid
                THEN LET n == Lower[e.name]
                     IN  [buckets EXCEPT ![Length[n]] = InsertString(@, n)]
                ELSE buckets
  /\ UNCHANGED <<regexes, trie, inserts>>

AddEntry(e) ==
  /\ inserts = <<>>
  /\ Cardinality(added \cup {e}) <= MaxAdded
  /\ added' = added \cup {e}
  /\ AddRegex(e) \/ AddWildcard(e) \/ AddString(e)

StringsNext == Insert \/ \E e \in Entries : AddEntry(e)

StringsSpec == StringsInit /\ [][StringsNext]_stringVars

(* Contains of the caches of one group. *)
ListContains(n) ==
  \/ \E matches \in regexes : n \in matches
  \/ HasParentOf(n)
  \/ StringContains(n)

-----------------------------------------------------------------------------
(* The names of the valid entries of a form. *)
Added(form) ==
  {Lower[e.name] : e \in {f \in added : f.form = form /\ f.valid}}

(* p is n or a parent of n. *)
Above(p, n) == Len(p) <= Len(n) /\ \A i \in 1..Len(p) : p[i] = n[i]

(* A list matches a name exactly if one of its valid entries does: a regex *)
(* that matches it, a wildcard for it or for one of its parents, or the    *)
(* name itself, in whatever order and spelling they were added; "*."       *)
(* matches nothing.                                                        *)
ContainsIsRight ==
  inserts = <<>> =>
    \A n \in Domains :
      ListContains(n) <=>
        \/ \E e \in added : e.form = "regex" /\ e.valid /\ n \in e.matches
        \/ \E p \in Added("wildcard") \ {<<>>} : Above(p, n)
        \/ n \in Added("name")
=============================================================================
