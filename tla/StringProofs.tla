---------------------------- MODULE StringProofs ----------------------------
(***************************************************************************)
(* Proofs about StringCaches, for any entries, names and labels.           *)
(***************************************************************************)
EXTENDS StringCaches, WellFoundedInduction, TLAPS

(* The names of the wildcards of the list. *)
Wildcards == Added("wildcard") \ {<<>>}

(* Only parents lead to a node, and a terminal holds a wildcard. *)
NodeOK(p) ==
  /\ p \in Seq(Labels) /\ Len(p) >= 1
  /\ \A i \in 1..(Len(p) - 1) : IsParent(SubSeq(p, 1, i))
  /\ IsTerminal(p) => trie[p].name \in Wildcards /\ Above(p, trie[p].name)

(* Only parents lead to the node at which a call has arrived. *)
CallOK(call) ==
  /\ call \in [key : Wildcards, depth : Nat]
  /\ call.depth \in 1..Len(call.key)
  /\ \A i \in 1..(call.depth - 1) : IsParent(SubSeq(call.key, 1, i))

(* The trie, or a call that has still to be done, has the wildcard or one  *)
(* for a parent of it.                                                     *)
Held(w) ==
  \/ \E p \in DOMAIN trie : IsTerminal(p) /\ Above(trie[p].name, w)
  \/ \E j \in DOMAIN inserts : Above(inserts[j].key, w)

(* Of two calls, the first finds no child, and so drops no node. *)
TrieInv ==
  /\ \A p \in DOMAIN trie : NodeOK(p)
  /\ inserts \in Seq([key : Wildcards, depth : Nat]) /\ Len(inserts) <= 2
  /\ \A j \in DOMAIN inserts : CallOK(inserts[j])
  /\ Len(inserts) = 2 => Child \notin DOMAIN trie
  /\ \A w \in Wildcards : Held(w)

(* The names of the bucket of a length, each once and in order. *)
BucketOK(bucket, l) ==
  /\ bucket \in Seq(Domains)
  /\ \A i, j \in DOMAIN bucket : i < j => Rank[bucket[i]] < Rank[bucket[j]]
  /\ \A n \in Domains :
       (\E i \in DOMAIN bucket : bucket[i] = n) <=> n \in Added("name") /\ Length[n] = l

StringsInv ==
  /\ added \subseteq Entries
  /\ regexes = {e.matches : e \in {f \in added : f.form = "regex" /\ f.valid}}
  /\ TrieInv
  /\ DOMAIN buckets = Lengths /\ \A l \in Lengths : BucketOK(buckets[l], l)

-----------------------------------------------------------------------------
(* Two names with the same labels are the same. *)
LEMMA SameLabels ==
  ASSUME NEW s \in Seq(Labels), NEW t \in Seq(Labels), Len(s) = Len(t),
         \A i \in 1..Len(s) : s[i] = t[i]
  PROVE  s = t
  OBVIOUS

(* The first labels of a name are a name of that many labels. *)
LEMMA PrefixLabels ==
  ASSUME NEW s \in Seq(Labels), NEW d \in 0..Len(s)
  PROVE  /\ SubSeq(s, 1, d) \in Seq(Labels) /\ Len(SubSeq(s, 1, d)) = d
         /\ \A i \in 1..d : SubSeq(s, 1, d)[i] = s[i]
  <1>1. d \in Nat
    OBVIOUS
  <1>2. QED
    BY <1>1

(* The first labels of the first labels of a name are first labels of the  *)
(* name.                                                                   *)
LEMMA PrefixOfPrefix ==
  ASSUME NEW s \in Seq(Labels), NEW d \in 0..Len(s), NEW i \in 0..d
  PROVE  SubSeq(SubSeq(s, 1, d), 1, i) = SubSeq(s, 1, i)
  <1> DEFINE p == SubSeq(s, 1, d)
             a == SubSeq(p, 1, i)
             b == SubSeq(s, 1, i)
  <1>1. p \in Seq(Labels) /\ Len(p) = d /\ \A j \in 1..d : p[j] = s[j]
    BY PrefixLabels
  <1>2. a \in Seq(Labels) /\ Len(a) = i /\ \A j \in 1..i : a[j] = p[j]
    <2> HIDE DEF p
    <2>1. i \in 0..Len(p)
      BY <1>1
    <2>2. QED
      BY <1>1, <2>1, PrefixLabels
  <1>3. b \in Seq(Labels) /\ Len(b) = i /\ \A j \in 1..i : b[j] = s[j]
    <2>1. i \in 0..Len(s)
      OBVIOUS
    <2>2. QED
      BY <2>1, PrefixLabels
  <1> HIDE DEF p, a, b
  <1>4. a = b
    BY <1>1, <1>2, <1>3, SameLabels
  <1>5. QED
    BY <1>4 DEF a, b, p

(* A name begins with the labels of its parents. *)
LEMMA AbovePrefix ==
  ASSUME NEW p \in Seq(Labels), NEW n \in Seq(Labels), Above(p, n), NEW i \in 0..Len(p)
  PROVE  SubSeq(n, 1, i) = SubSeq(p, 1, i)
  <1> DEFINE a == SubSeq(p, 1, i)
             b == SubSeq(n, 1, i)
  <1>1. i \in 0..Len(n)
    BY DEF Above
  <1>2. a \in Seq(Labels) /\ Len(a) = i /\ \A j \in 1..i : a[j] = p[j]
    BY PrefixLabels
  <1>3. b \in Seq(Labels) /\ Len(b) = i /\ \A j \in 1..i : b[j] = n[j]
    BY <1>1, PrefixLabels
  <1> HIDE DEF a, b
  <1>4. a = b
    BY <1>2, <1>3, SameLabels DEF Above
  <1>5. QED
    BY <1>4 DEF a, b

(* All labels of a name are the name. *)
LEMMA WholePrefix ==
  ASSUME NEW p \in Seq(Labels)
  PROVE  SubSeq(p, 1, Len(p)) = p
  <1> DEFINE a == SubSeq(p, 1, Len(p))
  <1>1. Len(p) \in 0..Len(p)
    OBVIOUS
  <1>2. a \in Seq(Labels) /\ Len(a) = Len(p) /\ \A j \in 1..Len(p) : a[j] = p[j]
    BY <1>1, PrefixLabels
  <1> HIDE DEF a
  <1>3. a = p
    BY <1>2, SameLabels
  <1>4. QED
    BY <1>3 DEF a

(* The first labels of a name are a parent of it. *)
LEMMA PrefixAbove ==
  ASSUME NEW n \in Seq(Labels), NEW d \in 0..Len(n)
  PROVE  Above(SubSeq(n, 1, d), n)
  BY PrefixLabels DEF Above

(* Every name is above itself. *)
LEMMA AboveItself ==
  ASSUME NEW p \in Seq(Labels)
  PROVE  Above(p, p)
  BY DEF Above

(* The parents of a parent are parents. *)
LEMMA AboveAbove ==
  ASSUME NEW a \in Seq(Labels), NEW b \in Seq(Labels), NEW c \in Seq(Labels),
         Above(a, b), Above(b, c)
  PROVE  Above(a, c)
  BY DEF Above

(* What the entries stand for are names, and names have labels. *)
LEMMA WildcardsAreNames ==
  ASSUME added \subseteq Entries
  PROVE  /\ Wildcards \subseteq Domains /\ Added("name") \subseteq Domains
         /\ Domains \subseteq Seq(Labels) /\ \A n \in Domains : Len(n) >= 1
  <1>1. \A e \in Entries : e.form \in {"wildcard", "name"} => e.name \in DOMAIN Lower
    BY StringsAssumption DEF Entry
  <1>2. Wildcards \subseteq Domains
    BY <1>1, StringsAssumption DEF Wildcards, Added
  <1>3. Added("name") \subseteq Domains
    BY <1>1, StringsAssumption DEF Added
  <1>4. \A n \in Domains : n \in Seq(Labels) /\ n # <<>>
    BY StringsAssumption
  <1>5. QED
    BY <1>2, <1>3, <1>4

(* What hasParentOf of the trie finds: the way down from the root comes to *)
(* a terminal of a parent of the name, and only there it can end well.     *)
LEMMA TrieIsRight ==
  ASSUME added \subseteq Entries, TrieInv, inserts = <<>>, NEW n \in Domains
  PROVE  HasParentOf(n) <=> \E p \in Wildcards : Above(p, n)
  <1>1. Wildcards \subseteq Seq(Labels) /\ n \in Seq(Labels)
    BY WildcardsAreNames
  <1>2. ASSUME HasParentOf(n)
        PROVE  \E p \in Wildcards : Above(p, n)
    <2>1. PICK d \in 1..Len(n) :
            /\ IsTerminal(SubSeq(n, 1, d))
            /\ TerminalHasParentOf(trie[SubSeq(n, 1, d)].name, n, d + 1)
      BY <1>2 DEF HasParentOf
    <2> DEFINE p == SubSeq(n, 1, d)
               w == trie[p].name
    <2>2. p \in Seq(Labels) /\ Len(p) = d /\ \A i \in 1..d : p[i] = n[i]
      <3>1. d \in 0..Len(n)
        OBVIOUS
      <3>2. QED
        BY <1>1, <3>1, PrefixLabels
    <2>3. w \in Wildcards /\ Above(p, w) /\ TerminalHasParentOf(w, n, d + 1)
      BY <2>1 DEF TrieInv, NodeOK, IsTerminal
    <2> HIDE DEF p, w
    <2>4. w \in Seq(Labels) /\ Len(w) \in Nat /\ Len(n) \in Nat /\ d \in Nat /\ d <= Len(n)
      BY <1>1, <2>3
    <2>5. \A i \in 1..Len(w) : i <= Len(n) /\ w[i] = n[i]
      BY <2>2, <2>3, <2>4 DEF Above, TerminalHasParentOf
    <2>6. Above(w, n)
      BY <2>4, <2>5 DEF Above
    <2>7. QED
      BY <2>3, <2>6
  <1>3. ASSUME NEW w \in Wildcards, Above(w, n)
        PROVE  HasParentOf(n)
    <2>1. PICK p \in DOMAIN trie : IsTerminal(p) /\ Above(trie[p].name, w)
      BY DEF TrieInv, Held
    <2>2. p \in Seq(Labels) /\ Len(p) >= 1 /\ Above(p, trie[p].name) /\ trie[p].name \in Wildcards
          /\ \A i \in 1..(Len(p) - 1) : IsParent(SubSeq(p, 1, i))
      BY <2>1 DEF TrieInv, NodeOK
    <2>3. Above(trie[p].name, n) /\ Above(p, n)
      BY <1>1, <1>3, <2>1, <2>2, AboveAbove
    <2>4. \A i \in 0..Len(p) : SubSeq(n, 1, i) = SubSeq(p, 1, i)
      BY <1>1, <2>2, <2>3, AbovePrefix
    <2>5. Len(p) \in 1..Len(n)
      BY <1>1, <2>2, <2>3 DEF Above
    <2>6. SubSeq(n, 1, Len(p)) = p
      BY <2>2, <2>4, WholePrefix
    <2>7. \A i \in 1..(Len(p) - 1) : IsParent(SubSeq(n, 1, i))
      <3>1. \A i \in 1..(Len(p) - 1) : i \in 0..Len(p)
        BY <2>2
      <3>2. QED
        BY <2>2, <2>4, <3>1, Zenon
    <2>8. TerminalHasParentOf(trie[p].name, n, Len(p) + 1)
      BY <1>1, <2>2, <2>3 DEF Above, TerminalHasParentOf
    <2>9. QED
      BY Zenon, <2>1, <2>5, <2>6, <2>7, <2>8 DEF HasParentOf
  <1>4. QED
    BY <1>2, <1>3

-----------------------------------------------------------------------------
(* What Head and Tail are. *)
LEMMA FirstAndRest ==
  ASSUME NEW S, NEW s \in Seq(S), s # <<>>
  PROVE  /\ Head(s) = s[1] /\ 1 \in DOMAIN s /\ Len(s) \in Nat /\ Len(s) >= 1
         /\ DOMAIN s = 1..Len(s)
         /\ Tail(s) \in Seq(S) /\ Len(Tail(s)) = Len(s) - 1
         /\ \A j \in DOMAIN Tail(s) : Tail(s)[j] = s[j + 1]
         /\ Len(s) = 1 => Tail(s) = <<>>
  OBVIOUS

(* Nothing is left of the calls when the last one returns. *)
LEMMA NoMoreCalls ==
  /\ \A a : <<a>> \o <<>> = <<a>>
  /\ \A a, b : <<a, b>> \o <<>> = <<a, b>>
  /\ \A S : <<>> \in Seq(S) /\ Len(<<>>) = 0 /\ DOMAIN <<>> = {}
  OBVIOUS

CallSet == [key : Wildcards, depth : Nat]

(* The call that runs has come down through parents, along the labels of   *)
(* its key.                                                                *)
LEMMA RunningCall ==
  ASSUME added \subseteq Entries, TrieInv, inserts # <<>>
  PROVE  /\ Running = inserts[1] /\ 1 \in DOMAIN inserts /\ Len(inserts) \in {1, 2}
         /\ CallOK(Running) /\ Running.key \in Wildcards /\ Running.key \in Seq(Labels)
         /\ Running.depth \in 1..Len(Running.key)
         /\ Child \in Seq(Labels) /\ Len(Child) = Running.depth /\ Above(Child, Running.key)
         /\ \A i \in 1..Running.depth : Child[i] = Running.key[i]
  <1>1. /\ Running = inserts[1] /\ 1 \in DOMAIN inserts /\ Len(inserts) \in {1, 2}
    <2>1. inserts \in Seq(CallSet) /\ Len(inserts) <= 2
      BY DEF TrieInv, CallSet
    <2>2. /\ Head(inserts) = inserts[1] /\ 1 \in DOMAIN inserts
          /\ Len(inserts) \in Nat /\ Len(inserts) >= 1
      BY <2>1, FirstAndRest
    <2>3. Running = inserts[1]
      BY <2>2 DEF Running
    <2>4. Len(inserts) \in {1, 2}
      <3>1. \A n \in Nat : n <= 2 /\ n >= 1 => n \in {1, 2}
        OBVIOUS
      <3>2. QED
        BY <2>1, <2>2, <3>1, Zenon
    <2>5. QED
      BY <2>2, <2>3, <2>4
  <1>2. CallOK(Running)
    BY <1>1 DEF TrieInv
  <1>3. /\ Running.key \in Wildcards /\ Running.key \in Seq(Labels)
        /\ Running.depth \in 1..Len(Running.key)
    BY <1>2, WildcardsAreNames DEF CallOK
  <1>4. Running.depth \in 0..Len(Running.key)
    BY <1>3
  <1>5. QED
    BY <1>1, <1>2, <1>3, <1>4, PrefixLabels, PrefixAbove DEF Child

(* If there is a child then no other call waits: the call for the terminal *)
(* that was in the way always finds the new parent empty.                  *)
LEMMA OneCall ==
  ASSUME added \subseteq Entries, TrieInv, inserts # <<>>, Child \in DOMAIN trie
  PROVE  Len(inserts) = 1 /\ Tail(inserts) = <<>> /\ \A j \in DOMAIN inserts : j = 1
  <1>1. Len(inserts) = 1
    BY RunningCall DEF TrieInv
  <1>2. inserts \in Seq(CallSet)
    BY DEF TrieInv, CallSet
  <1>3. DOMAIN inserts = 1..Len(inserts) /\ Tail(inserts) = <<>>
    BY <1>1, <1>2, FirstAndRest
  <1>4. QED
    BY <1>1, <1>3

(* p is the child or below it. *)
Under(p) == Len(p) >= Len(Child) /\ SubSeq(p, 1, Len(Child)) = Child

(* There is nothing below a terminal, or below a child that is not there. *)
LEMMA NothingUnder ==
  ASSUME added \subseteq Entries, TrieInv, inserts # <<>>,
         Child \notin DOMAIN trie \/ IsTerminal(Child),
         NEW p \in DOMAIN trie, Under(p)
  PROVE  p = Child
  <1>1. Child \in Seq(Labels) /\ Len(Child) >= 1
    BY RunningCall
  <1>2. p \in Seq(Labels) /\ \A i \in 1..(Len(p) - 1) : IsParent(SubSeq(p, 1, i))
    BY DEF TrieInv, NodeOK
  <1>3. CASE Len(p) = Len(Child)
    BY <1>2, <1>3, WholePrefix DEF Under
  <1>4. CASE Len(p) > Len(Child)
    <2>1. Len(Child) \in 1..(Len(p) - 1)
      BY <1>1, <1>2, <1>4
    <2>2. IsParent(Child)
      BY Zenon, <1>2, <2>1 DEF Under
    <2>3. QED
      BY <2>2 DEF IsParent, IsTerminal
  <1>5. QED
    BY <1>1, <1>2, <1>3, <1>4 DEF Under

(* Of the at most two calls of an insertion, the one left after a return   *)
(* was the second.                                                         *)
LEMMA LastOfTwo ==
  \A n \in Nat : n <= 2 => \A j \in 1..(n - 1) : n = 2 /\ j = 1
  OBVIOUS

(* A new terminal. The nodes that go with the child it replaces are all    *)
(* below the key, and so the wildcards they hold are matched by the key.   *)
LEMMA InsertTerminalKeeps ==
  ASSUME added \subseteq Entries, TrieInv, InsertTerminal, added' = added
  PROVE  TrieInv'
  <1> DEFINE kept == {p \in DOMAIN trie : ~Under(p)}
  <1> PICK here, key, depth : here = Child /\ key = Running.key /\ depth = Running.depth
    OBVIOUS
  <1>1. /\ inserts # <<>>
        /\ here \notin DOMAIN trie \/ AtEnd
        /\ trie' = [p \in kept \cup {here} |->
                      IF p = here THEN Terminal(key) ELSE trie[p]]
        /\ inserts' = Tail(inserts)
    BY DEF InsertTerminal, Under
  <1>2. /\ Running = inserts[1] /\ 1 \in DOMAIN inserts /\ Len(inserts) \in {1, 2}
        /\ CallOK(Running) /\ key \in Wildcards /\ key \in Seq(Labels)
        /\ depth \in 1..Len(key)
        /\ here \in Seq(Labels) /\ Len(here) = depth /\ Above(here, key)
        /\ here = SubSeq(key, 1, depth)
    <2>1. here = SubSeq(key, 1, depth)
      BY DEF Child
    <2>2. /\ CallOK(Running) /\ key \in Wildcards /\ key \in Seq(Labels)
          /\ depth \in 1..Len(key)
          /\ here \in Seq(Labels) /\ Len(here) = depth /\ Above(here, key)
      BY <1>1, RunningCall
    <2>3. Running = inserts[1] /\ 1 \in DOMAIN inserts /\ Len(inserts) \in {1, 2}
      BY <1>1, RunningCall
    <2>4. QED
      BY <2>1, <2>2, <2>3
  <1>3. Wildcards' = Wildcards
    BY DEF Wildcards, Added
  <1>4. ~(here \in kept)
    <2>1. Under(here)
      BY <1>2, WholePrefix DEF Under
    <2>2. QED
      BY <2>1
  <1>5. \A p : Under(p) <=> Len(p) >= depth /\ SubSeq(p, 1, depth) = here
    BY <1>2 DEF Under
  <1>6. /\ \A p \in kept : p \in DOMAIN trie /\ p \in DOMAIN trie' /\ trie'[p] = trie[p] /\ p # here
        /\ here \in DOMAIN trie' /\ trie'[here].terminal /\ trie'[here].name = key
        /\ \A p \in DOMAIN trie' : p \in kept \/ p = here
    <2> HIDE DEF kept
    <2>1. \A p \in kept : p # here
      BY <1>4
    <2>2. \A p \in kept : p \in DOMAIN trie
      BY DEF kept
    <2>3. trie'[here] = Terminal(key)
      BY <1>1
    <2>4. QED
      BY <1>1, <2>1, <2>2, <2>3 DEF Terminal
  <1>7. \A p \in kept : (IsParent(p)' <=> IsParent(p)) /\ (IsTerminal(p)' <=> IsTerminal(p))
    <2> HIDE DEF kept
    <2>1. QED
      BY <1>6 DEF IsParent, IsTerminal
  <1>8. ASSUME NEW p \in kept
        PROVE  NodeOK(p)'
    <2>1. NodeOK(p) /\ ~Under(p) /\ p \in Seq(Labels)
      BY DEF TrieInv, NodeOK
    <2>2. ASSUME NEW i \in 1..(Len(p) - 1)
          PROVE  IsParent(SubSeq(p, 1, i))'
      <3> DEFINE q == SubSeq(p, 1, i)
      <3>1. IsParent(q)
        BY <2>1 DEF NodeOK
      <3>2. i \in 0..Len(p) /\ Len(p) \in Nat /\ depth \in Nat
        BY <1>2, <2>1
      <3>3. q \in Seq(Labels) /\ Len(q) = i
        BY <2>1, <3>2, PrefixLabels
      <3>4. ~Under(q)
        <4>1. SUFFICES ASSUME i >= depth, SubSeq(q, 1, depth) = here
                       PROVE  FALSE
          BY Zenon, <1>5, <3>3
        <4>2. depth \in 0..i
          BY <3>2, <4>1
        <4>3. SubSeq(p, 1, depth) = here
          BY <2>1, <3>2, <4>1, <4>2, PrefixOfPrefix
        <4>4. Len(p) >= depth
          BY <3>2, <4>1
        <4>5. QED
          BY <1>5, <2>1, <4>3, <4>4
      <3>5. q \in kept
        BY <3>1, <3>4 DEF IsParent
      <3>6. QED
        BY <1>7, <3>1, <3>5
    <2>3. QED
      BY <1>3, <1>6, <1>7, <2>1, <2>2 DEF NodeOK
  <1>9. NodeOK(here)'
    <2>1. ASSUME NEW i \in 1..(Len(here) - 1)
          PROVE  IsParent(SubSeq(here, 1, i))'
      <3> DEFINE q == SubSeq(here, 1, i)
      <3>1. i \in 0..depth /\ i \in 1..(depth - 1) /\ depth \in 0..Len(key) /\ i \in 0..Len(here)
        BY <1>2
      <3>2. q = SubSeq(key, 1, i)
        BY <1>2, <3>1, PrefixOfPrefix
      <3>3. IsParent(q)
        BY Zenon, <1>2, <3>1, <3>2 DEF CallOK
      <3>4. Len(q) = i
        BY <1>2, <3>1, PrefixLabels
      <3>5. ~Under(q)
        <4>1. ~(i >= depth)
          BY <1>2, <3>1
        <4>2. QED
          BY Zenon, <1>5, <3>4, <4>1
      <3>6. q \in kept
        BY <3>3, <3>5 DEF IsParent
      <3>7. QED
        BY <1>7, <3>3, <3>6
    <2>2. here \in Seq(Labels) /\ Len(here) >= 1
      BY <1>2
    <2>3. trie'[here].name \in Wildcards' /\ Above(here, trie'[here].name)
      BY <1>2, <1>3, <1>6
    <2>4. QED
      BY <2>1, <2>2, <2>3 DEF NodeOK
  <1>10. /\ inserts' \in Seq(CallSet') /\ Len(inserts') = Len(inserts) - 1
         /\ DOMAIN inserts' = 1..Len(inserts')
         /\ \A j \in DOMAIN inserts' : inserts'[j] = inserts[j + 1]
    <2>1. inserts \in Seq(CallSet) /\ CallSet' = CallSet
      BY <1>3 DEF TrieInv, CallSet
    <2>2. /\ Tail(inserts) \in Seq(CallSet) /\ Len(Tail(inserts)) = Len(inserts) - 1
          /\ \A j \in DOMAIN Tail(inserts) : Tail(inserts)[j] = inserts[j + 1]
      BY <1>1, <2>1, FirstAndRest
    <2>3. DOMAIN inserts' = 1..Len(inserts')
      BY <1>1, <2>2
    <2>4. QED
      BY <1>1, <2>1, <2>2, <2>3
  <1>11. ASSUME NEW j \in DOMAIN inserts'
         PROVE  CallOK(inserts[j])'
    <2>1. Len(inserts) = 2 /\ inserts'[j] = inserts[2] /\ 2 \in DOMAIN inserts
      <3>1. Len(inserts) = 2 /\ j = 1
        <4>1. j \in 1..(Len(inserts) - 1)
          BY <1>10
        <4>2. Len(inserts) \in Nat /\ Len(inserts) <= 2
          BY DEF TrieInv
        <4>3. QED
          BY <4>1, <4>2, LastOfTwo, Zenon
      <3>2. DOMAIN inserts = 1..Len(inserts)
        BY DEF TrieInv
      <3>3. QED
        BY <1>10, <3>1, <3>2
    <2>2. Child \notin DOMAIN trie /\ CallOK(inserts[2])
      BY <2>1 DEF TrieInv
    <2>3. \A p \in DOMAIN trie : p \in kept
      BY <1>1, <2>2, NothingUnder
    <2>4. \A p : IsParent(p) => IsParent(p)'
      BY <1>7, <2>3 DEF IsParent
    <2>5. QED
      BY <1>3, <2>1, <2>2, <2>4 DEF CallOK
  <1>12. ASSUME NEW w \in Wildcards
         PROVE  Held(w)'
    <2>1. w \in Seq(Labels)
      BY WildcardsAreNames
    <2>2. ASSUME Above(key, w)
          PROVE  Held(w)'
      <3>1. here \in DOMAIN trie' /\ IsTerminal(here)' /\ Above(trie'[here].name, w)
        BY <1>6, <2>2 DEF IsTerminal
      <3>2. QED
        BY <3>1 DEF Held
    <2>3. ASSUME NEW p \in DOMAIN trie, IsTerminal(p), Above(trie[p].name, w)
          PROVE  Held(w)'
      <3>1. CASE p \in kept
        BY <1>6, <1>7, <2>3, <3>1 DEF Held
      <3>2. CASE p \notin kept
        <4>1. Under(p)
          BY <3>2
        <4>2. /\ p \in Seq(Labels) /\ trie[p].name \in Wildcards /\ trie[p].name \in Seq(Labels)
              /\ Above(p, trie[p].name)
          BY <2>3, WildcardsAreNames DEF TrieInv, NodeOK
        <4>3. CASE here \notin DOMAIN trie
          BY <1>1, <4>1, <4>3, NothingUnder
        <4>4. CASE AtEnd
          <5>1. here = key
            BY <1>2, <4>4, WholePrefix DEF AtEnd
          <5>2. Len(p) >= depth /\ SubSeq(p, 1, depth) = here /\ depth \in 0..Len(p)
            BY <1>2, <1>5, <4>1, <4>2
          <5>3. Above(here, p)
            BY Zenon, <4>2, <5>2, PrefixAbove
          <5>4. Above(key, w)
            BY Zenon, <1>2, <2>1, <2>3, <4>2, <5>1, <5>3, AboveAbove
          <5>5. QED
            BY <2>2, <5>4
        <4>5. QED
          BY <1>1, <4>3, <4>4
      <3>3. QED
        BY <3>1, <3>2
    <2>4. ASSUME NEW j \in DOMAIN inserts, Above(inserts[j].key, w)
          PROVE  Held(w)'
      <3>1. CASE j = 1
        BY <1>2, <2>2, <2>4, <3>1
      <3>2. CASE j # 1
        <4>1. j = 2 /\ Len(inserts) = 2
          <5>1. DOMAIN inserts = 1..Len(inserts)
            BY DEF TrieInv
          <5>2. QED
            BY <1>2, <3>2, <5>1
        <4>2. 1 \in DOMAIN inserts' /\ inserts'[1] = inserts[2]
          BY <1>10, <4>1
        <4>3. QED
          BY <2>4, <4>1, <4>2 DEF Held
      <3>3. QED
        BY <3>1, <3>2
    <2>5. Held(w)
      BY DEF TrieInv
    <2>6. QED
      BY <2>3, <2>4, <2>5 DEF Held
  <1>13. QED
    <2>1. \A p \in DOMAIN trie' : NodeOK(p)'
      BY <1>6, <1>8, <1>9
    <2>2. Len(inserts') <= 2 /\ Len(inserts') # 2
      <3>1. Len(inserts') \in {0, 1}
        BY <1>2, <1>10
      <3>2. QED
        BY <3>1
    <2>3. QED
      BY <1>3, <1>10, <1>11, <1>12, <2>1, <2>2 DEF TrieInv, CallSet

(* What only depends on the trie and the entries stays with them. *)
LEMMA NodesStay ==
  ASSUME trie' = trie, added' = added
  PROVE  /\ Wildcards' = Wildcards /\ CallSet' = CallSet
         /\ \A p : IsParent(p)' = IsParent(p) /\ IsTerminal(p)' = IsTerminal(p)
         /\ \A p : NodeOK(p)' = NodeOK(p)
         /\ \A c : CallOK(c)' = CallOK(c)
  <1>1. Wildcards' = Wildcards
    BY DEF Wildcards, Added
  <1>2. \A p : IsParent(p)' = IsParent(p) /\ IsTerminal(p)' = IsTerminal(p)
    BY DEF IsParent, IsTerminal
  <1>3. QED
    BY <1>1, <1>2 DEF CallSet, NodeOK, CallOK

(* A round of the loop that leaves the trie as it is. *)
LEMMA TrieStays ==
  ASSUME TrieInv, trie' = trie, added' = added,
         inserts' \in Seq(CallSet), Len(inserts') <= 1,
         \A j \in DOMAIN inserts' : CallOK(inserts'[j]),
         \A w \in Wildcards :
           \/ \E p \in DOMAIN trie : IsTerminal(p) /\ Above(trie[p].name, w)
           \/ \E j \in DOMAIN inserts' : Above(inserts'[j].key, w)
  PROVE  TrieInv'
  <1>1. \A p \in DOMAIN trie' : NodeOK(p)'
    BY NodesStay DEF TrieInv
  <1>2. ASSUME NEW j \in DOMAIN inserts'
        PROVE  CallOK(inserts[j])'
    <2>1. PICK c : c = inserts'[j]
      OBVIOUS
    <2>2. CallOK(c)'
      BY <2>1, NodesStay
    <2>3. QED
      BY <2>1, <2>2 DEF CallOK
  <1>3. \A w \in Wildcards' : Held(w)'
    BY NodesStay DEF Held
  <1>4. inserts' \in Seq([key : Wildcards', depth : Nat])
    BY NodesStay DEF CallSet
  <1>5. Len(inserts') <= 2 /\ Len(inserts') # 2
    <2>1. \A n \in Nat : n <= 1 => n <= 2 /\ n # 2
      OBVIOUS
    <2>2. Len(inserts') \in Nat
      OBVIOUS
    <2>3. QED
      BY <2>1, <2>2
  <1>6. QED
    BY <1>1, <1>2, <1>3, <1>4, <1>5 DEF TrieInv

(* The call goes on at the child. *)
LEMMA InsertGoesDownKeeps ==
  ASSUME added \subseteq Entries, TrieInv, InsertGoesDown, added' = added
  PROVE  TrieInv'
  <1> DEFINE call == Call(Running.key, Running.depth + 1)
  <1>1. inserts # <<>> /\ IsParent(Child) /\ ~AtEnd /\ trie' = trie
        /\ inserts' = <<call>> \o Tail(inserts)
    BY DEF InsertGoesDown
  <1>2. /\ CallOK(Running) /\ Running.key \in Wildcards
        /\ Running.key \in Seq(Labels) /\ Running.depth \in 1..Len(Running.key)
    BY <1>1, RunningCall
  <1>3. CallOK(call) /\ call \in CallSet /\ call.key = Running.key
    <2>1. Running.depth \in Nat /\ Running.depth + 1 \in 1..Len(Running.key)
      BY <1>1, <1>2 DEF AtEnd
    <2>2. \A i \in 1..Running.depth : IsParent(SubSeq(Running.key, 1, i))
      BY <1>1, <1>2 DEF CallOK, Child
    <2>3. QED
      BY <1>2, <2>1, <2>2 DEF CallOK, Call, CallSet
  <1>4. Len(inserts) = 1 /\ Tail(inserts) = <<>> /\ \A j \in DOMAIN inserts : j = 1
    BY <1>1, OneCall DEF IsParent
  <1> HIDE DEF call
  <1>5. inserts' = <<call>>
    BY <1>1, <1>4, NoMoreCalls, Zenon
  <1>6. /\ inserts' \in Seq(CallSet) /\ Len(inserts') <= 1
        /\ DOMAIN inserts' = {1} /\ inserts'[1] = call
    BY <1>3, <1>5
  <1>7. ASSUME NEW w \in Wildcards
        PROVE  \/ \E p \in DOMAIN trie : IsTerminal(p) /\ Above(trie[p].name, w)
               \/ \E j \in DOMAIN inserts' : Above(inserts'[j].key, w)
    <2>1. Held(w) /\ Running = inserts[1]
      BY <1>1, RunningCall DEF TrieInv
    <2>2. QED
      BY <1>3, <1>4, <1>6, <2>1 DEF Held
  <1>8. \A j \in DOMAIN inserts' : CallOK(inserts'[j])
    BY <1>3, <1>6
  <1>9. QED
    BY <1>1, <1>6, <1>7, <1>8, TrieStays

(* The key has a parent in the trie, and so have all names that it         *)
(* matches.                                                                *)
LEMMA InsertCoveredKeeps ==
  ASSUME added \subseteq Entries, TrieInv, InsertCovered, added' = added
  PROVE  TrieInv'
  <1>1. inserts # <<>> /\ IsTerminal(Child) /\ trie' = trie /\ inserts' = Tail(inserts)
        /\ TerminalHasParentOf(trie[Child].name, Running.key, Running.depth + 1)
    BY DEF InsertCovered
  <1>2. /\ Running = inserts[1] /\ Running.key \in Wildcards /\ Running.key \in Seq(Labels)
        /\ Running.depth \in 1..Len(Running.key) /\ Len(Child) = Running.depth
        /\ \A i \in 1..Running.depth : Child[i] = Running.key[i]
    BY <1>1, RunningCall
  <1>3. Tail(inserts) = <<>> /\ \A j \in DOMAIN inserts : j = 1
    BY <1>1, OneCall DEF IsTerminal
  <1> DEFINE name == trie[Child].name
  <1>4. name \in Wildcards /\ name \in Seq(Labels) /\ Above(Child, name)
    BY <1>1, WildcardsAreNames DEF TrieInv, NodeOK, IsTerminal
  <1>5. Above(name, Running.key)
    <2> HIDE DEF name
    <2>1. Len(name) \in Nat /\ Running.depth \in Nat /\ Len(Running.key) \in Nat
          /\ Running.depth <= Len(Running.key)
      BY <1>2, <1>4
    <2>2. TerminalHasParentOf(name, Running.key, Running.depth + 1)
      BY <1>1 DEF name
    <2>3. \A i \in 1..Len(name) : i <= Len(Running.key) /\ name[i] = Running.key[i]
      BY <1>2, <1>4, <2>1, <2>2 DEF Above, TerminalHasParentOf
    <2>4. QED
      BY <2>1, <2>3 DEF Above
  <1>6. inserts' \in Seq(CallSet) /\ Len(inserts') <= 1 /\ DOMAIN inserts' = {}
    <2>1. inserts' \in Seq(CallSet) /\ Len(inserts') = 0 /\ DOMAIN inserts' = {}
      BY <1>1, <1>3, NoMoreCalls, Zenon
    <2>2. QED
      BY <2>1
  <1>7. ASSUME NEW w \in Wildcards
        PROVE  \E p \in DOMAIN trie : IsTerminal(p) /\ Above(trie[p].name, w)
    <2>1. Held(w) /\ w \in Seq(Labels)
      BY WildcardsAreNames DEF TrieInv
    <2>2. CASE Above(Running.key, w)
      <3>1. Above(name, w)
        BY <1>2, <1>4, <1>5, <2>1, <2>2, AboveAbove
      <3>2. QED
        BY <1>1, <3>1 DEF IsTerminal
    <2>3. QED
      BY <1>2, <1>3, <2>1, <2>2 DEF Held
  <1>8. QED
    BY <1>1, <1>6, <1>7, TrieStays

(* A parent takes the place of a terminal. Until both calls are done the   *)
(* two wildcards are held by them.                                         *)
LEMMA InsertSplitsKeeps ==
  ASSUME added \subseteq Entries, TrieInv, InsertSplits, added' = added
  PROVE  TrieInv'
  <1> PICK here, key, name, depth, one, two :
        /\ here = Child /\ key = Running.key /\ depth = Running.depth
        /\ name = trie[Child].name
        /\ one = Call(name, depth + 1) /\ two = Call(key, depth + 1)
    OBVIOUS
  <1>1. /\ inserts # <<>> /\ IsTerminal(here) /\ ~AtEnd
        /\ ~TerminalHasParentOf(name, key, depth + 1)
        /\ trie' = [trie EXCEPT ![here] = Parent]
        /\ inserts' = <<one, two>> \o Tail(inserts)
    BY DEF InsertSplits
  <1>2. /\ key \in Wildcards /\ key \in Seq(Labels) /\ depth \in 1..Len(key) /\ CallOK(Running)
        /\ here \in Seq(Labels) /\ Len(here) = depth /\ Above(here, key)
    BY <1>1, RunningCall
  <1>3. Tail(inserts) = <<>> /\ \A j \in DOMAIN inserts : j = 1
    BY <1>1, OneCall DEF IsTerminal
  <1>4. name \in Wildcards /\ name \in Seq(Labels) /\ Above(here, name)
    BY <1>1, WildcardsAreNames DEF TrieInv, NodeOK, IsTerminal
  <1>5. depth + 1 \in 1..Len(name) /\ depth + 1 \in 1..Len(key) /\ depth \in Nat
    <2>1. depth \in Nat /\ Len(name) \in Nat /\ Len(key) \in Nat /\ depth <= Len(name)
      BY <1>2, <1>4 DEF Above
    <2>2. depth # Len(key)
      BY <1>1 DEF AtEnd
    <2>3. \E i \in (depth + 1)..Len(name) : TRUE
      BY <1>1 DEF TerminalHasParentOf
    <2>4. QED
      BY <1>2, <2>1, <2>2, <2>3
  <1>6. /\ Wildcards' = Wildcards /\ CallSet' = CallSet
    BY DEF Wildcards, Added, CallSet
  <1>7. /\ DOMAIN trie' = DOMAIN trie /\ here \in DOMAIN trie
        /\ \A p \in DOMAIN trie : p # here => trie'[p] = trie[p]
        /\ trie'[here] = Parent
    BY <1>1 DEF IsTerminal
  <1>8. /\ \A p : IsParent(p) => IsParent(p)'
        /\ \A p : p # here => IsTerminal(p)' = IsTerminal(p)
        /\ IsParent(here)' /\ ~IsTerminal(here)'
    BY <1>1, <1>7 DEF IsParent, IsTerminal, Parent
  <1>9. ASSUME NEW p \in DOMAIN trie'
        PROVE  NodeOK(p)'
    <2>1. NodeOK(p)
      BY <1>7 DEF TrieInv
    <2>2. IsTerminal(p)' => IsTerminal(p) /\ trie'[p] = trie[p]
      BY <1>7, <1>8
    <2>3. QED
      BY <1>6, <1>8, <2>1, <2>2 DEF NodeOK
  <1>10. /\ inserts' = <<one, two>>
         /\ one \in CallSet /\ two \in CallSet
         /\ one.key = name /\ one.depth = depth + 1 /\ two.key = key /\ two.depth = depth + 1
    <2>1. inserts' = <<one, two>>
      BY <1>1, <1>3, NoMoreCalls, Zenon
    <2>2. QED
      BY <1>2, <1>4, <1>5, <2>1 DEF Call, CallSet
  <1>11. /\ inserts' \in Seq(CallSet) /\ Len(inserts') = 2 /\ DOMAIN inserts' = {1, 2}
         /\ inserts'[1] = one /\ inserts'[2] = two /\ Head(inserts') = one
    BY <1>10
  <1>12. \A i \in 1..depth : IsParent(SubSeq(key, 1, i))' /\ SubSeq(name, 1, i) = SubSeq(key, 1, i)
    <2>1. ASSUME NEW i \in 1..depth
          PROVE  IsParent(SubSeq(key, 1, i))' /\ SubSeq(name, 1, i) = SubSeq(key, 1, i)
      <3>1. i \in 0..Len(here) /\ i \in Nat
        BY <1>2
      <3>2. SubSeq(key, 1, i) = SubSeq(here, 1, i) /\ SubSeq(name, 1, i) = SubSeq(here, 1, i)
        BY <1>2, <1>4, <3>1, AbovePrefix
      <3>3. CASE i = depth
        BY Zenon, <1>2, <1>8, <3>2, <3>3, WholePrefix
      <3>4. CASE i # depth
        <4>1. i \in 1..(depth - 1)
          BY <1>2, <3>1, <3>4
        <4>2. IsParent(SubSeq(key, 1, i))
          BY <1>2, <4>1 DEF CallOK
        <4>3. QED
          BY <1>8, <3>2, <4>2
      <3>5. QED
        BY <3>3, <3>4
    <2>2. QED
      BY <2>1
  <1>13. CallOK(one)' /\ CallOK(two)'
    <2>1. \A i \in 1..(depth + 1 - 1) : i \in 1..depth
      BY <1>5
    <2>2. \A i \in 1..(depth + 1 - 1) :
            IsParent(SubSeq(key, 1, i))' /\ IsParent(SubSeq(name, 1, i))'
      BY Zenon, <1>12, <2>1
    <2>3. QED
      BY <1>5, <1>6, <1>10, <2>2 DEF CallOK, CallSet
  <1>14. ASSUME NEW j \in DOMAIN inserts'
         PROVE  CallOK(inserts[j])'
    <2>1. inserts'[j] = one \/ inserts'[j] = two
      BY <1>11
    <2>2. QED
      BY <1>13, <2>1 DEF CallOK
  <1>15. Child' \notin DOMAIN trie'
    <2> DEFINE below == SubSeq(name, 1, depth + 1)
    <2>1. Child' = below
      BY Zenon, <1>10, <1>11 DEF Child, Running
    <2>2. SUFFICES ASSUME below \in DOMAIN trie
                   PROVE  FALSE
      BY <1>7, <2>1
    <2>3. depth + 1 \in 0..Len(name) /\ depth \in 0..(depth + 1)
      BY <1>5
    <2>4. below \in Seq(Labels) /\ Len(below) = depth + 1
      BY <1>4, <2>3, PrefixLabels
    <2>5. SubSeq(below, 1, depth) = SubSeq(name, 1, depth)
      BY <1>4, <2>3, PrefixOfPrefix
    <2>6. SubSeq(name, 1, depth) = here
      <3>1. depth \in 0..Len(here)
        BY <1>2
      <3>2. QED
        BY <1>2, <1>4, <3>1, AbovePrefix, WholePrefix
    <2>7. Under(below)
      BY <1>2, <1>5, <2>4, <2>5, <2>6 DEF Under
    <2>8. below = here
      BY Zenon, <1>1, <2>2, <2>7, NothingUnder
    <2>9. QED
      BY <1>2, <1>5, <2>4, <2>8
  <1>16. ASSUME NEW w \in Wildcards
         PROVE  Held(w)'
    <2>1. Held(w)
      BY DEF TrieInv
    <2>2. CASE \E j \in DOMAIN inserts : Above(inserts[j].key, w)
      <3>1. Above(key, w)
        BY <1>1, <1>3, <2>2, RunningCall
      <3>2. QED
        BY <1>10, <1>11, <3>1 DEF Held
    <2>3. CASE \E p \in DOMAIN trie : IsTerminal(p) /\ Above(trie[p].name, w)
      <3>1. PICK p \in DOMAIN trie : IsTerminal(p) /\ Above(trie[p].name, w)
        BY <2>3
      <3>2. CASE p = here
        BY <1>10, <1>11, <3>1, <3>2 DEF Held
      <3>3. CASE p # here
        BY <1>7, <1>8, <3>1, <3>3 DEF Held
      <3>4. QED
        BY <3>2, <3>3
    <2>4. QED
      BY <2>1, <2>2, <2>3 DEF Held
  <1>17. QED
    <2>1. inserts' \in Seq([key : Wildcards', depth : Nat]) /\ Len(inserts') <= 2
      BY <1>6, <1>11 DEF CallSet
    <2>2. QED
      BY <1>6, <1>9, <1>14, <1>15, <1>16, <2>1 DEF TrieInv

-----------------------------------------------------------------------------
(* A set of numbers that is not empty has a least one. *)
LEMMA LeastOne ==
  ASSUME NEW S, S \subseteq Nat, S # {}
  PROVE  \E x \in S : \A y \in S : x <= y
  <1>1. PICK x \in S : \A y \in S : ~(<<y, x>> \in OpToRel(<, Nat))
    BY Zenon, WFMin, NatLessThanWellFounded
  <1>2. \A y \in S : ~(y < x)
    BY Zenon, <1>1 DEF OpToRel
  <1>3. QED
    BY <1>2

(* A bucket in order. *)
Sorted(bucket) ==
  /\ bucket \in Seq(Domains)
  /\ \A i, j \in DOMAIN bucket : i < j => Rank[bucket[i]] < Rank[bucket[j]]

(* What sort.Search returns in a bucket in order, from its contract: all   *)
(* names before the index are before n and none after it is.               *)
LEMMA SearchFinds ==
  ASSUME NEW bucket, Sorted(bucket), NEW n \in Domains
  PROVE  /\ Search(bucket, n) \in 0..Len(bucket)
         /\ \A i \in 1..Search(bucket, n) : Rank[bucket[i]] < Rank[n]
         /\ \A i \in (Search(bucket, n) + 1)..Len(bucket) : Rank[bucket[i]] >= Rank[n]
  <1>1. bucket \in Seq(Domains) /\ Len(bucket) \in Nat /\ DOMAIN bucket = 1..Len(bucket)
    BY DEF Sorted
  <1> PICK len \in Nat : len = Len(bucket)
    BY Zenon, <1>1
  <1>2. /\ Rank[n] \in Nat
        /\ \A i \in 1..len : Rank[bucket[i]] \in Nat
    BY <1>1, StringsAssumption
  <1> DEFINE After == {k \in 0..len : k = len \/ Rank[bucket[k + 1]] >= Rank[n]}
             Found(ix) == /\ ix = 0 \/ Rank[bucket[ix]] < Rank[n]
                          /\ ix = len \/ Rank[bucket[ix + 1]] >= Rank[n]
  <1>3. PICK ix \in After : \A k \in After : ix <= k
    <2>1. len \in After /\ After \subseteq Nat
      BY <1>1
    <2>2. QED
      BY Zenon, <2>1, LeastOne
  <1>4. ix \in 0..len /\ Found(ix)
    <2>1. ix \in Nat /\ ix <= len
      BY <1>1, <1>3
    <2>2. ASSUME ix # 0
          PROVE  Rank[bucket[ix]] < Rank[n]
      <3>1. ix - 1 \in 0..len /\ ix - 1 # len /\ (ix - 1) + 1 = ix /\ ix \in 1..len
        BY <2>1, <2>2
      <3>2. ~(ix - 1 \in After)
        <4>1. ~(ix <= ix - 1)
          BY <2>1
        <4>2. QED
          BY Zenon, <1>3, <4>1
      <3>3. ~(Rank[bucket[ix]] >= Rank[n])
        BY <3>1, <3>2
      <3>4. QED
        BY <1>2, <3>1, <3>3
    <2>3. QED
      BY <1>3, <2>2
  <1> DEFINE at == Search(bucket, n)
  <1>5. at \in 0..len /\ Found(at)
    BY <1>4 DEF Search
  <1> HIDE DEF at
  <1>6. \A i \in 1..at : Rank[bucket[i]] < Rank[n]
    <2> SUFFICES ASSUME NEW i \in 1..at PROVE Rank[bucket[i]] < Rank[n]
      OBVIOUS
    <2>1. at # 0 /\ at \in 1..len /\ i \in 1..len /\ Rank[bucket[at]] < Rank[n]
      BY <1>5
    <2>2. CASE i = at
      BY <2>1, <2>2
    <2>3. CASE i < at
      <3>1. Rank[bucket[i]] < Rank[bucket[at]]
        BY <1>1, <2>1, <2>3 DEF Sorted
      <3>2. QED
        BY <1>2, <2>1, <3>1
    <2>4. QED
      BY <2>1, <2>2, <2>3
  <1>7. \A i \in (at + 1)..len : Rank[bucket[i]] >= Rank[n]
    <2> SUFFICES ASSUME NEW i \in (at + 1)..len PROVE Rank[bucket[i]] >= Rank[n]
      OBVIOUS
    <2>1. at # len /\ at + 1 \in 1..len /\ i \in 1..len
          /\ Rank[bucket[at + 1]] >= Rank[n]
      BY <1>5
    <2>2. CASE i = at + 1
      BY <2>1, <2>2
    <2>3. CASE at + 1 < i
      <3>1. Rank[bucket[at + 1]] < Rank[bucket[i]]
        BY <1>1, <2>1, <2>3 DEF Sorted
      <3>2. QED
        BY <1>2, <2>1, <3>1
    <2>4. QED
      BY <1>5, <2>1, <2>2, <2>3
  <1>8. QED
    BY <1>5, <1>6, <1>7 DEF at

(* The lookup in a bucket in order finds n exactly if it is there. *)
LEMMA FoundIffThere ==
  ASSUME NEW bucket, Sorted(bucket), NEW n \in Domains
  PROVE  FoundAt(bucket, n, Search(bucket, n)) <=> \E i \in DOMAIN bucket : bucket[i] = n
  <1> DEFINE at == Search(bucket, n)
  <1>1. bucket \in Seq(Domains) /\ Len(bucket) \in Nat /\ DOMAIN bucket = 1..Len(bucket)
    BY DEF Sorted
  <1>2. /\ Rank[n] \in Nat
        /\ \A i \in 1..Len(bucket) : Rank[bucket[i]] \in Nat /\ bucket[i] \in Domains
    BY <1>1, StringsAssumption
  <1>3. /\ at \in 0..Len(bucket)
        /\ \A i \in 1..at : Rank[bucket[i]] < Rank[n]
        /\ \A i \in (at + 1)..Len(bucket) : Rank[bucket[i]] >= Rank[n]
    BY SearchFinds
  <1> HIDE DEF at
  <1>4. ASSUME FoundAt(bucket, n, at)
        PROVE  \E i \in DOMAIN bucket : bucket[i] = n
    <2>1. at + 1 \in DOMAIN bucket /\ bucket[at + 1] = n
      BY <1>1, <1>3, <1>4 DEF FoundAt
    <2>2. QED
      BY <2>1
  <1>5. ASSUME NEW i \in DOMAIN bucket, bucket[i] = n
        PROVE  FoundAt(bucket, n, at)
    <2>1. i \in (at + 1)..Len(bucket)
      BY <1>1, <1>2, <1>3, <1>5
    <2>2. at + 1 \in 1..Len(bucket) /\ at < Len(bucket) /\ Rank[bucket[at + 1]] >= Rank[n]
      BY <1>1, <1>3, <2>1
    <2>3. i = at + 1
      <3>1. SUFFICES ASSUME at + 1 < i PROVE FALSE
        BY <1>1, <1>3, <2>1
      <3>2. Rank[bucket[at + 1]] < Rank[bucket[i]]
        BY <1>1, <2>1, <2>2, <3>1 DEF Sorted
      <3>3. QED
        BY <1>2, <1>5, <2>2, <3>2
    <2>4. QED
      BY <1>5, <2>2, <2>3 DEF FoundAt
  <1>6. QED
    BY <1>4, <1>5 DEF at

(* r is a, then x, then c. *)
Splice(r, a, x, c) ==
  /\ Len(r) = Len(a) + 1 + Len(c)
  /\ \A i \in 1..Len(a) : r[i] = a[i]
  /\ r[Len(a) + 1] = x
  /\ \A i \in (Len(a) + 2)..(Len(a) + 1 + Len(c)) : r[i] = c[i - (Len(a) + 1)]

(* Concatenation, in these terms. *)
LEMMA Spliced ==
  ASSUME NEW S, NEW a \in Seq(S), NEW x \in S, NEW c \in Seq(S),
         NEW r, r = a \o <<x>> \o c
  PROVE  r \in Seq(S) /\ Splice(r, a, x, c)
  BY DEF Splice

(* The two parts of a sequence. *)
LEMMA CutFrom ==
  ASSUME NEW S, NEW s \in Seq(S), NEW k \in Nat, k <= Len(s)
  PROVE  /\ SubSeq(s, 1, k) \in Seq(S) /\ Len(SubSeq(s, 1, k)) = k
         /\ \A i \in 1..k : SubSeq(s, 1, k)[i] = s[i]
         /\ SubSeq(s, k + 1, Len(s)) \in Seq(S) /\ Len(SubSeq(s, k + 1, Len(s))) = Len(s) - k
         /\ \A i \in 1..(Len(s) - k) : SubSeq(s, k + 1, Len(s))[i] = s[k + i]
  OBVIOUS

(* The names of a bucket, and one more. *)
Joined(new, old, n) ==
  \A m : (\E i \in DOMAIN new : new[i] = m) <=> m = n \/ \E i \in DOMAIN old : old[i] = m

(* insertString keeps a bucket in order, and adds the name only. *)
LEMMA InsertedBucket ==
  ASSUME NEW bucket, Sorted(bucket), NEW n \in Domains,
         NEW result, result = InsertString(bucket, n)
  PROVE  Sorted(result) /\ Joined(result, bucket, n)
  <1> DEFINE at == Search(bucket, n)
             new == SubSeq(bucket, 1, at) \o <<n>> \o SubSeq(bucket, at + 1, Len(bucket))
  <1>1. bucket \in Seq(Domains) /\ Len(bucket) \in Nat /\ DOMAIN bucket = 1..Len(bucket)
    BY DEF Sorted
  <1>2. /\ Rank[n] \in Nat
        /\ \A i \in 1..Len(bucket) : Rank[bucket[i]] \in Nat /\ bucket[i] \in Domains
    BY <1>1, StringsAssumption
  <1>3. /\ at \in 0..Len(bucket) /\ at \in Nat
        /\ \A i \in 1..at : Rank[bucket[i]] < Rank[n]
        /\ \A i \in (at + 1)..Len(bucket) : Rank[bucket[i]] >= Rank[n]
    BY <1>1, SearchFinds
  <1>4. CASE FoundAt(bucket, n, at)
    <2>1. result = bucket
      BY <1>4 DEF InsertString
    <2>2. QED
      BY <1>4, <2>1, FoundIffThere DEF Joined
  <1>5. CASE ~FoundAt(bucket, n, at)
    <2>1. result = new
      BY Zenon, <1>5 DEF InsertString
    <2>2. \A i \in (at + 1)..Len(bucket) : Rank[bucket[i]] > Rank[n]
      <3> SUFFICES ASSUME NEW i \in (at + 1)..Len(bucket) PROVE Rank[bucket[i]] > Rank[n]
        OBVIOUS
      <3>1. i \in 1..Len(bucket) /\ Rank[bucket[i]] >= Rank[n]
        BY <1>1, <1>3
      <3>2. bucket[i] # n
        BY <1>1, <1>5, <3>1, FoundIffThere
      <3>3. Rank[bucket[i]] # Rank[n]
        BY <1>2, <3>1, <3>2, StringsAssumption
      <3>4. QED
        BY <1>2, <3>1, <3>3
    <2> HIDE DEF at
    <2>3. /\ new \in Seq(Domains) /\ Len(new) = Len(bucket) + 1 /\ DOMAIN new = 1..(Len(bucket) + 1)
          /\ \A i \in 1..at : new[i] = bucket[i]
          /\ new[at + 1] = n
          /\ \A i \in (at + 2)..(Len(bucket) + 1) : new[i] = bucket[i - 1]
      <3> DEFINE a == SubSeq(bucket, 1, at)
                 c == SubSeq(bucket, at + 1, Len(bucket))
      <3>1. /\ a \in Seq(Domains) /\ Len(a) = at /\ \A i \in 1..at : a[i] = bucket[i]
            /\ c \in Seq(Domains) /\ Len(c) = Len(bucket) - at
            /\ \A i \in 1..(Len(bucket) - at) : c[i] = bucket[at + i]
        <4>1. at <= Len(bucket)
          BY <1>1, <1>3
        <4>2. QED
          BY <1>1, <1>3, <4>1, CutFrom, Zenon
      <3> HIDE DEF a, c
      <3>2. new \in Seq(Domains) /\ Splice(new, a, n, c)
        <4>1. new = a \o <<n>> \o c
          BY DEF a, c
        <4>2. QED
          BY <3>1, <4>1, Spliced, Zenon
      <3> HIDE DEF new
      <3>3. Len(new) = Len(bucket) + 1 /\ DOMAIN new = 1..Len(new)
        BY <1>1, <1>3, <3>1, <3>2 DEF Splice
      <3>4. ASSUME NEW i \in (at + 2)..(Len(bucket) + 1)
            PROVE  new[i] = bucket[i - 1]
        <4>1. i - (at + 1) \in 1..(Len(bucket) - at) /\ at + (i - (at + 1)) = i - 1
          BY <1>1, <1>3
        <4>2. new[i] = c[i - (at + 1)]
          BY <1>1, <1>3, <3>1, <3>2 DEF Splice
        <4>3. QED
          BY <3>1, <4>1, <4>2
      <3>5. QED
        BY <3>1, <3>2, <3>3, <3>4 DEF Splice
    <2> HIDE DEF new
    <2>4. Sorted(new)
      <3>1. ASSUME NEW i \in DOMAIN new, NEW j \in DOMAIN new, i < j
            PROVE  Rank[new[i]] < Rank[new[j]]
        <4>1. i \in Nat /\ j \in Nat /\ i >= 1 /\ j <= Len(bucket) + 1
          BY <1>1, <2>3
        <4>2. CASE j <= at
          BY <1>1, <1>3, <2>3, <3>1, <4>1, <4>2 DEF Sorted
        <4>3. CASE j = at + 1
          BY <1>1, <1>3, <2>3, <3>1, <4>1, <4>3
        <4>4. CASE j > at + 1
          <5>1. /\ new[j] = bucket[j - 1]
                /\ j - 1 \in 1..Len(bucket) /\ j - 1 \in (at + 1)..Len(bucket)
            BY <1>1, <1>3, <2>3, <4>1, <4>4
          <5>2. CASE i <= at
            BY <1>1, <1>3, <2>3, <3>1, <4>1, <4>4, <5>1, <5>2 DEF Sorted
          <5>3. CASE i = at + 1
            BY <2>2, <2>3, <5>1, <5>3
          <5>4. CASE i > at + 1
            <6>1. new[i] = bucket[i - 1] /\ i - 1 \in 1..Len(bucket) /\ i - 1 < j - 1
              BY <1>1, <1>3, <2>3, <3>1, <4>1, <5>4
            <6>2. QED
              BY <1>1, <5>1, <6>1 DEF Sorted
          <5>5. QED
            BY <1>3, <4>1, <5>2, <5>3, <5>4
        <4>5. QED
          BY <1>3, <4>1, <4>2, <4>3, <4>4
      <3>2. QED
        BY <2>3, <3>1 DEF Sorted
    <2>5. ASSUME NEW i \in DOMAIN new
          PROVE  new[i] = n \/ \E k \in DOMAIN bucket : bucket[k] = new[i]
      <3>1. CASE i <= at
        BY <1>1, <1>3, <2>3, <3>1
      <3>2. CASE i = at + 1
        BY <2>3, <3>2
      <3>3. CASE i > at + 1
        <4>1. i - 1 \in DOMAIN bucket /\ new[i] = bucket[i - 1]
          BY <1>1, <1>3, <2>3, <3>3
        <4>2. QED
          BY <4>1
      <3>4. QED
        BY <1>3, <2>3, <3>1, <3>2, <3>3
    <2>6. ASSUME NEW k \in DOMAIN bucket
          PROVE  \E i \in DOMAIN new : new[i] = bucket[k]
      <3>1. CASE k <= at
        BY <1>1, <1>3, <2>3, <3>1
      <3>2. CASE k > at
        <4>1. k + 1 \in DOMAIN new /\ new[k + 1] = bucket[k]
          BY <1>1, <1>3, <2>3, <3>2
        <4>2. QED
          BY <4>1
      <3>3. QED
        BY <1>1, <1>3, <3>1, <3>2
    <2>7. at + 1 \in DOMAIN new /\ new[at + 1] = n
      BY <1>1, <1>3, <2>3
    <2>8. QED
      BY <2>1, <2>4, <2>5, <2>6, <2>7 DEF Joined
  <1>6. QED
    BY <1>4, <1>5

-----------------------------------------------------------------------------
(* A new list has no entries. *)
LEMMA StringsBegin ==
  StringsInit => StringsInv
  <1> SUFFICES ASSUME StringsInit
               PROVE  StringsInv
    OBVIOUS
  <1>1. /\ regexes = {} /\ trie = <<>> /\ inserts = <<>> /\ added = {}
        /\ buckets = [l \in Lengths |-> <<>>]
    BY DEF StringsInit
  <1>2. Wildcards = {} /\ Added("name") = {}
    BY <1>1 DEF Wildcards, Added
  <1>3. TrieInv
    <2>1. DOMAIN trie = {} /\ DOMAIN inserts = {} /\ Len(inserts) = 0
          /\ inserts \in Seq([key : Wildcards, depth : Nat])
      BY <1>1
    <2>2. QED
      BY <1>2, <2>1 DEF TrieInv
  <1>4. ASSUME NEW l \in Lengths
        PROVE  BucketOK(buckets[l], l)
    <2>1. buckets[l] = <<>>
      BY <1>1
    <2>2. buckets[l] \in Seq(Domains) /\ DOMAIN buckets[l] = {}
      BY <2>1
    <2>3. QED
      BY <1>2, <2>2 DEF BucketOK
  <1>5. QED
    BY <1>1, <1>3, <1>4 DEF StringsInv

(* insert of the trie, round by round. *)
LEMMA InsertKeeps ==
  ASSUME StringsInv, Insert
  PROVE  StringsInv'
  <1>1. UNCHANGED <<regexes, buckets, added>> /\ added \subseteq Entries /\ TrieInv
    BY DEF Insert, StringsInv
  <1>2. TrieInv'
    BY <1>1, InsertTerminalKeeps, InsertGoesDownKeeps, InsertCoveredKeeps, InsertSplitsKeeps
       DEF Insert
  <1>3. Added("name")' = Added("name") /\ Lengths' = Lengths
    BY <1>1 DEF Added, Lengths
  <1>4. \A l \in Lengths' : BucketOK(buckets[l], l)'
    BY <1>1, <1>3 DEF StringsInv, BucketOK
  <1>5. QED
    BY <1>1, <1>2, <1>3, <1>4 DEF StringsInv

(* What an entry adds to the names of a form. *)
LEMMA AddedGrows ==
  ASSUME added \subseteq Entries, NEW e \in Entries, added' = added \cup {e}, NEW form
  PROVE  Added(form)' = Added(form) \cup
                        (IF e.form = form /\ e.valid THEN {Lower[e.name]} ELSE {})
  BY DEF Added

(* An entry that is no wildcard leaves the trie alone. *)
LEMMA TrieUntouched ==
  ASSUME TrieInv, UNCHANGED <<trie, inserts>>, Wildcards' = Wildcards
  PROVE  TrieInv'
  <1>1. \A p : IsParent(p)' = IsParent(p) /\ IsTerminal(p)' = IsTerminal(p)
    BY DEF IsParent, IsTerminal
  <1>2. \A p : NodeOK(p)' = NodeOK(p)
    BY <1>1 DEF NodeOK
  <1>3. \A c : CallOK(c)' = CallOK(c)
    BY <1>1 DEF CallOK
  <1>4. \A w : Held(w)' = Held(w)
    BY <1>1 DEF Held
  <1>5. Child' = Child
    BY DEF Child, Running
  <1>6. ASSUME NEW j \in DOMAIN inserts'
        PROVE  CallOK(inserts[j])'
    <2>1. PICK c : c = inserts[j] /\ c = inserts'[j]
      OBVIOUS
    <2>2. CallOK(c)'
      BY <1>3, <2>1 DEF TrieInv
    <2>3. QED
      BY <2>1, <2>2 DEF CallOK
  <1>7. QED
    BY <1>2, <1>4, <1>5, <1>6 DEF TrieInv

(* An entry that is no name leaves the buckets alone. *)
LEMMA BucketsUntouched ==
  ASSUME StringsInv, buckets' = buckets, Added("name")' = Added("name")
  PROVE  DOMAIN buckets' = Lengths' /\ \A l \in Lengths' : BucketOK(buckets[l], l)'
  <1>1. Lengths' = Lengths
    BY DEF Lengths
  <1>2. QED
    BY <1>1 DEF StringsInv, BucketOK

(* addEntry of the regexes. *)
LEMMA AddRegexKeeps ==
  ASSUME StringsInv, NEW e \in Entries, AddEntry(e), AddRegex(e)
  PROVE  StringsInv'
  <1>1. /\ added \subseteq Entries /\ added' = added \cup {e} /\ e.form = "regex"
        /\ UNCHANGED <<trie, inserts, buckets>>
        /\ regexes' = IF e.valid THEN regexes \cup {e.matches} ELSE regexes
    BY DEF StringsInv, AddEntry, AddRegex
  <1>2. Added("name")' = Added("name") /\ Added("wildcard")' = Added("wildcard")
    BY Zenon, <1>1, AddedGrows
  <1>3. Wildcards' = Wildcards
    BY <1>2 DEF Wildcards
  <1>4. TrieInv'
    BY <1>1, <1>3, TrieUntouched DEF StringsInv
  <1>5. regexes' = {f.matches : f \in {g \in added' : g.form = "regex" /\ g.valid}}
    BY <1>1 DEF StringsInv
  <1>6. QED
    BY <1>1, <1>2, <1>4, <1>5, BucketsUntouched DEF StringsInv

(* An entry that is no regex leaves the regexes alone. *)
LEMMA RegexesUntouched ==
  ASSUME StringsInv, NEW e \in Entries, added' = added \cup {e}, e.form # "regex",
         regexes' = regexes
  PROVE  regexes' = {f.matches : f \in {g \in added' : g.form = "regex" /\ g.valid}}
  <1>1. {g \in added' : g.form = "regex" /\ g.valid} = {g \in added : g.form = "regex" /\ g.valid}
    OBVIOUS
  <1>2. QED
    BY <1>1 DEF StringsInv

(* addEntry of the wildcards: the call of insert holds the new one. *)
LEMMA AddWildcardKeeps ==
  ASSUME StringsInv, NEW e \in Entries, AddEntry(e), AddWildcard(e)
  PROVE  StringsInv'
  <1> PICK name : name = Lower[e.name]
    OBVIOUS
  <1>1. /\ added \subseteq Entries /\ added' = added \cup {e} /\ e.form = "wildcard"
        /\ UNCHANGED <<regexes, trie, buckets>> /\ inserts = <<>>
        /\ inserts' = IF e.valid /\ name # <<>> THEN <<Call(name, 1)>> ELSE <<>>
    BY DEF StringsInv, AddEntry, AddWildcard
  <1>2. /\ Added("name")' = Added("name")
        /\ Added("wildcard")' = Added("wildcard") \cup (IF e.valid THEN {name} ELSE {})
    BY Zenon, <1>1, AddedGrows
  <1>3. regexes' = {f.matches : f \in {g \in added' : g.form = "regex" /\ g.valid}}
    BY <1>1, RegexesUntouched
  <1>4. TrieInv'
    <2>1. CASE ~(e.valid /\ name # <<>>)
      <3>1. Wildcards' = Wildcards /\ inserts' = inserts
        BY <1>1, <1>2, <2>1 DEF Wildcards
      <3>2. QED
        BY <1>1, <3>1, TrieUntouched DEF StringsInv
    <2>2. CASE e.valid /\ name # <<>>
      <3>1. Wildcards' = Wildcards \cup {name}
        BY <1>2, <2>2 DEF Wildcards
      <3>2. PICK call : call = Call(name, 1) /\ inserts' = <<call>>
        BY <1>1, <2>2
      <3>3. added' \subseteq Entries
        BY <1>1
      <3>4. name \in Seq(Labels) /\ Len(name) >= 1
        <4>1. name \in Domains
          <5>1. e.name \in DOMAIN Lower
            BY <1>1, StringsAssumption DEF Entry
          <5>2. QED
            BY <2>2, <5>1, StringsAssumption
        <4>2. QED
          BY <1>1, <4>1, WildcardsAreNames
      <3>5. call \in [key : Wildcards', depth : Nat] /\ call.key = name /\ call.depth = 1
        BY <3>1, <3>2 DEF Call
      <3>6. /\ inserts' \in Seq([key : Wildcards', depth : Nat]) /\ Len(inserts') = 1
            /\ DOMAIN inserts' = {1} /\ inserts'[1] = call
        BY <3>2, <3>5
      <3>7. \A p : IsParent(p)' = IsParent(p) /\ IsTerminal(p)' = IsTerminal(p)
        BY <1>1 DEF IsParent, IsTerminal
      <3>8. \A p \in DOMAIN trie' : NodeOK(p)'
        BY <1>1, <3>1, <3>7 DEF StringsInv, TrieInv, NodeOK
      <3>9. CallOK(call)'
        BY <3>4, <3>5 DEF CallOK
      <3>10. ASSUME NEW j \in DOMAIN inserts'
             PROVE  CallOK(inserts[j])'
        <4>1. inserts'[j] = call
          BY <3>6
        <4>2. QED
          BY <3>9, <4>1 DEF CallOK
      <3>11. ASSUME NEW w \in Wildcards'
             PROVE  Held(w)'
        <4>1. CASE w = name
          <5>1. Above(inserts'[1].key, w)
            BY <3>4, <3>5, <3>6, <4>1, AboveItself
          <5>2. QED
            BY <3>6, <5>1 DEF Held
        <4>2. CASE w \in Wildcards
          <5>1. Held(w)
            BY <4>2 DEF StringsInv, TrieInv
          <5>2. DOMAIN inserts = {}
            BY <1>1
          <5>3. QED
            BY <1>1, <3>7, <5>1, <5>2 DEF Held
        <4>3. QED
          BY <3>1, <4>1, <4>2
      <3>12. QED
        BY <3>6, <3>8, <3>10, <3>11 DEF TrieInv
    <2>3. QED
      BY <2>1, <2>2
  <1>5. QED
    BY <1>1, <1>2, <1>3, <1>4, BucketsUntouched DEF StringsInv

(* addEntry of the names. *)
LEMMA AddStringKeeps ==
  ASSUME StringsInv, NEW e \in Entries, AddEntry(e), AddString(e)
  PROVE  StringsInv'
  <1> PICK name : name = Lower[e.name]
    OBVIOUS
  <1>1. /\ added \subseteq Entries /\ added' = added \cup {e} /\ e.form = "name"
        /\ UNCHANGED <<regexes, trie, inserts>>
        /\ buckets' = IF e.valid
                      THEN [buckets EXCEPT ![Length[name]] =
                              InsertString(buckets[Length[name]], name)]
                      ELSE buckets
    BY DEF StringsInv, AddEntry, AddString
  <1>2. /\ Added("wildcard")' = Added("wildcard")
        /\ Added("name")' = Added("name") \cup (IF e.valid THEN {name} ELSE {})
    BY Zenon, <1>1, AddedGrows
  <1>3. regexes' = {f.matches : f \in {g \in added' : g.form = "regex" /\ g.valid}}
    BY <1>1, RegexesUntouched
  <1>4. TrieInv'
    BY <1>1, <1>2, TrieUntouched DEF StringsInv, Wildcards
  <1>5. CASE ~e.valid
    BY Zenon, <1>1, <1>2, <1>3, <1>4, <1>5, BucketsUntouched DEF StringsInv
  <1>6. CASE e.valid
    <2>1. name \in Domains /\ Length[name] \in Lengths
      <3>1. e.name \in DOMAIN Lower
        BY <1>1, StringsAssumption DEF Entry
      <3>2. name \in Domains
        BY <1>1, <1>6, <3>1, StringsAssumption
      <3>3. QED
        BY <3>2 DEF Lengths
    <2>2. Lengths' = Lengths /\ DOMAIN buckets = Lengths
      BY DEF Lengths, StringsInv
    <2>3. ASSUME NEW l \in Lengths
          PROVE  BucketOK(buckets[l], l)'
      <3>1. PICK old, new : old = buckets[l] /\ new = buckets'[l]
        OBVIOUS
      <3>2. BucketOK(old, l) /\ Sorted(old)
        BY <3>1 DEF StringsInv, BucketOK, Sorted
      <3>3. CASE l # Length[name]
        <4>1. new = old
          BY <1>1, <1>6, <3>1, <3>3
        <4>2. BucketOK(new, l)'
          BY <1>2, <1>6, <3>2, <3>3, <4>1 DEF BucketOK
        <4>3. QED
          BY <3>1, <4>2 DEF BucketOK
      <3>4. CASE l = Length[name]
        <4>1. new = InsertString(old, name)
          BY <1>1, <1>6, <2>2, <3>1, <3>4
        <4>2. Sorted(new) /\ Joined(new, old, name)
          BY <2>1, <3>2, <4>1, InsertedBucket
        <4>3. \A n \in Domains :
                (\E i \in DOMAIN new : new[i] = n) <=> n \in Added("name")' /\ Length[n] = l
          BY Zenon, <1>2, <1>6, <3>2, <3>4, <4>2 DEF BucketOK, Joined
        <4>4. BucketOK(new, l)'
          BY <4>2, <4>3 DEF BucketOK, Sorted
        <4>5. QED
          BY <3>1, <4>4 DEF BucketOK
      <3>5. QED
        BY <3>3, <3>4
    <2>4. DOMAIN buckets' = Lengths'
      BY <1>1, <1>6, <2>2
    <2>5. QED
      BY <1>1, <1>3, <1>4, <2>2, <2>3, <2>4 DEF StringsInv
  <1>7. QED
    BY <1>5, <1>6

(* The invariant is inductive. *)
LEMMA StringsStepKeeps ==
  StringsInv /\ [StringsNext]_stringVars => StringsInv'
  <1> SUFFICES ASSUME StringsInv, [StringsNext]_stringVars
               PROVE  StringsInv'
    OBVIOUS
  <1>1. CASE UNCHANGED stringVars
    <2>1. UNCHANGED <<regexes, trie, inserts, buckets, added>>
      BY <1>1 DEF stringVars
    <2>2. \A form : Added(form)' = Added(form)
      BY <2>1 DEF Added
    <2>3. TrieInv'
      BY <2>1, <2>2, TrieUntouched DEF StringsInv, Wildcards
    <2>4. QED
      BY <2>1, <2>2, <2>3, BucketsUntouched DEF StringsInv
  <1>2. ASSUME NEW e \in Entries, AddEntry(e)
        PROVE  StringsInv'
    BY <1>2, AddRegexKeeps, AddWildcardKeeps, AddStringKeeps DEF AddEntry
  <1>3. QED
    BY <1>1, <1>2, InsertKeeps DEF StringsNext

(* It says what a list contains when no insert is under way. *)
LEMMA InvContains ==
  StringsInv => ContainsIsRight
  <1> SUFFICES ASSUME StringsInv, inserts = <<>>, NEW n \in Domains
               PROVE  ListContains(n) <=>
                        \/ \E e \in added : e.form = "regex" /\ e.valid /\ n \in e.matches
                        \/ \E p \in Added("wildcard") \ {<<>>} : Above(p, n)
                        \/ n \in Added("name")
    BY DEF ContainsIsRight
  <1>1. (\E matches \in regexes : n \in matches)
          <=> \E e \in added : e.form = "regex" /\ e.valid /\ n \in e.matches
    BY DEF StringsInv
  <1>2. HasParentOf(n) <=> \E p \in Wildcards : Above(p, n)
    BY TrieIsRight DEF StringsInv
  <1>3. StringContains(n) <=> n \in Added("name")
    <2> DEFINE bucket == buckets[Length[n]]
    <2>1. BucketOK(bucket, Length[n])
      BY DEF StringsInv, Lengths
    <2> HIDE DEF bucket
    <2>2. FoundAt(bucket, n, Search(bucket, n)) <=> \E i \in DOMAIN bucket : bucket[i] = n
      BY <2>1, FoundIffThere DEF BucketOK, Sorted
    <2>3. QED
      BY <2>1, <2>2 DEF BucketOK, StringContains, bucket
  <1>4. QED
    BY <1>1, <1>2, <1>3 DEF ListContains, Wildcards

(* A list matches a name exactly if one of its valid entries does, in      *)
(* whatever order and spelling they were added; for any names, labels,     *)
(* entries and any order of strings, from the contract of sort.Search.     *)
THEOREM ContainsAlwaysRight == StringsSpec => []ContainsIsRight
  BY StringsBegin, StringsStepKeeps, InvContains, PTL DEF StringsSpec
=============================================================================
