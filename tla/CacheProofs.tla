---------------------------- MODULE CacheProofs -----------------------------
(***************************************************************************)
(* Proofs about what is kept in memory and replaced while queries read it. *)
(*                                                                         *)
(* HostsFile, for any names, contents of the sources and number of loads.  *)
(*                                                                         *)
(* ListCache, for any groups, names, sources and number of refreshes.      *)
(*                                                                         *)
(* Caching, for any answers, TTLs, limits and number of queries.           *)
(***************************************************************************)
EXTENDS HostsFile, ListCache, Caching, WellFoundedInduction, NaturalsInduction, TLAPS

(***************************************************************************)
(* HostsFile                                                               *)
(***************************************************************************)
HostsMaps == [Maps -> SUBSET HostNames]

HostsType ==
  /\ strategy \in {"fast", "blocking", "failOnError"}
  /\ started \in {"no", "yes", "failed"}
  /\ hosts \in HostsMaps
  /\ load \in [Loaders -> [stage : {"idle", "loading", "assigning"},
                           file : HostsMaps, map : Maps]]
  /\ loads \subseteq HostsFiles
  /\ lastFile \in HostsMaps
  /\ apart \in BOOLEAN
  /\ ask \in [name : HostNames \cup {"none"},
              stage : {"idle", "copied 0", "copied 1", "copied 2"},
              copy : HostsMaps, found : BOOLEAN]

(* A load that began apart from the others is alone, and is the last one;  *)
(* its first map is in force when it comes to the second.                  *)
LastIsAlone ==
  apart => \A l \in Loaders : load[l].stage = "assigning" =>
    /\ load[l].file = lastFile
    /\ load[l].map = 2 => hosts[1] = lastFile[1]
    /\ \A k \in Loaders : load[k].stage = "assigning" => k = l

(* What is assigned was loaded. *)
AssignsLoaded ==
  \A l \in Loaders : load[l].stage = "assigning" => load[l].file \in loads

(* Before the resolver is there only the first load can be under way. *)
FirstAlone ==
  started # "yes" =>
    /\ load["periodic"].stage = "idle"
    /\ load["first"].stage = "assigning" /\ load["first"].map = 2 =>
         hosts[1] = load["first"].file[1]

(* Each map on its own is that of a file that queries may have seen. *)
MapsSeen ==
  strategy # "failOnError" \/ started = "yes" =>
    \A m \in Maps : \E file \in Seen : hosts[m] = file[m]

(* So is each map that a query has copied, and there are no queries before *)
(* the resolver is there.                                                  *)
CopiesSeen ==
  /\ ask.stage # "idle" => ask.name \in HostNames
  /\ ask.name \in HostNames => started = "yes"
  /\ ask.stage \in {"copied 1", "copied 2"} =>
       \E file \in Seen : ask.copy[1] = file[1]
  /\ ask.stage = "copied 2" => \E file \in Seen : ask.copy[2] = file[2]

(* What holds of the loads and the maps, whatever queries do. *)
LoadInv ==
  HostsType /\ LastIsAlone /\ LastFileInForce /\ AssignsLoaded /\ FirstAlone /\ MapsSeen

HostsInv == LoadInv /\ CopiesSeen /\ HostsLookupIsRight

LEMMA TwoMaps == Maps = {1, 2}
  BY DEF Maps

LEMMA HostsInitial == HostsInit => HostsInv
  <1> SUFFICES ASSUME HostsInit PROVE HostsInv
    OBVIOUS
  <1> USE HostsAssumption DEF HostsInit, NoHosts, NotLoading, NoAsk, Maps, Loaders
  <1>1. HostsType
    BY DEF HostsType, HostsMaps
  <1>2. LastIsAlone /\ LastFileInForce /\ AssignsLoaded /\ FirstAlone
    BY DEF LastIsAlone, LastFileInForce, AssignsLoaded, FirstAlone, Assigning
  <1>3. MapsSeen
    BY DEF MapsSeen, Seen
  <1>4. CopiesSeen /\ HostsLookupIsRight
    BY DEF CopiesSeen, HostsLookupIsRight
  <1> QED BY <1>1, <1>2, <1>3, <1>4 DEF HostsInv, LoadInv

(* A step that changes neither the query nor what the maps may come from,  *)
(* except that more was loaded, leaves what was found right.               *)
LEMMA AskKept ==
  ASSUME HostsInv, ask' = ask, strategy' = strategy, loads \subseteq loads',
         started = "yes" => started' = "yes"
  PROVE  CopiesSeen' /\ HostsLookupIsRight'
  <1>1. Seen \subseteq Seen'
    BY DEF Seen
  <1>2. CopiesSeen'
    BY <1>1 DEF HostsInv, CopiesSeen
  <1>3. HostsLookupIsRight'
    BY <1>1 DEF HostsInv, HostsLookupIsRight
  <1> QED BY <1>2, <1>3

(* A step of a query leaves the loads and the maps alone. *)
LEMMA LoadsKept ==
  ASSUME LoadInv, HostsType',
         UNCHANGED <<strategy, started, hosts, load, loads, lastFile, apart>>
  PROVE  LoadInv'
  BY DEF LoadInv, LastIsAlone, LastFileInForce, Assigning, AssignsLoaded,
         FirstAlone, MapsSeen, Seen

(* A load begins. *)
LEMMA BeginKeeps ==
  ASSUME HostsInv, NEW l \in Loaders,
         load' = [load EXCEPT ![l].stage = "loading"],
         load[l].stage = "idle",
         l = "periodic" => started = "yes",
         started' \in {started, "yes"}, started' # started => strategy = "fast",
         UNCHANGED <<strategy, hosts, loads, lastFile, apart, ask>>
  PROVE  HostsInv'
  <1> USE DEF HostsInv, LoadInv
  <1>1. HostsType'
    BY DEF HostsType
  <1>2. \A k \in Loaders : load'[k].stage = "assigning" <=> load[k].stage = "assigning"
    BY DEF HostsType
  <1>3. \A k \in Loaders : load'[k].file = load[k].file /\ load'[k].map = load[k].map
    BY DEF HostsType
  <1>4. LastIsAlone' /\ LastFileInForce' /\ AssignsLoaded'
    BY <1>2, <1>3 DEF LastIsAlone, LastFileInForce, Assigning, AssignsLoaded
  <1>5. FirstAlone'
    BY <1>2, <1>3 DEF FirstAlone, Loaders, HostsType
  <1>6. MapsSeen'
    BY DEF MapsSeen, Seen
  <1>7. CopiesSeen' /\ HostsLookupIsRight'
    BY AskKept
  <1> QED BY <1>1, <1>4, <1>5, <1>6, <1>7

LEMMA FailsKeeps ==
  ASSUME HostsInv, NEW l \in Loaders, LoadFails(l)
  PROVE  HostsInv'
  <1> USE DEF HostsInv, LoadInv, LoadFails
  <1>1. NotLoading \in [stage : {"idle", "loading", "assigning"},
                        file : HostsMaps, map : Maps]
    BY DEF NotLoading, HostsMaps, NoHosts, Maps
  <1>2. HostsType'
    BY <1>1 DEF HostsType, Ended
  <1>3. \A k \in Loaders : load'[k].stage = "assigning" => load'[k] = load[k]
    BY DEF HostsType, NotLoading
  <1>4. ~Assigning' => ~Assigning
    BY DEF Assigning, HostsType, NotLoading
  <1>5. LastIsAlone' /\ LastFileInForce' /\ AssignsLoaded'
    BY <1>3, <1>4 DEF LastIsAlone, LastFileInForce, AssignsLoaded
  <1>6. FirstAlone'
    BY <1>3 DEF FirstAlone, Loaders, HostsType, NotLoading, Ended
  <1>7. MapsSeen'
    BY DEF MapsSeen, Seen, Ended, FirstAlone, Loaders
  <1>8. CopiesSeen' /\ HostsLookupIsRight'
    BY AskKept DEF Ended
  <1> QED BY <1>2, <1>5, <1>6, <1>7, <1>8

LEMMA SucceedsKeeps ==
  ASSUME HostsInv, NEW l \in Loaders, NEW file \in HostsFiles, LoadSucceeds(l, file)
  PROVE  HostsInv'
  <1> USE DEF HostsInv, LoadInv, LoadSucceeds
  <1>1. file \in HostsMaps /\ 1 \in Maps
    BY HostsAssumption DEF HostsMaps, Maps
  <1>2. HostsType'
    BY <1>1 DEF HostsType
  <1>3. load'[l] = [stage |-> "assigning", file |-> file, map |-> 1]
        /\ \A k \in Loaders \ {l} : load'[k] = load[k]
    BY DEF HostsType
  <1>4. LastIsAlone'
    <2>1. apart' => \A k \in Loaders : load[k].stage # "assigning"
      BY DEF Assigning
    <2>2. apart' => \A k \in Loaders \ {l} : load'[k].stage # "assigning"
      BY <1>3, <2>1
    <2>3. load'[l].file = file /\ load'[l].map = 1 /\ lastFile' = file
      BY <1>3
    <2> QED BY <2>2, <2>3 DEF LastIsAlone
  <1>5. LastFileInForce' /\ AssignsLoaded'
    BY <1>3 DEF LastFileInForce, Assigning, AssignsLoaded
  <1>6. FirstAlone'
    BY <1>3 DEF FirstAlone, Loaders
  <1>7. Seen \subseteq Seen'
    BY DEF Seen
  <1>8. MapsSeen'
    BY <1>7 DEF MapsSeen
  <1>9. CopiesSeen' /\ HostsLookupIsRight'
    BY AskKept
  <1> QED BY <1>2, <1>4, <1>5, <1>6, <1>8, <1>9

LEMMA AssignKeeps ==
  ASSUME HostsInv, NEW l \in Loaders, Assign(l)
  PROVE  HostsInv'
  <1> USE DEF HostsInv, LoadInv, Assign
  <1> DEFINE m == load[l].map
             file == load[l].file
  <1>1. m \in Maps /\ file \in HostsMaps /\ m \in {1, 2} /\ file \in loads
    <2>1. m \in Maps /\ file \in HostsMaps
      BY DEF HostsType
    <2> QED BY <2>1, TwoMaps DEF AssignsLoaded
  <1>2. NotLoading \in [stage : {"idle", "loading", "assigning"},
                        file : HostsMaps, map : Maps] /\ 2 \in Maps /\ 1 \in Maps
    BY DEF NotLoading, HostsMaps, NoHosts, Maps
  <1>3. /\ load'[l] = IF m = 2 THEN NotLoading ELSE [load[l] EXCEPT !.map = 2]
        /\ \A k \in Loaders \ {l} : load'[k] = load[k]
    BY DEF HostsType
  <1>4. hosts'[m] = file[m] /\ \A n \in Maps \ {m} : hosts'[n] = hosts[n]
    BY <1>1 DEF HostsType, HostsMaps
  <1>5. load'[l] \in [stage : {"idle", "loading", "assigning"},
                      file : HostsMaps, map : Maps]
    BY <1>1, <1>2, <1>3 DEF HostsType
  <1>6. hosts' \in HostsMaps
    BY <1>1 DEF HostsType, HostsMaps
  <1>7. HostsType'
    BY <1>5, <1>6 DEF HostsType, Ended
  <1>8. \A k \in Loaders : load'[k].stage = "assigning" =>
          load[k].stage = "assigning" /\ load'[k].file = load[k].file
    <2>1. load[l].stage = "assigning"
      OBVIOUS
    <2>2. m = 2 => load'[l].stage = "idle"
      BY <1>3 DEF NotLoading
    <2>3. m # 2 => load'[l].file = load[l].file
      <3>1. load[l] \in [stage : {"idle", "loading", "assigning"},
                         file : HostsMaps, map : Maps]
        BY DEF HostsType
      <3>2. [load[l] EXCEPT !.map = 2].file = load[l].file
        BY <3>1
      <3> QED BY <1>3, <3>2
    <2> QED BY <1>3, <2>1, <2>2, <2>3
  <1>9. LastIsAlone'
    BY <1>1, <1>2, <1>3, <1>4, <1>8 DEF LastIsAlone
  <1>10. LastFileInForce'
    <2> SUFFICES ASSUME ~Assigning', apart PROVE hosts' = lastFile
      BY DEF LastFileInForce
    <2>1. m = 2
      BY <1>1, <1>3 DEF Assigning, HostsType
    <2>2. file = lastFile /\ hosts[1] = lastFile[1]
      BY <2>1 DEF LastIsAlone
    <2>3. hosts'[1] = lastFile[1] /\ hosts'[2] = lastFile[2]
      BY <1>2, <1>4, <2>1, <2>2
    <2>4. \A n \in Maps : hosts'[n] = lastFile[n]
      BY <2>3, TwoMaps
    <2> QED BY <1>6, <2>4 DEF HostsType, HostsMaps
  <1>11. AssignsLoaded'
    BY <1>8 DEF AssignsLoaded
  <1>12. FirstAlone'
    <2> SUFFICES ASSUME started' # "yes"
                 PROVE  /\ load'["periodic"].stage = "idle"
                        /\ load'["first"].stage = "assigning" /\ load'["first"].map = 2
                             => hosts'[1] = load'["first"].file[1]
      BY DEF FirstAlone
    <2>1. started # "yes"
      BY DEF Ended
    <2>2. l = "first" /\ load["periodic"].stage = "idle"
      BY <2>1 DEF FirstAlone, Loaders
    <2>3. load'["periodic"] = load["periodic"]
      BY <1>3, <2>2 DEF Loaders
    <2>4. load'["first"].stage = "assigning" /\ m = 1 => hosts'[1] = load'["first"].file[1]
      BY <1>4, <1>8, <2>2
    <2>5. m = 2 => load'["first"].stage = "idle"
      BY <1>3, <2>2 DEF NotLoading
    <2> QED BY <1>1, <2>2, <2>3, <2>4, <2>5
  <1>13. MapsSeen'
    <2> SUFFICES ASSUME strategy # "failOnError" \/ started' = "yes", NEW n \in Maps
                 PROVE  \E f \in Seen : hosts'[n] = f[n]
      BY DEF MapsSeen, Seen
    <2>1. file \in Seen
      BY <1>1 DEF Seen
    <2>2. CASE n = m
      BY <1>4, <2>1, <2>2
    <2>3. CASE n # m /\ (strategy # "failOnError" \/ started = "yes")
      BY <1>4, <2>3 DEF MapsSeen
    <2>4. CASE n # m /\ started # "yes" /\ started' = "yes"
      <3>1. l = "first" /\ m = 2 /\ n = 1
        BY <1>1, <2>4, TwoMaps DEF FirstAlone, Loaders
      <3>2. hosts[1] = file[1]
        BY <3>1, <2>4 DEF FirstAlone
      <3> QED BY <1>4, <2>1, <3>1, <3>2
    <2> QED BY <2>2, <2>3, <2>4
  <1>14. CopiesSeen' /\ HostsLookupIsRight'
    BY AskKept DEF Ended
  <1> QED BY <1>7, <1>9, <1>10, <1>11, <1>12, <1>13, <1>14

LEMMA CopyKeeps ==
  ASSUME HostsInv, NEW m \in Maps, CopyMap(m)
  PROVE  HostsInv'
  <1> USE DEF HostsInv, LoadInv, CopyMap
  <1>1. m \in {1, 2} /\ 1 \in Maps /\ 2 \in Maps
    BY TwoMaps
  <1>2. ask' \in [name : HostNames \cup {"none"},
                  stage : {"idle", "copied 0", "copied 1", "copied 2"},
                  copy : HostsMaps, found : BOOLEAN]
    BY DEF HostsType, HostsMaps
  <1>3. LoadInv'
    <2>1. HostsType'
      BY <1>2 DEF HostsType
    <2> QED BY <2>1, LoadsKept
  <1>4. PICK file \in Seen : hosts[m] = file[m]
    BY DEF MapsSeen, CopiesSeen
  <1>5. ask'.copy[m] = file[m] /\ Seen' = Seen
        /\ \A n \in Maps \ {m} : ask'.copy[n] = ask.copy[n]
    BY <1>4 DEF HostsType, HostsMaps, Seen
  <1>6. ask'.name = ask.name /\ ask'.stage = IF m = 1 THEN "copied 1" ELSE "copied 2"
    BY DEF HostsType
  <1>7. CopiesSeen'
    <2>1. CASE m = 1
      <3>1. ask'.stage = "copied 1" /\ ask.stage = "copied 0"
        BY <1>6, <2>1
      <3> QED BY <1>4, <1>5, <1>6, <2>1, <3>1 DEF CopiesSeen
    <2>2. CASE m = 2
      BY <1>1, <1>4, <1>5, <1>6, <2>2 DEF CopiesSeen
    <2> QED BY <1>1, <2>1, <2>2
  <1>8. HostsLookupIsRight'
    <2>1. ask'.stage = "copied 1" \/ ask'.stage = "copied 2"
      BY <1>6
    <2> QED BY <2>1 DEF HostsLookupIsRight
  <1> QED BY <1>3, <1>7, <1>8

LEMMA GetKeeps ==
  ASSUME HostsInv, GetIP
  PROVE  HostsInv'
  <1> USE DEF HostsInv, LoadInv, GetIP
  <1>1. ask' \in [name : HostNames \cup {"none"},
                  stage : {"idle", "copied 0", "copied 1", "copied 2"},
                  copy : HostsMaps, found : BOOLEAN]
    BY DEF HostsType
  <1>2. LoadInv'
    BY <1>1, LoadsKept DEF HostsType
  <1>3. /\ ask'.name = ask.name /\ ask'.stage = "idle" /\ Seen' = Seen
        /\ ask'.found = \E m \in Maps : ask.name \in ask.copy[m]
    BY DEF HostsType, Seen
  <1>4. CopiesSeen'
    BY <1>3 DEF CopiesSeen
  <1>5. PICK f1 \in Seen : ask.copy[1] = f1[1]
    BY DEF CopiesSeen
  <1>6. PICK f2 \in Seen : ask.copy[2] = f2[2]
    BY DEF CopiesSeen
  <1>7. ask'.found <=> ask.name \in f1[1] \/ ask.name \in f2[2]
    BY <1>3, <1>5, <1>6, TwoMaps
  <1>8. HostsLookupIsRight'
    <2>1. ask'.found => \E file \in Seen, m \in Maps : ask.name \in file[m]
      BY <1>7, TwoMaps
    <2>2. (\E m \in Maps : \A file \in Seen : ask.name \in file[m]) => ask'.found
      BY <1>7, TwoMaps
    <2> QED BY <1>3, <2>1, <2>2 DEF HostsLookupIsRight
  <1> QED BY <1>2, <1>4, <1>8

LEMMA AskKeeps ==
  ASSUME HostsInv, NEW n \in HostNames, AskHost(n)
  PROVE  HostsInv'
  <1> USE DEF HostsInv, LoadInv, AskHost
  <1>1. NoHosts \in HostsMaps
    BY DEF NoHosts, HostsMaps
  <1>2. LoadInv'
    BY <1>1, LoadsKept DEF HostsType
  <1> QED BY <1>2 DEF CopiesSeen, HostsLookupIsRight, HostsType

LEMMA HostsStepKeeps == HostsInv /\ [HostsNext]_hostsVars => HostsInv'
  <1> SUFFICES ASSUME HostsInv, [HostsNext]_hostsVars PROVE HostsInv'
    OBVIOUS
  <1>1. CASE Start
    <2>1. started' \in {started, "yes"} /\ (started' # started => strategy = "fast")
      BY <1>1 DEF Start
    <2> QED BY <1>1, <2>1, BeginKeeps DEF Start, Loaders
  <1>2. CASE StartLoad
    BY <1>2, BeginKeeps DEF StartLoad, Loaders
  <1>3. CASE \E l \in Loaders : LoadFails(l)
    BY <1>3, FailsKeeps
  <1>4. CASE \E l \in Loaders, file \in HostsFiles : LoadSucceeds(l, file)
    BY <1>4, SucceedsKeeps
  <1>5. CASE \E l \in Loaders : Assign(l)
    BY <1>5, AssignKeeps
  <1>6. CASE \E n \in HostNames : AskHost(n)
    BY <1>6, AskKeeps
  <1>7. CASE \E m \in Maps : CopyMap(m)
    BY <1>7, CopyKeeps
  <1>8. CASE GetIP
    BY <1>8, GetKeeps
  <1>9. CASE UNCHANGED hostsVars
    <2>1. LoadInv'
      BY <1>9, LoadsKept DEF hostsVars, HostsInv, LoadInv, HostsType
    <2>2. CopiesSeen' /\ HostsLookupIsRight'
      BY <1>9, AskKept DEF hostsVars
    <2> QED BY <2>1, <2>2 DEF HostsInv
  <1> QED BY <1>1, <1>2, <1>3, <1>4, <1>5, <1>6, <1>7, <1>8, <1>9 DEF HostsNext

(* When no load is being assigned, the maps are those of the file that was *)
(* loaded last, unless two loads overlapped: loadSources assigns nothing   *)
(* when it fails, and everything when it succeeds.                         *)
THEOREM LastFileAlwaysInForce == HostsSpec => []LastFileInForce
  <1>1. HostsInv => LastFileInForce
    BY DEF HostsInv, LoadInv
  <1> QED BY <1>1, HostsInitial, HostsStepKeeps, PTL DEF HostsSpec

(* Although getIP reads copies of maps that are replaced one by one, what  *)
(* Resolve finds was in a file, and what is in all of them is found; with  *)
(* failOnError no query sees the empty maps of the start.                  *)
THEOREM HostsLookupAlwaysRight == HostsSpec => []HostsLookupIsRight
  <1>1. HostsInv => HostsLookupIsRight
    BY DEF HostsInv
  <1> QED BY <1>1, HostsInitial, HostsStepKeeps, PTL DEF HostsSpec

-----------------------------------------------------------------------------
(***************************************************************************)
(* ListCache                                                               *)
(***************************************************************************)
ListTypes ==
  /\ caches \in [Kinds -> [Groups -> SUBSET Names]]
  /\ stage \in [Refreshers -> [Groups -> Kinds \cup {Idle, Collecting}]]
  /\ built \in [Refreshers -> [Groups -> List]]
  /\ accepted \in [Groups -> SUBSET List]
  /\ last \in [Groups -> List]
  /\ alone \in [Groups -> BOOLEAN]
  /\ lookup \in [name : Names \cup {"none"}, kind : Kinds \cup {Idle},
                 groups : SUBSET Groups, todo : SUBSET Groups, found : SUBSET Groups]

(* What is in force, or about to be, was accepted. *)
WasAccepted ==
  \A g \in Groups :
    /\ last[g] \in accepted[g]
    /\ \A r \in Refreshers : stage[r][g] \in Kinds => built[r][g] \in accepted[g]
    /\ \A k \in Kinds : \E list \in accepted[g] : caches[k][g] = list[k]

(* A refresh that was alone when its list was accepted stays alone until   *)
(* the next list is accepted, and has replaced the caches before the one   *)
(* it is at.                                                               *)
OneAtATime(g) ==
  alone[g] =>
    /\ \A r, s \in Refreshers : stage[r][g] \in Kinds /\ stage[s][g] \in Kinds => r = s
    /\ \A r \in Refreshers : stage[r][g] \in Kinds =>
         /\ built[r][g] = last[g]
         /\ \A k \in Kinds : k < stage[r][g] => caches[k][g] = last[g][k]
    /\ ~Refreshing(g) => \A k \in Kinds : caches[k][g] = last[g][k]

(* The lookup has asked cache k for the group. *)
HasAsked(g, k) ==
  lookup.kind = Idle \/ k < lookup.kind \/ (k = lookup.kind /\ g \notin lookup.todo)

(* What is found is in a list that was accepted, and what all of them have *)
(* in the caches that were asked is found.                                 *)
LookupInv ==
  /\ lookup.todo \subseteq lookup.groups /\ lookup.found \subseteq lookup.groups
  /\ lookup.kind = Idle => lookup.todo = {}
  /\ \A g \in lookup.found : \E list \in accepted[g], k \in Kinds : lookup.name \in list[k]
  /\ \A g \in lookup.groups, k \in Kinds :
       /\ HasAsked(g, k)
       /\ \A list \in accepted[g] : lookup.name \in list[k]
       => g \in lookup.found

ListInv ==
  /\ ListTypes /\ WasAccepted /\ LookupInv
  /\ \A g \in Groups : OneAtATime(g)

-----------------------------------------------------------------------------
LEMMA NothingIsList == Nothing \in List
  BY DEF Nothing, List

(* What a refresh collects is a list.                                      *)
LEMMA CollectedIsList ==
  ASSUME NEW outcomes \in [Sources -> Outcome]
  PROVE  Collected(outcomes) \in List
  <1>1. ASSUME NEW s \in Sources PROVE outcomes[s].list \in List
    <2>1. outcomes[s] \in Outcome
      OBVIOUS
    <2> QED BY <2>1, NothingIsList, ListAssumption DEF Outcome
  <1>2. ASSUME NEW k \in Kinds PROVE UNION {outcomes[s].list[k] : s \in Sources} \subseteq Names
    BY <1>1, <1>2 DEF List
  <1> QED BY <1>2 DEF Collected, List

LEMMA ListInitial == Init => ListInv
  <1> SUFFICES ASSUME Init PROVE ListInv
    OBVIOUS
  <1>1. PICK first \in [Groups -> Contents \cup {Nothing}] :
          /\ caches = [k \in Kinds |-> [g \in Groups |-> first[g][k]]]
          /\ accepted = [g \in Groups |-> {first[g]}]
          /\ last = first
          /\ alone = [g \in Groups |-> TRUE]
          /\ stage = [r \in Refreshers |-> [g \in Groups |-> Idle]]
          /\ built = [r \in Refreshers |-> [g \in Groups |-> Nothing]]
          /\ lookup = NoLookup
    BY DEF Init
  <1>2. \A g \in Groups : first[g] \in List
    BY NothingIsList, ListAssumption
  <1>3. lookup \in [name : Names \cup {"none"}, kind : Kinds \cup {Idle},
                    groups : SUBSET Groups, todo : SUBSET Groups, found : SUBSET Groups]
    BY <1>1 DEF NoLookup
  <1>4. \A g \in Groups, k \in Kinds : caches[k][g] = first[g][k] /\ first[g][k] \subseteq Names
    BY <1>1, <1>2 DEF List
  <1>5. ListTypes
    <2>1. caches \in [Kinds -> [Groups -> SUBSET Names]]
      BY <1>1, <1>2 DEF List
    <2>2. last \in [Groups -> List] /\ accepted \in [Groups -> SUBSET List]
      BY <1>1, <1>2
    <2> QED BY <1>1, <1>3, <2>1, <2>2, NothingIsList DEF ListTypes
  <1>6. \A r \in Refreshers, g \in Groups : stage[r][g] \notin Kinds
    BY <1>1 DEF Kinds, Idle
  <1>7. WasAccepted
    BY <1>1, <1>4, <1>6 DEF WasAccepted
  <1>8. LookupInv
    BY <1>1 DEF LookupInv, NoLookup
  <1>9. \A g \in Groups : OneAtATime(g)
    BY <1>1, <1>4, <1>6 DEF OneAtATime
  <1> QED BY <1>5, <1>7, <1>8, <1>9 DEF ListInv

-----------------------------------------------------------------------------
(* A step that only takes a refresh out of Finish, or into collecting. *)
LEMMA StageKept ==
  ASSUME ListInv, UNCHANGED <<caches, built, accepted, last, alone, lookup>>,
         stage' \in [Refreshers -> [Groups -> Kinds \cup {Idle, Collecting}]],
         \A r \in Refreshers, g \in Groups :
           stage'[r][g] = stage[r][g]
             \/ (stage[r][g] \notin Kinds /\ stage'[r][g] \notin Kinds)
  PROVE  ListInv'
  <1>1. ListTypes'
    BY DEF ListInv, ListTypes
  <1>2. WasAccepted'
    BY DEF ListInv, WasAccepted
  <1>3. LookupInv'
    BY DEF ListInv, LookupInv, HasAsked
  <1>4. ASSUME NEW g \in Groups PROVE OneAtATime(g)'
    <2>1. \A r \in Refreshers : stage'[r][g] \in Kinds => stage'[r][g] = stage[r][g]
      OBVIOUS
    <2>2. ~Refreshing(g)' => ~Refreshing(g)
      BY DEF Refreshing
    <2>3. OneAtATime(g)
      BY DEF ListInv
    <2> QED BY <2>1, <2>2, <2>3 DEF OneAtATime
  <1> QED BY <1>1, <1>2, <1>3, <1>4 DEF ListInv

(* One lemma for each action.                                              *)
LEMMA StartRefreshKeeps ==
  ASSUME ListInv, NEW r \in Refreshers, StartRefresh(r) PROVE ListInv'
  <1>1. stage \in [Refreshers -> [Groups -> Kinds \cup {Idle, Collecting}]]
    BY DEF ListInv, ListTypes
  <1>2. stage' \in [Refreshers -> [Groups -> Kinds \cup {Idle, Collecting}]]
    BY <1>1 DEF StartRefresh
  <1>3. \A s \in Refreshers, g \in Groups :
          stage'[s][g] = stage[s][g]
            \/ (stage[s][g] \notin Kinds /\ stage'[s][g] \notin Kinds)
    BY <1>1 DEF StartRefresh, Kinds, Idle, Collecting
  <1> QED BY <1>2, <1>3, StageKept DEF StartRefresh

LEMMA CollectFailsKeeps ==
  ASSUME ListInv, NEW r \in Refreshers, NEW h \in Groups, NEW outcomes,
         CollectFails(r, h, outcomes)
  PROVE  ListInv'
  <1>1. stage \in [Refreshers -> [Groups -> Kinds \cup {Idle, Collecting}]]
    BY DEF ListInv, ListTypes
  <1>2. stage' \in [Refreshers -> [Groups -> Kinds \cup {Idle, Collecting}]]
    BY <1>1 DEF CollectFails
  <1>3. \A s \in Refreshers, g \in Groups :
          stage'[s][g] = stage[s][g]
            \/ (stage[s][g] \notin Kinds /\ stage'[s][g] \notin Kinds)
    BY <1>1 DEF CollectFails, Kinds, Idle, Collecting
  <1> QED BY <1>2, <1>3, StageKept DEF CollectFails

LEMMA CollectKeeps ==
  ASSUME ListInv, NEW r \in Refreshers, NEW h \in Groups,
         NEW outcomes \in [Sources -> Outcome], Collect(r, h, outcomes)
  PROVE  ListInv'
  <1> DEFINE new == Collected(outcomes)
  <1>1. new \in List
    BY CollectedIsList
  <1>2. ListTypes /\ WasAccepted /\ LookupInv /\ \A g \in Groups : OneAtATime(g)
    BY DEF ListInv
  <1>3. /\ stage[r][h] = Collecting
        /\ stage' = [stage EXCEPT ![r][h] = 1]
        /\ built' = [built EXCEPT ![r][h] = new]
        /\ accepted' = [accepted EXCEPT ![h] = @ \cup {new}]
        /\ last' = [last EXCEPT ![h] = new]
        /\ alone' = [alone EXCEPT ![h] = ~Refreshing(h)]
        /\ caches' = caches /\ lookup' = lookup
    BY DEF Collect
  <1> HIDE DEF new
  <1>4. ListTypes'
    BY <1>1, <1>2, <1>3 DEF ListTypes, Kinds, Idle, Collecting
  <1>5. \A g \in Groups : accepted[g] \subseteq accepted'[g] /\ last'[g] \in accepted'[g]
    BY <1>2, <1>3 DEF ListTypes, WasAccepted
  <1>6. \A s \in Refreshers, g \in Groups : s # r \/ g # h =>
          stage'[s][g] = stage[s][g] /\ built'[s][g] = built[s][g]
    BY <1>2, <1>3 DEF ListTypes
  <1>7. stage'[r][h] = 1 /\ built'[r][h] = new /\ new \in accepted'[h]
        /\ last'[h] = new /\ alone'[h] = ~Refreshing(h)
    BY <1>2, <1>3 DEF ListTypes
  <1>8. WasAccepted'
    <2> SUFFICES ASSUME NEW g \in Groups
                 PROVE  /\ \A s \in Refreshers :
                             stage'[s][g] \in Kinds => built'[s][g] \in accepted'[g]
                        /\ \A k \in Kinds : \E list \in accepted'[g] : caches'[k][g] = list[k]
      BY <1>5 DEF WasAccepted
    <2>1. \A s \in Refreshers : stage'[s][g] \in Kinds => built'[s][g] \in accepted'[g]
      BY <1>2, <1>5, <1>6, <1>7 DEF WasAccepted
    <2> QED BY <1>2, <1>3, <1>5, <2>1 DEF WasAccepted
  <1>9. LookupInv'
    <2>1. lookup.groups \subseteq Groups /\ lookup.found \subseteq Groups
      BY <1>2 DEF ListTypes
    <2> QED BY <1>2, <1>3, <1>5, <2>1 DEF LookupInv, HasAsked
  <1>10. ASSUME NEW g \in Groups, g # h PROVE OneAtATime(g)'
    <2>1. \A s \in Refreshers : stage'[s][g] = stage[s][g] /\ built'[s][g] = built[s][g]
      BY <1>6, <1>10
    <2>2. last'[g] = last[g] /\ alone'[g] = alone[g]
      BY <1>2, <1>3, <1>10 DEF ListTypes
    <2>3. Refreshing(g)' <=> Refreshing(g)
      BY <2>1 DEF Refreshing
    <2>4. OneAtATime(g)
      BY SMTT(20), <1>2
    <2> QED BY <1>3, <2>1, <2>2, <2>3, <2>4 DEF OneAtATime
  <1>11. OneAtATime(h)'
    <2> SUFFICES ASSUME ~Refreshing(h) PROVE OneAtATime(h)'
      BY <1>7 DEF OneAtATime
    <2>1. \A s \in Refreshers : stage'[s][h] \in Kinds => s = r
      BY <1>6 DEF Refreshing
    <2>2. Refreshing(h)'
      BY <1>7 DEF Refreshing, Kinds
    <2>3. \A k \in Kinds : ~(k < 1)
      BY DEF Kinds
    <2> QED BY <1>7, <2>1, <2>2, <2>3 DEF OneAtATime
  <1> QED BY <1>4, <1>8, <1>9, <1>10, <1>11 DEF ListInv

(* The kinds are numbers: one up to a kind is that kind or comes before.   *)
LEMMA KindsInOrder ==
  ASSUME NEW k \in Kinds, NEW at \in Kinds, k <= at
  PROVE  k = at \/ (k < at /\ k # at)
  <1>1. k \in Int /\ at \in Int
    BY DEF Kinds
  <1> QED BY <1>1

LEMMA FinishKeeps ==
  ASSUME ListInv, NEW r \in Refreshers, NEW h \in Groups, Finish(r, h)
  PROVE  ListInv'
  <1> DEFINE at == stage[r][h]
             next == IF at = 3 THEN Idle ELSE at + 1
  <1>1. ListTypes /\ WasAccepted /\ LookupInv /\ \A g \in Groups : OneAtATime(g)
    BY DEF ListInv
  <1>2. /\ at \in Kinds
        /\ caches' = [caches EXCEPT ![at][h] = built[r][h][at]]
        /\ stage' = [stage EXCEPT ![r][h] = next]
        /\ built' = built /\ accepted' = accepted /\ last' = last /\ alone' = alone
        /\ lookup' = lookup
    BY DEF Finish
  <1>3. next \in Kinds \cup {Idle} /\ (next \in Kinds <=> at # 3) /\ (at # 3 => next = at + 1)
    BY <1>2 DEF Kinds, Idle
  <1> HIDE DEF next
  <1>4. built[r][h] \in List /\ built[r][h] \in accepted[h] /\ built[r][h][at] \subseteq Names
    BY <1>1, <1>2 DEF ListTypes, WasAccepted, List
  <1>5. ListTypes'
    BY <1>1, <1>2, <1>3, <1>4 DEF ListTypes
  <1>6. /\ \A s \in Refreshers, g \in Groups : s # r \/ g # h => stage'[s][g] = stage[s][g]
        /\ stage'[r][h] = next
        /\ \A k \in Kinds, g \in Groups : k # at \/ g # h => caches'[k][g] = caches[k][g]
        /\ caches'[at][h] = built[r][h][at]
    BY <1>1, <1>2 DEF ListTypes
  <1>7. WasAccepted'
    <2> SUFFICES ASSUME NEW g \in Groups
                 PROVE  /\ \A s \in Refreshers :
                             stage'[s][g] \in Kinds => built[s][g] \in accepted[g]
                        /\ \A k \in Kinds : \E list \in accepted[g] : caches'[k][g] = list[k]
      BY <1>1, <1>2 DEF WasAccepted
    <2>1. \A s \in Refreshers : stage'[s][g] \in Kinds => built[s][g] \in accepted[g]
      BY <1>1, <1>4, <1>6 DEF WasAccepted
    <2>2. ASSUME NEW k \in Kinds PROVE \E list \in accepted[g] : caches'[k][g] = list[k]
      BY <1>1, <1>4, <1>6 DEF WasAccepted
    <2> QED BY <2>1, <2>2
  <1>8. LookupInv'
    BY <1>1, <1>2 DEF LookupInv, HasAsked
  <1>9. ASSUME NEW g \in Groups, g # h PROVE OneAtATime(g)'
    <2>1. /\ \A s \in Refreshers : stage'[s][g] = stage[s][g]
          /\ \A k \in Kinds : caches'[k][g] = caches[k][g]
      BY <1>6, <1>9
    <2> QED BY <1>1, <1>2, <2>1 DEF OneAtATime, Refreshing
  <1>10. OneAtATime(h)'
    <2> SUFFICES ASSUME alone[h] PROVE OneAtATime(h)'
      BY <1>2 DEF OneAtATime
    <2>1. /\ \A s \in Refreshers : stage[s][h] \in Kinds => s = r
          /\ built[r][h] = last[h]
          /\ \A k \in Kinds : k < at => caches[k][h] = last[h][k]
      BY <1>1, <1>2 DEF OneAtATime
    <2>2. \A s \in Refreshers : stage'[s][h] \in Kinds => s = r
      BY <1>6, <2>1
    <2>3. \A k \in Kinds : k <= at => caches'[k][h] = last[h][k]
      <3>1. ASSUME NEW k \in Kinds, k <= at PROVE k = at \/ (k < at /\ k # at)
        BY Zenon, <1>2, <3>1, KindsInOrder
      <3>2. ASSUME NEW k \in Kinds, k <= at PROVE caches'[k][h] = last[h][k]
        <4>1. CASE k = at
          BY Zenon, <1>6, <2>1, <4>1
        <4>2. CASE k < at /\ k # at
          BY Zenon, <1>6, <2>1, <4>2
        <4> QED BY Zenon, <3>1, <3>2, <4>1, <4>2
      <3> QED BY Zenon, <3>2
    <2>4. stage'[r][h] \in Kinds =>
            \A k \in Kinds : k < stage'[r][h] => caches'[k][h] = last[h][k]
      <3>1. stage'[r][h] \in Kinds => at # 3 /\ stage'[r][h] = at + 1
        BY Zenon, <1>3, <1>6
      <3>2. \A k \in Kinds : k < at + 1 => k <= at
        BY <1>2 DEF Kinds
      <3> QED BY Zenon, <2>3, <3>1, <3>2
    <2>5. ~Refreshing(h)' => \A k \in Kinds : caches'[k][h] = last[h][k]
      <3>1. ~Refreshing(h)' => at = 3
        BY <1>3, <1>6 DEF Refreshing
      <3> QED BY <2>3, <3>1 DEF Kinds
    <2> QED BY <1>2, <2>1, <2>2, <2>4, <2>5 DEF OneAtATime
  <1> QED BY <1>5, <1>7, <1>8, <1>9, <1>10 DEF ListInv

-----------------------------------------------------------------------------
(* A step of the lookup leaves everything else alone. *)
LEMMA LookupKept ==
  ASSUME ListInv, UNCHANGED <<caches, stage, built, accepted, last, alone>>,
         lookup' \in [name : Names \cup {"none"}, kind : Kinds \cup {Idle},
                      groups : SUBSET Groups, todo : SUBSET Groups, found : SUBSET Groups],
         LookupInv'
  PROVE  ListInv'
  <1>1. ListTypes' /\ WasAccepted'
    BY DEF ListInv, ListTypes, WasAccepted
  <1>2. \A g \in Groups : OneAtATime(g)'
    BY DEF ListInv, OneAtATime, Refreshing
  <1> QED BY <1>1, <1>2 DEF ListInv

LEMMA StartLookupKeeps ==
  ASSUME ListInv, NEW n \in Names, NEW gs \in SUBSET Groups, StartLookup(n, gs)
  PROVE  ListInv'
  <1>1. lookup' = [name |-> n, kind |-> 1, groups |-> gs, todo |-> gs, found |-> {}]
    BY DEF StartLookup
  <1>2. \A g \in gs, k \in Kinds : ~HasAsked(g, k)'
    BY <1>1 DEF HasAsked, Kinds, Idle
  <1>3. LookupInv'
    BY <1>1, <1>2 DEF LookupInv, Idle
  <1> QED BY <1>1, <1>3, LookupKept DEF StartLookup, Kinds

LEMMA LookupGroupKeeps ==
  ASSUME ListInv, NEW h \in Groups, LookupGroup(h)
  PROVE  ListInv'
  <1> DEFINE hit == lookup.name \in caches[lookup.kind][h]
  <1>1. ListTypes /\ WasAccepted /\ LookupInv
    BY DEF ListInv
  <1>2. /\ h \in lookup.todo /\ accepted' = accepted
        /\ lookup' = [lookup EXCEPT !.todo = @ \ {h},
                        !.found = IF hit THEN @ \cup {h} ELSE @]
    BY DEF LookupGroup
  <1> HIDE DEF hit
  <1>3. /\ lookup'.name = lookup.name /\ lookup'.kind = lookup.kind
        /\ lookup'.groups = lookup.groups /\ lookup'.todo = lookup.todo \ {h}
        /\ lookup'.found = IF hit THEN lookup.found \cup {h} ELSE lookup.found
        /\ lookup' \in [name : Names \cup {"none"}, kind : Kinds \cup {Idle},
                        groups : SUBSET Groups, todo : SUBSET Groups, found : SUBSET Groups]
    BY <1>1, <1>2 DEF ListTypes
  <1>4. /\ lookup.kind \in Kinds /\ h \in lookup.groups
        /\ \E list \in accepted[h] : caches[lookup.kind][h] = list[lookup.kind]
    BY <1>1, <1>2 DEF WasAccepted, LookupInv, ListTypes
  <1>5. LookupInv'
    <2>1. ASSUME NEW g \in lookup'.found
          PROVE  \E list \in accepted[g], k \in Kinds : lookup.name \in list[k]
      BY <1>1, <1>3, <1>4, <2>1 DEF LookupInv, hit
    <2>2. ASSUME NEW g \in lookup.groups, NEW k \in Kinds, HasAsked(g, k)',
                 \A list \in accepted[g] : lookup.name \in list[k]
          PROVE  g \in lookup'.found
      <3>1. CASE HasAsked(g, k)
        BY <1>1, <1>3, <2>2, <3>1 DEF LookupInv
      <3>2. CASE ~HasAsked(g, k)
        <4>1. k = lookup.kind /\ g = h
          BY <1>3, <2>2, <3>2 DEF HasAsked
        <4>2. hit
          BY <1>4, <2>2, <4>1 DEF hit
        <4> QED BY <1>3, <4>1, <4>2
      <3> QED BY <3>1, <3>2
    <2>3. /\ lookup'.todo \subseteq lookup'.groups /\ lookup'.found \subseteq lookup'.groups
          /\ lookup'.kind = Idle => lookup'.todo = {}
      BY <1>1, <1>3, <1>4 DEF LookupInv
    <2> QED BY <1>2, <1>3, <2>1, <2>2, <2>3 DEF LookupInv
  <1> QED BY <1>3, <1>5, LookupKept DEF LookupGroup

LEMMA NextCacheKeeps ==
  ASSUME ListInv, NextCache PROVE ListInv'
  <1>1. ListTypes /\ LookupInv /\ accepted' = accepted
        /\ lookup.kind \in Kinds /\ lookup.todo = {}
    BY DEF ListInv, NextCache
  <1>2. /\ lookup'.name = lookup.name
        /\ lookup'.groups = lookup.groups /\ lookup'.found = lookup.found
        /\ \/ lookup.kind = 3 /\ lookup'.kind = Idle /\ lookup'.todo = {}
           \/ lookup'.kind = lookup.kind + 1 /\ lookup'.todo = lookup.groups
        /\ lookup' \in [name : Names \cup {"none"}, kind : Kinds \cup {Idle},
                        groups : SUBSET Groups, todo : SUBSET Groups, found : SUBSET Groups]
    <2>1. lookup \in [name : Names \cup {"none"}, kind : Kinds \cup {Idle},
                      groups : SUBSET Groups, todo : SUBSET Groups, found : SUBSET Groups]
      BY <1>1 DEF ListTypes
    <2>2. CASE lookup.kind = 3
      BY <1>1, <2>1, <2>2 DEF NextCache
    <2>3. CASE lookup.kind # 3
      <3>1. lookup' = [lookup EXCEPT !.kind = @ + 1, !.todo = lookup.groups]
        BY <2>3 DEF NextCache
      <3>2. lookup.kind + 1 \in Kinds
        BY <1>1, <2>3 DEF Kinds
      <3> QED BY <2>1, <3>1, <3>2
    <2> QED BY <2>2, <2>3
  <1>3. \A g \in lookup.groups, k \in Kinds : HasAsked(g, k)' => HasAsked(g, k)
    BY <1>1, <1>2 DEF HasAsked, Kinds, Idle
  <1>4. lookup'.todo \subseteq lookup'.groups /\ (lookup'.kind = Idle => lookup'.todo = {})
    BY <1>1, <1>2 DEF Kinds, Idle
  <1>5. LookupInv'
    BY <1>1, <1>2, <1>3, <1>4 DEF LookupInv
  <1> QED BY <1>2, <1>5, LookupKept DEF NextCache

-----------------------------------------------------------------------------
(* What is in the caches, or about to be, was accepted, and a refresh that *)
(* is alone replaces the caches one after the other.                       *)
THEOREM ListInvariance == Spec => []ListInv
  <1>1. ListInv /\ [Next]_vars => ListInv'
    <2> SUFFICES ASSUME ListInv, [Next]_vars PROVE ListInv'
      OBVIOUS
    <2>1. CASE UNCHANGED vars
      <3>1. stage' \in [Refreshers -> [Groups -> Kinds \cup {Idle, Collecting}]]
        BY <2>1 DEF vars, ListInv, ListTypes
      <3> QED BY <2>1, <3>1, StageKept DEF vars
    <2> QED BY <2>1, StartRefreshKeeps, CollectFailsKeeps, CollectKeeps, FinishKeeps,
               StartLookupKeeps, LookupGroupKeeps, NextCacheKeeps DEF Next
  <1> QED BY <1>1, ListInitial, PTL DEF Spec

(* refresh and Match of the list cache keep the types of their state.      *)
THEOREM ListTypeCorrect == Spec => []TypeOK
  <1>1. ListInv => TypeOK
    BY DEF ListInv, ListTypes, WasAccepted, LookupInv, TypeOK, Listed, List
  <1> QED BY <1>1, ListInvariance, PTL

(* The list of a group that nobody replaces is the last one that was       *)
(* accepted, unless refreshes overlapped: createCacheForGroup leaves the   *)
(* list alone when it fails, and Finish replaces all the caches of the     *)
(* chain; for any groups, names, sources and number of refreshes.          *)
THEOREM AlwaysLastListInForce == Spec => []LastListInForce
  <1>1. ASSUME ListInv PROVE LastListInForce
    <2> SUFFICES ASSUME NEW g \in Groups, ~Refreshing(g), alone[g]
                 PROVE  Listed(g) = last[g]
      BY DEF LastListInForce
    <2>1. \A k \in Kinds : caches[k][g] = last[g][k]
      BY <1>1 DEF ListInv, OneAtATime
    <2>2. last[g] \in List
      BY <1>1 DEF ListInv, ListTypes
    <2> QED BY <2>1, <2>2 DEF Listed, List
  <1> QED BY <1>1, ListInvariance, PTL

(* Match asks the caches of the chain one after the other while refreshes  *)
(* replace them, and still finds what all accepted lists contain in an     *)
(* entry of one kind, and nothing that none of them contains.              *)
THEOREM ListLookupAlwaysRight == Spec => []LookupIsRight
  <1>1. ASSUME ListInv PROVE LookupIsRight
    <2> SUFFICES ASSUME NEW g \in lookup.groups
                 PROVE  /\ g \in lookup.found =>
                             \E list \in accepted[g] : lookup.name \in NamesOf(list)
                        /\ lookup.kind = Idle /\ SameKind(g, lookup.name) => g \in lookup.found
      BY DEF LookupIsRight
    <2>1. LookupInv
      BY <1>1 DEF ListInv
    <2>2. g \in lookup.found => \E list \in accepted[g] : lookup.name \in NamesOf(list)
      BY <2>1 DEF LookupInv, NamesOf
    <2>3. lookup.kind = Idle /\ SameKind(g, lookup.name) => g \in lookup.found
      BY <2>1 DEF LookupInv, HasAsked, SameKind
    <2> QED BY <2>2, <2>3
  <1> QED BY <1>1, ListInvariance, PTL

-----------------------------------------------------------------------------
(***************************************************************************)
(* Caching                                                                 *)
(***************************************************************************)
(* A copy of an answer. *)
Copy ==
  [answer : Answers, ttls : Seq(Nat), age : Nat,
   from : {"query", "peer", "prefetch", "redis"}]

(* Entry e of the cache: only answers of two kinds are kept, positive ones *)
(* are checked unless a prefetch brought them, those of queries and peers  *)
(* carry the adjusted TTLs, and none outlives its time.                    *)
EntryInv(e) ==
  LET a == e.got.answer
      from == e.got.from
  IN  /\ e.got \in Copy /\ e.left \in Nat
      /\ a.rcode \in {"success", "nxdomain"}
      /\ a.rcode = "success" /\ from # "prefetch" => IsResponseCacheable(a)
      /\ a.rcode = "success" /\ from \in {"query", "peer"} =>
           e.got.ttls = Adjusted(a.ttls)
      /\ e.left > 0 /\ from # "redis" => e.left + e.got.age <= Life(a)

(* The key in redis is there for some time, or for ever if the answer has  *)
(* no records.                                                             *)
StoreInv ==
  /\ store \in [got : Copy, left : Nat \cup {Forever}]
  /\ store.left # 0
  /\ store.left = Forever => store.got.ttls = <<>>

(* The inductive invariant: the cache, the key in redis, and what is on    *)
(* the way between them.                                                   *)
CachingInv ==
  /\ cache = None \/ EntryInv(cache)
  /\ store = None \/ StoreInv
  /\ pending \in [Queries -> {None, Waiting} \cup Copy]
  /\ reload \in {None, Waiting}
  /\ count \in 0..(Threshold + 1)
  /\ buffer \in Seq(Copy) /\ Len(buffer) <= BufferCap

-----------------------------------------------------------------------------
(* The least TTL. *)
LEMMA MinOfNat ==
  ASSUME NEW S \in SUBSET Nat, S # {}
  PROVE  Min(S) \in S /\ \A y \in S : Min(S) <= y
  <1> DEFINE less == OpToRel(<, Nat)
  <1>1. \E x \in S : \A y \in S : ~ (<<y, x>> \in less)
    <2>1. IsWellFoundedOn(less, Nat)
      BY NatLessThanWellFounded
    <2> HIDE DEF less
    <2> QED BY <2>1, WFMin
  <1>2. \A x, y \in Nat : ~ (<<y, x>> \in less) => x <= y
    BY DEF OpToRel
  <1> HIDE DEF less
  <1>3. \E x \in S : \A y \in S : x <= y
    BY <1>1, <1>2
  <1> QED BY <1>3 DEF Min

(* adjustTTLs.                                                             *)
LEMMA AdjustIsNat ==
  ASSUME NEW t \in Nat
  PROVE  AdjustTTL(t) \in Nat /\ AdjustTTL(AdjustTTL(t)) = AdjustTTL(t)
  BY CachingAssumption DEF AdjustTTL

LEMMA AdjustedSeq ==
  ASSUME NEW ttls \in Seq(Nat)
  PROVE  /\ Adjusted(ttls) \in Seq(Nat)
         /\ DOMAIN Adjusted(ttls) = DOMAIN ttls
         /\ \A i \in DOMAIN ttls : Adjusted(ttls)[i] = AdjustTTL(ttls[i])
         /\ Adjusted(Adjusted(ttls)) = Adjusted(ttls)
         /\ Adjusted(ttls) = <<>> <=> ttls = <<>>
  <1>1. /\ DOMAIN Adjusted(ttls) = 1..Len(ttls) /\ DOMAIN ttls = 1..Len(ttls)
        /\ \A i \in 1..Len(ttls) : Adjusted(ttls)[i] = AdjustTTL(ttls[i])
    BY DEF Adjusted
  <1>2. \A i \in 1..Len(ttls) : ttls[i] \in Nat
    OBVIOUS
  <1>3. Adjusted(ttls) \in Seq(Nat) /\ Len(Adjusted(ttls)) = Len(ttls)
    BY <1>1, <1>2, AdjustIsNat DEF Adjusted
  <1>4. Adjusted(Adjusted(ttls)) = Adjusted(ttls)
    BY <1>1, <1>2, AdjustIsNat DEF Adjusted
  <1> QED BY <1>1, <1>3, <1>4

(* The time an answer is cached for is that of its record with the least   *)
(* adjusted TTL.                                                           *)
LEMMA CacheTTLIsLeast ==
  ASSUME NEW ttls \in Seq(Nat)
  PROVE  /\ CacheTTL(ttls) \in Int
         /\ CacheTTL(Adjusted(ttls)) = CacheTTL(ttls)
         /\ ttls # <<>> => CacheTTL(ttls) = Min(ToSetOf(Adjusted(ttls)))
  <1>1. CASE ttls = <<>>
    BY <1>1, AdjustedSeq, CachingAssumption DEF CacheTTL
  <1>2. CASE ttls # <<>>
    <2>1. ToSetOf(Adjusted(ttls)) \in SUBSET Nat /\ ToSetOf(Adjusted(ttls)) # {}
      BY <1>2, AdjustedSeq DEF ToSetOf
    <2>2. Min(ToSetOf(Adjusted(ttls))) \in Nat
      BY <2>1, MinOfNat
    <2> QED BY <1>2, <2>2, AdjustedSeq DEF CacheTTL
  <1> QED BY <1>1, <1>2

(* A key is written to redis with a positive expiration, or with none.     *)
LEMMA RedisTTLIsPositive ==
  ASSUME NEW ttls \in Seq(Nat)
  PROVE  /\ ttls = <<>> => RedisTTL(ttls) = Forever
         /\ ttls # <<>> => RedisTTL(ttls) \in Nat /\ RedisTTL(ttls) # 0
  <1>1. CASE ttls = <<>>
    BY <1>1 DEF RedisTTL
  <1>2. CASE ttls # <<>>
    <2>1. ToSetOf(ttls) \in SUBSET Nat /\ ToSetOf(ttls) # {}
      <3>1. 1 \in DOMAIN ttls /\ \A i \in DOMAIN ttls : ttls[i] \in Nat
        BY <1>2
      <3> QED BY <3>1 DEF ToSetOf
    <2>2. Min(ToSetOf(ttls)) \in Nat
      BY <2>1, MinOfNat
    <2> QED BY <1>2, <2>2 DEF RedisTTL
  <1> QED BY <1>1, <1>2

-----------------------------------------------------------------------------
LEMMA GotIsCopy ==
  ASSUME NEW a \in Answers, NEW ttls \in Seq(Nat), NEW from \in {"query", "peer", "prefetch"}
  PROVE  /\ a.ttls \in Seq(Nat) /\ Got(a, ttls, from) \in Copy
         /\ Got(a, ttls, from).answer = a /\ Got(a, ttls, from).ttls = ttls
         /\ Got(a, ttls, from).age = 0 /\ Got(a, ttls, from).from = from
  BY CachingAssumption DEF Got, Copy, Answer

LEMMA AnswerTTLs == \A a \in Answers : a.ttls \in Seq(Nat)
  BY CachingAssumption DEF Answer

LEMMA CopyAdjusted ==
  ASSUME NEW g \in Copy
  PROVE  LET h == [g EXCEPT !.ttls = Adjusted(@)]
         IN  /\ h \in Copy /\ h.answer = g.answer /\ h.ttls = Adjusted(g.ttls)
             /\ h.age = g.age /\ h.from = g.from
  BY AdjustedSeq DEF Copy

(* putInCache keeps an entry, or a checked copy with the adjusted TTLs,    *)
(* for the life of its answer if its TTLs are those of the answer.         *)
LEMMA PutInCacheGood ==
  ASSUME cache = None \/ EntryInv(cache), NEW g \in Copy, g.from # "prefetch",
         g.from \in {"query", "peer"} =>
           /\ g.age = 0
           /\ g.ttls = g.answer.ttls \/ g.ttls = Adjusted(g.answer.ttls)
  PROVE  PutInCache(g) = None \/ EntryInv(PutInCache(g))
  <1> DEFINE h == [g EXCEPT !.ttls = Adjusted(@)]
             a == g.answer
  <1>1. /\ h \in Copy /\ h.answer = a /\ h.ttls = Adjusted(g.ttls)
        /\ h.age = g.age /\ h.from = g.from
    BY CopyAdjusted
  <1>2. a \in Answers /\ a.ttls \in Seq(Nat) /\ g.ttls \in Seq(Nat) /\ g.age \in Nat
        /\ g.from \in {"query", "peer", "prefetch", "redis"}
    BY AnswerTTLs DEF Copy
  <1>3. PutInCache(g) = IF a.rcode = "success" /\ IsResponseCacheable(a)
                        THEN Put(h, CacheTTL(g.ttls))
                        ELSE IF a.rcode = "nxdomain" /\ NegativeTime > 0
                        THEN Put(h, NegativeTime)
                        ELSE cache
    BY DEF PutInCache
  <1>4. g.from \in {"query", "peer"} =>
          Adjusted(g.ttls) = Adjusted(a.ttls) /\ CacheTTL(g.ttls) = CacheTTL(a.ttls)
    BY <1>2, AdjustedSeq, CacheTTLIsLeast
  <1>5. CacheTTL(g.ttls) \in Int /\ NegativeTime \in Int
    BY SMTT(20), <1>2, CacheTTLIsLeast, CachingAssumption
  <1> HIDE DEF h
  <1>6. ASSUME NEW ttl \in Int, ttl > 0, a.rcode \in {"success", "nxdomain"},
               a.rcode = "success" => IsResponseCacheable(a),
               g.from \in {"query", "peer"} => ttl = Life(a)
        PROVE  EntryInv(Put(h, ttl))
    <2>1. Put(h, ttl) = [got |-> h, left |-> ttl]
      BY <1>6 DEF Put
    <2>2. /\ Put(h, ttl).got = h /\ Put(h, ttl).left = ttl
      BY <2>1
    <2>3. h.from # "redis" => ttl + h.age <= Life(h.answer)
      <3>1. SUFFICES ASSUME h.from # "redis" PROVE ttl + h.age <= Life(h.answer)
        OBVIOUS
      <3>2. ttl = Life(h.answer) /\ h.age = 0
        BY <1>1, <1>2, <1>6, <3>1
      <3> QED BY <1>6, <3>2
    <2> QED BY SMTT(20), <1>1, <1>2, <1>4, <1>6, <2>2, <2>3 DEF EntryInv
  <1>7. CASE a.rcode = "success" /\ IsResponseCacheable(a)
    <2>1. PutInCache(g) = Put(h, CacheTTL(g.ttls))
      BY <1>3, <1>7
    <2>2. CASE CacheTTL(g.ttls) > 0
      <3>1. g.from \in {"query", "peer"} => CacheTTL(g.ttls) = Life(a)
        BY <1>4, <1>7 DEF Life
      <3> QED BY <1>5, <1>6, <1>7, <2>1, <2>2, <3>1
    <2>3. CASE ~(CacheTTL(g.ttls) > 0)
      BY <2>1, <2>3 DEF Put
    <2> QED BY <2>2, <2>3
  <1>8. CASE a.rcode = "nxdomain" /\ NegativeTime > 0
    <2>1. PutInCache(g) = Put(h, NegativeTime)
      BY <1>3, <1>8
    <2>2. NegativeTime = Life(a)
      BY <1>8 DEF Life
    <2> QED BY <1>5, <1>6, <1>8, <2>1, <2>2
  <1> QED BY <1>3, <1>7, <1>8

(* A step that leaves the queries, the buffer and redis alone. *)
LEMMA OnlyTheCache ==
  ASSUME CachingInv, UNCHANGED <<pending, buffer, store>>,
         reload' \in {None, Waiting}, count' \in 0..(Threshold + 1),
         cache' = None \/ EntryInv(cache')
  PROVE  CachingInv'
  <1>1. (cache = None \/ EntryInv(cache))'
    OBVIOUS
  <1> QED BY <1>1 DEF CachingInv, StoreInv

LEMMA CachingInitial == CachingInit => CachingInv
  BY CachingAssumption DEF CachingInit, CachingInv

LEMMA TrackKeeps ==
  ASSUME CachingInv, Track PROVE count' \in 0..(Threshold + 1)
  BY CachingAssumption DEF CachingInv, Track

(* One lemma for each action.                                              *)
LEMMA QueryKeeps ==
  ASSUME CachingInv, NEW q \in Queries, Hit(q) \/ Miss(q) \/ NextFails(q)
  PROVE  CachingInv'
  <1>1. /\ UNCHANGED <<cache, reload, buffer, store>>
        /\ pending' \in [Queries -> {None, Waiting} \cup Copy]
    BY DEF CachingInv, Hit, Miss, NextFails
  <1>2. count' \in 0..(Threshold + 1)
    BY TrackKeeps DEF Hit, Miss, NextFails, CachingInv
  <1> QED BY <1>1, <1>2 DEF CachingInv, StoreInv

LEMMA NextAnswersKeeps ==
  ASSUME CachingInv, NEW q \in Queries, NEW a \in Answers, NextAnswers(q, a)
  PROVE  CachingInv'
  <1> DEFINE g == Got(a, a.ttls, "query")
  <1>1. /\ g \in Copy /\ g.answer = a /\ g.ttls = a.ttls /\ g.age = 0 /\ g.from = "query"
    BY GotIsCopy, AnswerTTLs
  <1> HIDE DEF g
  <1>2. [g EXCEPT !.ttls = Adjusted(@)] \in Copy
    BY <1>1, CopyAdjusted
  <1>3. cache' = PutInCache(g)
    BY DEF NextAnswers, g
  <1>4. (cache = None \/ EntryInv(cache))'
    BY <1>1, <1>3, PutInCacheGood DEF CachingInv
  <1>5. pending' \in [Queries -> {None, Waiting} \cup Copy]
    <2>1. pending' = [pending EXCEPT
            ![q] = IF Redis THEN [g EXCEPT !.ttls = Adjusted(@)] ELSE None]
      BY DEF NextAnswers, g
    <2> QED BY <1>2, <2>1 DEF CachingInv
  <1>6. UNCHANGED <<reload, count, buffer, store>>
    BY DEF NextAnswers
  <1> QED BY <1>4, <1>5, <1>6 DEF CachingInv, StoreInv

LEMMA PublishCacheKeeps ==
  ASSUME CachingInv, NEW q \in Queries, PublishCache(q)
  PROVE  CachingInv'
  <1>1. /\ pending[q] \in Copy /\ Len(buffer) < BufferCap
        /\ buffer' = Append(buffer, pending[q]) /\ buffer \in Seq(Copy)
        /\ pending' = [pending EXCEPT ![q] = None]
        /\ UNCHANGED <<cache, reload, count, store>>
    BY SMTT(20) DEF CachingInv, PublishCache, ToPublish
  <1>2. buffer' \in Seq(Copy) /\ Len(buffer') <= BufferCap
    BY <1>1, CachingAssumption
  <1> QED BY <1>1, <1>2 DEF CachingInv, StoreInv

LEMMA ExpireKeeps ==
  ASSUME CachingInv, Expire \/ ReloadFails \/ Evict \/ FlushCaches
  PROVE  CachingInv'
  <1>1. /\ UNCHANGED <<pending, buffer, store>>
        /\ reload' \in {None, Waiting} /\ cache' \in {cache, None}
        /\ count' \in {count, 0}
    BY DEF CachingInv, Expire, ReloadFails, Evict, FlushCaches
  <1>2. count' \in 0..(Threshold + 1)
    BY <1>1, CachingAssumption DEF CachingInv
  <1> QED BY <1>1, <1>2, OnlyTheCache DEF CachingInv

LEMMA ReloadKeeps ==
  ASSUME CachingInv, NEW a \in Answers, Reload(a)
  PROVE  CachingInv'
  <1> DEFINE g == Got(a, a.ttls, "prefetch")
  <1>1. /\ g \in Copy /\ g.answer = a /\ g.ttls = a.ttls /\ g.age = 0 /\ g.from = "prefetch"
    BY GotIsCopy, AnswerTTLs
  <1>2. CacheTTL(a.ttls) \in Int
    BY AnswerTTLs, CacheTTLIsLeast
  <1>3. cache' = None \/ EntryInv(cache')
    <2> SUFFICES ASSUME a.rcode = "success", CacheTTL(a.ttls) > 0
                 PROVE  EntryInv(cache')
      BY DEF Reload
    <2>1. cache' = [got |-> g, left |-> CacheTTL(a.ttls)]
      BY DEF Reload, Put
    <2>2. Life(a) = CacheTTL(a.ttls)
      BY DEF Life
    <2> HIDE DEF g
    <2>3. cache'.got = g /\ cache'.left = CacheTTL(a.ttls)
      BY <2>1
    <2> QED BY <1>1, <1>2, <2>2, <2>3 DEF EntryInv
  <1> QED BY <1>3, OnlyTheCache DEF Reload, CachingInv

LEMMA ReceiveKeeps ==
  ASSUME CachingInv, NEW a \in Answers, ReceiveFromPeer(a)
  PROVE  CachingInv'
  <1> DEFINE g == Got(a, Adjusted(a.ttls), "peer")
  <1>1. Adjusted(a.ttls) \in Seq(Nat)
    BY AnswerTTLs, AdjustedSeq
  <1>2. /\ g \in Copy /\ g.answer = a /\ g.ttls = Adjusted(a.ttls)
        /\ g.age = 0 /\ g.from = "peer"
    BY <1>1, GotIsCopy
  <1>3. cache' = PutInCache(g)
    BY DEF ReceiveFromPeer
  <1> HIDE DEF g
  <1>4. cache' = None \/ EntryInv(cache')
    BY <1>2, <1>3, PutInCacheGood DEF CachingInv
  <1> QED BY <1>4, OnlyTheCache DEF ReceiveFromPeer, CachingInv

LEMMA PublishFromBufferKeeps ==
  ASSUME CachingInv, PublishFromBuffer PROVE CachingInv'
  <1> DEFINE g == Head(buffer)
  <1>1. g \in Copy /\ Tail(buffer) \in Seq(Copy) /\ Len(Tail(buffer)) <= BufferCap
    BY CachingAssumption DEF CachingInv, PublishFromBuffer
  <1>2. /\ store' = [got |-> g, left |-> RedisTTL(g.ttls)] /\ buffer' = Tail(buffer)
        /\ UNCHANGED <<cache, pending, reload, count>>
    BY DEF PublishFromBuffer
  <1> HIDE DEF g
  <1>3. g.ttls \in Seq(Nat)
    BY <1>1 DEF Copy
  <1>4. /\ store'.got = g /\ store'.left = RedisTTL(g.ttls)
        /\ RedisTTL(g.ttls) \in Nat \cup {Forever} /\ RedisTTL(g.ttls) # 0
        /\ RedisTTL(g.ttls) = Forever => g.ttls = <<>>
    BY <1>2, <1>3, RedisTTLIsPositive DEF Forever
  <1>5. StoreInv'
    BY <1>1, <1>2, <1>4 DEF StoreInv
  <1> QED BY <1>1, <1>2, <1>5 DEF CachingInv

LEMMA RestartKeeps ==
  ASSUME CachingInv, Restart PROVE CachingInv'
  BY CachingAssumption DEF CachingInv, Restart, StoreInv

LEMMA ReadStoreKeeps ==
  ASSUME CachingInv, ReadStore PROVE CachingInv'
  <1>1. /\ UNCHANGED <<pending, reload, count, buffer, store>>
        /\ cache = None \/ EntryInv(cache)
        /\ store = None \/ StoreInv
    BY DEF CachingInv, ReadStore
  <1>2. CASE store = None
    BY <1>1, <1>2, OnlyTheCache DEF ReadStore, CachingInv
  <1>3. CASE store # None
    <2> DEFINE g == store.got
               c == Converted(g, store.left)
    <2>1. /\ g \in Copy /\ store.left \in Nat \cup {Forever}
          /\ store.left = Forever => g.ttls = <<>>
      BY <1>1, <1>3 DEF CachingInv, StoreInv
    <2> DEFINE new == [i \in DOMAIN g.ttls |-> store.left]
    <2>2. new \in Seq(Nat)
      <3>1. g.ttls \in Seq(Nat)
        BY <2>1 DEF Copy
      <3>2. CASE g.ttls = <<>>
        BY <3>2
      <3>3. CASE store.left \in Nat
        BY <3>1, <3>3
      <3> QED BY <2>1, <3>2, <3>3
    <2>3. c = [g EXCEPT !.ttls = new, !.from = "redis"]
      BY DEF Converted
    <2> HIDE DEF c, new, g
    <2>4. c \in Copy /\ c.from = "redis"
      BY <2>1, <2>2, <2>3 DEF Copy
    <2>5. cache' = PutInCache(c)
      BY <1>3 DEF ReadStore, c, g
    <2>6. cache' = None \/ EntryInv(cache')
      BY <2>4, <2>5, PutInCacheGood DEF CachingInv
    <2> QED BY <1>1, <2>6, OnlyTheCache DEF CachingInv
  <1> QED BY <1>2, <1>3

LEMMA TickKeeps ==
  ASSUME CachingInv, Tick PROVE CachingInv'
  <1>1. cache' = None \/ EntryInv(cache')
    <2> SUFFICES ASSUME cache # None PROVE EntryInv(cache')
      BY DEF Tick
    <2> DEFINE g == cache.got
    <2>1. EntryInv(cache)
      BY DEF CachingInv
    <2>2. g \in Copy /\ cache.left \in Nat /\ g.age \in Nat /\ MaxAge \in Nat
      BY <2>1, CachingAssumption DEF EntryInv, Copy
    <2>3. cache' = [got |-> Older(g), left |-> IF cache.left > 0 THEN cache.left - 1 ELSE 0]
      BY DEF Tick
    <2>4. /\ cache'.got = Older(g) /\ cache'.left \in Nat
          /\ cache'.left > 0 => cache.left > 0 /\ cache'.left = cache.left - 1
      BY <2>2, <2>3
    <2> HIDE DEF g
    <2>5. /\ Older(g) \in Copy /\ Older(g).answer = g.answer /\ Older(g).ttls = g.ttls
          /\ Older(g).from = g.from /\ Older(g).age <= g.age + 1
      BY <2>2 DEF Older, Copy
    <2>6. cache'.left > 0 /\ g.from # "redis" => cache'.left + Older(g).age <= Life(g.answer)
      <3> SUFFICES ASSUME cache'.left > 0, g.from # "redis"
                   PROVE  cache'.left + Older(g).age <= Life(g.answer)
        OBVIOUS
      <3>1. cache.left + g.age <= Life(g.answer)
        BY <2>1, <2>4 DEF EntryInv, g
      <3>2. Older(g).age \in Nat
        BY <2>5 DEF Copy
      <3>3. Life(g.answer) \in Int
        BY <2>2, AnswerTTLs, CacheTTLIsLeast, CachingAssumption DEF Life, Copy
      <3> QED BY <2>2, <2>4, <2>5, <3>1, <3>2, <3>3
    <2> QED BY <2>1, <2>4, <2>5, <2>6 DEF EntryInv, g
  <1>2. (store = None \/ StoreInv)'
    <2> SUFFICES ASSUME store # None, store.left # 1 PROVE StoreInv'
      BY DEF Tick
    <2>1. store \in [got : Copy, left : Nat \cup {Forever}] /\ store.left # 0
          /\ (store.left = Forever => store.got.ttls = <<>>)
      BY DEF CachingInv, StoreInv
    <2>2. store' = [store EXCEPT !.left = IF @ = Forever THEN @ ELSE @ - 1]
      BY DEF Tick
    <2>3. /\ store' \in [got : Copy, left : Nat \cup {Forever}]
          /\ store'.got = store.got /\ store'.left # 0
          /\ store'.left = Forever => store.left = Forever
      BY <2>1, <2>2 DEF Forever
    <2> QED BY <2>1, <2>3 DEF StoreInv
  <1>3. (cache = None \/ EntryInv(cache))'
    BY <1>1
  <1> QED BY <1>2, <1>3 DEF CachingInv, Tick

(* Every way into the cache (queries, other instances, prefetches, redis)  *)
(* leaves an entry that keeps to its time, and redis keeps copies of       *)
(* answers.                                                                *)
THEOREM CachingInvariance == CachingSpec => []CachingInv
  <1>1. CachingInv /\ [CachingNext]_cachingVars => CachingInv'
    <2> SUFFICES ASSUME CachingInv, [CachingNext]_cachingVars PROVE CachingInv'
      OBVIOUS
    <2>1. CASE UNCHANGED cachingVars
      BY <2>1, OnlyTheCache DEF cachingVars, CachingInv
    <2> QED BY <2>1, QueryKeeps, NextAnswersKeeps, PublishCacheKeeps, ExpireKeeps,
               ReloadKeeps, ReceiveKeeps, PublishFromBufferKeeps, RestartKeeps,
               ReadStoreKeeps, TickKeeps DEF CachingNext, QueryStep
  <1> QED BY <1>1, CachingInitial, PTL DEF CachingSpec

(* The cache, redis and the buffer of PublishCache keep their types, and   *)
(* the buffer never holds more than its capacity.                          *)
THEOREM CachingTypeCorrect == CachingSpec => []CachingTypeOK
  <1>1. ASSUME CachingInv PROVE CachingTypeOK
    <2>1. cache # None => cache.left \in Nat /\ cache.got.answer \in Answers
      BY <1>1 DEF CachingInv, EntryInv, Copy
    <2>2. \A q \in Queries : ToPublish(pending[q]) => pending[q].answer \in Answers
      <3>1. \A q \in Queries : ToPublish(pending[q]) => pending[q] \in Copy
        BY <1>1 DEF CachingInv, ToPublish
      <3> QED BY <3>1 DEF Copy
    <2> QED BY <1>1, <2>1, <2>2 DEF CachingInv, StoreInv, CachingTypeOK
  <1> QED BY <1>1, CachingInvariance, PTL

(* putInCache keeps no truncated answer and none with the CD flag, except  *)
(* for NXDOMAIN answers and those of prefetches; for any answers and any   *)
(* way into the cache.                                                     *)
THEOREM PositiveAlwaysCacheable == CachingSpec => []PositiveIsCacheable
  <1>1. CachingInv => PositiveIsCacheable
    BY DEF CachingInv, EntryInv, PositiveIsCacheable, IsResponseCacheable
  <1> QED BY <1>1, CachingInvariance, PTL

(* No answer is kept or announced for longer than its upstream and the     *)
(* configured limits allow, for any TTLs, limits and number of queries;    *)
(* answers that redis brought after a restart and the records of           *)
(* prefetched answers are excepted, as the code makes them.                *)
THEOREM ServedTTLsAlwaysHonest == CachingSpec => []ServedTTLsHonest
  <1>1. ASSUME CachingInv PROVE ServedTTLsHonest
    <2> DEFINE a == cache.got.answer
    <2> SUFFICES ASSUME cache # None, cache.left > 0, cache.got.from # "redis"
                 PROVE  /\ cache.left + cache.got.age <= Life(a)
                        /\ a.rcode = "success" /\ cache.got.from # "prefetch" =>
                             \A i \in DOMAIN a.ttls :
                               ServedTTL(i) + cache.got.age <= AdjustTTL(a.ttls[i])
      BY DEF ServedTTLsHonest
    <2>1. EntryInv(cache)
      BY <1>1 DEF CachingInv
    <2>2. cache.left + cache.got.age <= Life(a)
      BY <2>1 DEF EntryInv
    <2>3. a \in Answers /\ a.ttls \in Seq(Nat) /\ cache.got.age \in Nat /\ cache.left \in Nat
          /\ cache.got.from \in {"query", "peer", "prefetch", "redis"}
      BY <2>1, AnswerTTLs DEF EntryInv, Copy
    <2>4. ASSUME a.rcode = "success", cache.got.from # "prefetch", NEW i \in DOMAIN a.ttls
          PROVE  ServedTTL(i) + cache.got.age <= AdjustTTL(a.ttls[i])
      <3> DEFINE least == Min(ToSetOf(Adjusted(a.ttls)))
      <3>1. cache.got.ttls = Adjusted(a.ttls)
        BY <2>1, <2>3, <2>4 DEF EntryInv
      <3>2. a.ttls # <<>>
        BY <2>3
      <3>3. least = CacheTTL(a.ttls) /\ least \in Int
        BY <2>3, <3>2, CacheTTLIsLeast
      <3>4. Life(a) = least
        BY <2>4, <3>3 DEF Life
      <3>5. cache.got.ttls[i] = AdjustTTL(a.ttls[i]) /\ AdjustTTL(a.ttls[i]) \in Nat
        <4>1. a.ttls[i] \in Nat
          BY <2>3
        <4>2. Adjusted(a.ttls)[i] = AdjustTTL(a.ttls[i])
          BY DEF Adjusted
        <4> QED BY <3>1, <4>1, <4>2, AdjustIsNat
      <3>6. ServedTTL(i) = AdjustTTL(a.ttls[i]) - least + cache.left
        BY <3>1, <3>5 DEF ServedTTL
      <3> HIDE DEF least
      <3> QED BY <2>2, <2>3, <3>3, <3>4, <3>5, <3>6
    <2> QED BY <2>2, <2>4
  <1> QED BY <1>1, CachingInvariance, PTL
=============================================================================
