------------------------------ MODULE HostsFile -----------------------------
(***************************************************************************)
(* The hosts file resolver (resolver/hosts_file_resolver.go) and the way   *)
(* its sources are loaded (config.go, StartPeriodicRefresh): at the start, *)
(* as the strategy says, and then periodically.  A load that succeeds      *)
(* assigns two maps, the hosts and the aliases; neither the assignment nor *)
(* the copy that a query makes of the maps is protected, so each map is    *)
(* written and read on its own.  Addresses of the other IP version have    *)
(* two more maps that are treated in the same way.                         *)
(***************************************************************************)
EXTENDS Naturals, FiniteSets

CONSTANTS
  HostNames,    \* names that are asked
  HostsFiles,   \* what the sources may contain: [1..2 -> SUBSET HostNames]
  MaxLoads      \* bound: loads that succeed

(* 1 are the hosts, 2 the aliases. *)
Maps == 1..2

ASSUME HostsAssumption ==
  /\ HostsFiles \subseteq [Maps -> SUBSET HostNames] /\ MaxLoads \in Nat
  /\ "none" \notin HostNames

(* The load of the start and the periodic ones. *)
Loaders == {"first", "periodic"}

VARIABLES
  strategy,   \* of the start, fixed
  started,    \* "no", "yes" or "failed"
  hosts,      \* the maps that queries read
  load,       \* load[l]: stage of the loader l, and what it has read
  loads,      \* history: what was loaded
  lastFile,   \* history: what was loaded last
  apart,      \* history: no other load was being assigned at that time
  ask         \* the query that is running

hostsVars == <<strategy, started, hosts, load, loads, lastFile, apart, ask>>

NoHosts == [m \in Maps |-> {}]

NotLoading == [stage |-> "idle", file |-> NoHosts, map |-> 1]

NoAsk == [name |-> "none", stage |-> "idle", copy |-> NoHosts, found |-> FALSE]

HostsInit ==
  /\ strategy \in {"fast", "blocking", "failOnError"}
  /\ started = "no"
  /\ hosts = NoHosts
  /\ load = [l \in Loaders |-> NotLoading]
  /\ loads = {}
  /\ lastFile = NoHosts
  /\ apart = TRUE
  /\ ask = NoAsk

-----------------------------------------------------------------------------
(* Do: the first load runs before the resolver is there, or beside it. *)
Start ==
  /\ started = "no" /\ load["first"].stage = "idle"
  /\ load' = [load EXCEPT !["first"].stage = "loading"]
  /\ started' = IF strategy = "fast" THEN "yes" ELSE "no"
  /\ UNCHANGED <<strategy, hosts, loads, lastFile, apart, ask>>

(* periodically: a ticker that does not wait for the first load. *)
StartLoad ==
  /\ started = "yes" /\ load["periodic"].stage = "idle"
  /\ load' = [load EXCEPT !["periodic"].stage = "loading"]
  /\ UNCHANGED <<strategy, started, hosts, loads, lastFile, apart, ask>>

(* The resolver is there when the first load has ended. *)
Ended(l, failed) ==
  started' = IF l = "periodic" \/ started = "yes" THEN started
             ELSE IF failed /\ strategy = "failOnError" THEN "failed"
             ELSE "yes"

(* Mistake: the maps of a failed load are assigned. *)
LoadFailsAndAssigns(l) ==
  /\ load[l].stage = "loading"
  /\ load' = [load EXCEPT ![l] = NotLoading]
  /\ hosts' = NoHosts
  /\ Ended(l, TRUE)
  /\ UNCHANGED <<strategy, loads, lastFile, apart, ask>>

(* loadSources: a source fails or panics. *)
LoadFails(l) ==
  /\ load[l].stage = "loading"
  /\ load' = [load EXCEPT ![l] = NotLoading]
  /\ Ended(l, TRUE)
  /\ UNCHANGED <<strategy, hosts, loads, lastFile, apart, ask>>

Assigning == \E l \in Loaders : load[l].stage = "assigning"

LoadSucceeds(l, file) ==
  /\ load[l].stage = "loading" /\ Cardinality(loads) < MaxLoads
  /\ load' = [load EXCEPT ![l] = [stage |-> "assigning", file |-> file, map |-> 1]]
  /\ loads' = loads \cup {file}
  /\ lastFile' = file
  /\ apart' = ~Assigning
  /\ UNCHANGED <<strategy, started, hosts, ask>>

(* Mistake: the resolver is there before the last map is assigned. *)
AssignEarly(l) ==
  /\ load[l].stage = "assigning"
  /\ hosts' = [hosts EXCEPT ![load[l].map] = load[l].file[load[l].map]]
  /\ load' = [load EXCEPT ![l] = IF @.map = 2 THEN NotLoading
                                              ELSE [@ EXCEPT !.map = 2]]
  /\ Ended(l, FALSE)
  /\ UNCHANGED <<strategy, loads, lastFile, apart, ask>>

(* r.hosts = newHosts *)
Assign(l) ==
  LET m == load[l].map
  IN  /\ load[l].stage = "assigning"
      /\ hosts' = [hosts EXCEPT ![m] = load[l].file[m]]
      /\ load' = [load EXCEPT ![l] = IF m = 2 THEN NotLoading
                                              ELSE [@ EXCEPT !.map = 2]]
      /\ IF m = 2 THEN Ended(l, FALSE) ELSE UNCHANGED started
      /\ UNCHANGED <<strategy, loads, lastFile, apart, ask>>

-----------------------------------------------------------------------------
(* Resolve: the maps are copied, one after the other, and looked up. *)
AskHost(n) ==
  /\ started = "yes" /\ ask.stage = "idle"
  /\ ask' = [name |-> n, stage |-> "copied 0", copy |-> NoHosts, found |-> FALSE]
  /\ UNCHANGED <<strategy, started, hosts, load, loads, lastFile, apart>>

CopyMap(m) ==
  /\ ask.stage = (IF m = 1 THEN "copied 0" ELSE "copied 1")
  /\ ask' = [ask EXCEPT !.copy[m] = hosts[m],
                        !.stage = IF m = 1 THEN "copied 1" ELSE "copied 2"]
  /\ UNCHANGED <<strategy, started, hosts, load, loads, lastFile, apart>>

(* getIP *)
GetIP ==
  /\ ask.stage = "copied 2"
  /\ ask' = [ask EXCEPT !.stage = "idle",
                        !.found = \E m \in Maps : ask.name \in ask.copy[m]]
  /\ UNCHANGED <<strategy, started, hosts, load, loads, lastFile, apart>>

HostsNext ==
  \/ Start \/ StartLoad
  \/ \E l \in Loaders :
       \/ LoadFails(l)
       \/ \E file \in HostsFiles : LoadSucceeds(l, file)
       \/ Assign(l)
  \/ \E n \in HostNames : AskHost(n)
  \/ \E m \in Maps : CopyMap(m)
  \/ GetIP

HostsSpec == HostsInit /\ [][HostsNext]_hostsVars

-----------------------------------------------------------------------------
(* Maps that queries may have seen: what was loaded and, unless the first  *)
(* load has to end well, nothing.                                          *)
Seen ==
  IF strategy = "failOnError" THEN loads ELSE loads \cup {NoHosts}

(* A query that is answered while files are loaded finds a name that all   *)
(* of them have as a host, or all as an alias, and finds no name that none *)
(* of them has; nothing loaded at all counts as a file, unless the start   *)
(* has to wait for a load that succeeds.                                   *)
HostsLookupIsRight ==
  ask.name \in HostNames /\ ask.stage = "idle" =>
    /\ ask.found => \E file \in Seen, m \in Maps : ask.name \in file[m]
    /\ (\E m \in Maps : \A file \in Seen : ask.name \in file[m]) => ask.found

(* When no load is being assigned the maps are those of the file that was  *)
(* loaded last: a load that fails changes nothing, and one that succeeds   *)
(* assigns both, unless it came while another one was being assigned.      *)
LastFileInForce == ~Assigning /\ apart => hosts = lastFile
=============================================================================
