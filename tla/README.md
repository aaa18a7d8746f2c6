# A TLA+ model of blocky

blocky is a DNS proxy that blocks names on lists. A query runs through a chain of
resolvers (`resolver/`), each of which answers, changes the request, or hands it to the
next one. This directory models the parts of that chain that keep state and are shared
by concurrent queries, REST calls, timers, background refreshes and other instances, the
resolvers that answer from the configuration, and the server around the chain.

## 1. The system

| part | code | state | operations | interacts with |
|---|---|---|---|---|
| blocking control | `resolver/blocking_resolver.go`, `api/` | `status`: enabled, disabled groups, timer, end; RW lock | enable, disable (duration, groups), timer callback, status | REST, redis, metrics |
| blocking decision | `resolver/blocking_resolver.go` | none of its own | groups of a client, allowlist, denylist, check of the answer | status, lists, next resolver |
| lists | `lists/`, `cache/stringcache/`, `trie/` | three caches per list, one map of groups each | refresh (periodic, REST), lookup | downloader, blocking decision |
| caching, prefetching | `resolver/caching_resolver.go`, `cache/prefetching/` | result cache, query counters | lookup, put, expiry, reload, flush | redis, next resolver |
| redis client | `redis/redis.go` | send buffer, two receive channels | publish, receive, load at the start | blocking control, caching |
| upstream groups | `resolver/parallel_best_resolver.go`, `resolver/strict_resolver.go` | the resolvers, time of the last error of each | choose, race, retry; exchange after initialisation | upstream client, bootstrap |
| upstream tree | `resolver/upstream_tree_resolver.go` | none | choose the group of a client | client names, upstream groups |
| upstream client | `resolver/upstream_resolver.go` | connections | race of TCP and UDP, retry after timeouts | bootstrap (addresses) |
| bootstrap | `resolver/bootstrap.go` | addresses of upstreams | resolve, dial | upstream client, downloader |
| query log | `resolver/query_logging_resolver.go`, `querylog/` | bounded channel, pending database entries | log, bulk write, clean-up | all queries |
| custom DNS, hosts file, rewriter, conditional | `resolver/*_resolver.go` | hosts (refreshed) | resolve, CNAME chains, fallback | next resolver |
| client names | `resolver/client_names_resolver.go` | cache of names | reverse lookup | upstream client |
| ECS, EDE, filtering, FQDN only, SUDN, metrics | `resolver/*_resolver.go` | none | change or answer a message | next resolver |
| server | `server/`, `cmd/serve.go` | listeners | start, stop, handle a message, DoH | chain, REST |
| configuration | `config/` | none after the start | decode, initialisation strategies, periodic refresh | all |

What is hard to test here: the order in which REST calls, timer callbacks and redis
messages reach the status; a read lock that is taken twice; lists and resolvers that
are exchanged under a running query; answers that reach the cache on four ways; messages
that are lost, and instances that restart; channels that are full, and goroutines that
wait for each other through them; the end of the program while queries run. `PROJECT.json` lists
these hazards at their lines, with the properties that cover them.

## 2. Modules

| module | models | state and actions |
|---|---|---|
| `BlockingStatus` | the `status` struct and its operations as functions on a record | no variables; shared by the next modules |
| `Blocking` | one resolver: REST calls, timer, late callbacks | `status`; `EnableBlocking`, `DisableBlocking`, `TimerFires`, `CallbackEnables`, `Tick` |
| `StatusLock` | `sync.RWMutex` of the status and the goroutines that use it | locks held and waited for, progress of each reader; one action per lock operation |
| `AtomicStatus` | what the lock promises: a query gets the groups of one status in one step | `Ask`, `Answer`, `Change`; `StatusLock` implements it |
| `RedisClient` | the redis client between the resolvers, composed with `StatusLock` | `StatusLock` and the lengths of three channels, the stage of the worker and of the subscriber; one action per send and receive |
| `BlockingSync` | several resolvers and the redis channel | a status, a bag of outgoing and a queue of incoming messages per instance; calls, publish, loss, receive, restart |
| `BlockingResolve` | `Resolve` for one question while status and lists change | one action per lookup, since each sees the list of its moment |
| `ListCache` | refresh of groups and lookups in the three caches | stage of every refresh, list in every cache; `Collect`, `Finish` (one cache at a time), `LookupGroup`, `NextCache` |
| `StringCaches` | what a list matches: regexes, trie, sorted buckets | regexes, trie as a function from label paths to nodes, sorted buckets, calls of `insert` under way; `AddEntry`, and a round of `insert` in four actions; compared with what the entries stand for |
| `Caching` | one key of the cache, prefetching, send buffer, redis | entry with the time left and the age of its answer; `Hit`, `Miss`, `NextAnswers`, `Expire`, `Reload`, `PublishCache`, `ReadStore`, ... |
| `UpstreamGroup` | parallel_best, random and strict, and the exchange of the resolvers | calls under way, results in the channel; `Start`, `CallAnswers`, `CallFails`, `CallCancelled`, `TakeError`, `RetryWithDifferent`, ... |
| `UpstreamClient` | one query of an upstream, with the bootstrap | addresses and index, exchanges of every attempt, the channel of the race; `Lookup`, `Call`, `EndExchange`, `ReceiveFirst`, `ReceiveSecond` |
| `ResolverChain` | filtering, FQDN-only, custom DNS, rewriters, conditional upstreams and special-use domains; `HandleReq` of the server | a configuration, a request, the stack of calls of the custom DNS resolver, and the reply; `Ask`, `Resolve`, `ProcessDNSEntry`, `EndEntries`; the resolvers without recursion are operators |
| `ClientNames` | the names of a client and the group of upstreams they select | the cached names, lookups under way, what the router says; `QueryHits`, `QueryMisses`, `RouterAnswers`, `QueryPuts`, `Removed`, `Tick` |
| `HostsFile` | loading and lookup of hosts files, with the strategies of the start and the periodic refresh | the maps, the stage of both loaders, the copy of a query; `Start`, `StartLoad`, `LoadSucceeds`, `LoadFails`, `Assign`, `CopyMap`, `GetIP` |
| `QueryLog` | the channel of the query log and the database writer | the entries in the channel, in hand and collected; `LogEntry`, `TakeEntry`, `WriteEntry`, `StartDBWrite`, `WriteBulk`, `EndDBWrite` |
| `Server` | listeners, queries, signals, Stop and the end, composed with `QueryLog` | the stage of every listener and query, the two channels of `startServer`; `Receive`, `Log`, `Reply`, `HandleSignal`, `StopListening`, `StopServer`, `Exit`, ... |

`BlockingStatus` is where the parts meet: `Blocking`, `BlockingSync` and
`BlockingResolve` use the same functions for it, so what is proved about them once holds
in all three. `RedisClient` extends `StatusLock` and takes its steps, and `Server` extends
`QueryLog`, so that what one part waits for in the other is in the model. Each `MC` module
gives the constants of its module their values.
`...Proofs` modules hold theorems. An operator under a comment that begins with
"Mistake:" is a wrong variant of the definition after it; it shows that a property
notices the mistake, and no specification uses it.

Abstractions. Names, groups and upstreams are model values; lists are sets of the names
they match (`StringCaches` models the matching itself). Time is relative: variables hold
the time that is left, so no clock grows. In `Caching` ages from `MaxAge` on are one.
History (`promised`, `refused`, `late`, `orderly`, `seen`, `accepted`, `last`, `alone`,
`failures`, `called`, `said`, `loads`, `lastFile`, `apart`, `written`, `dropped`, and the age
and origin of a cached answer) only serves properties; guards read it in three places, the
bounds of `ListCache` and `HostsFile`, and `Tick` of `Blocking`, which stops when nothing
counts down any more. `UpstreamGroup`, `UpstreamClient`, `ResolverChain`, `ClientNames` and
`HostsFile` hold the configuration in a variable that never changes, so that one run covers
all of them. In `ResolverChain` domains are sequences of labels, upstreams answer every name
in one of four ways, and which resolver asked an upstream for which name is part of the
result. Functions of the program that call themselves are stacks of calls in the model:
`processRequest` for the target of a CNAME in `ResolverChain`, and `insert` of the trie in
`StringCaches`; each action is what the last call does until it calls or returns.
`sort.Search` is external and stands in `StringCaches` for what its documentation promises. In `RedisClient` channels are counters, since contents do not matter for who waits
for whom. Weights of upstreams are at least one, so any
upstream that is not excluded may be chosen.

## 3. Runs

Bounds are small but reach the cases that matter: durations below, at and above zero;
two callbacks that wait at once; a call during another; lists that fail, shrink and
change kind; TTLs below, between and above the configured times; channels with room for one
message; fewer and as many addresses as attempts.

Parts that share no state are put side by side in one run where only safety is checked: a
variable `part` is chosen at the start, and in a behaviour only that part moves while the
others rest. Every behaviour of every part is there, and the number of states is their sum.

| run | bounds | shows |
|---|---|---|
| `blocking` | 4 calls, 2 waiting callbacks, 4 durations, known and unknown groups | flag, groups and metric agree; an armed timer belongs to the disable in force; a disable lasts for its time and then ends |
| `redis` | 2 queries with up to 2 groups, a REST call, the subscriber, channels of 1, 1 stored answer | the lock implements a status that is read in one step; everybody goes on, unless the nested read lock stops them |
| `sync` | 2 instances, 3 calls, 1 restart, losses, timers | every instance is consistent, messages die out, and calls that do not overlap synchronise |
| `resolve` | blocking: 3 client identifiers, 3 entries, 2 changes before a query and 2 during it | a verdict is justified by what held during the query |
| | chain: all mappings of 3 domains to addresses and CNAMEs, with rewriting, and a few, one with a type that is not supported, with all combinations of the later resolvers | loops of CNAMEs are found, and only they; a reply fits its request; rewritten and special-use names stay inside; where a request may panic |
| | names: 2 queries in parallel, 2 answers of the router or none, entries that live for 2, a cleanup within 1, answers that take up to 1 | the names of a client are not older than these times together |
| `lists` | lists: 1 group, 2 sources, 2 refreshers, 3 lists | a failed refresh leaves the list alone; a list is replaced as a whole; lookups are right |
| | entries: 8 names of up to 3 labels, 23 entries with `*.` and invalid ones, lists of 4 | lists match what their entries stand for |
| | hosts: 2 names, 4 files, 2 loaders, 3 loads, all strategies | a lookup is right although the maps are not protected; the last file is in force |
| `caching` | 2 queries, 6 answers, prefetching and redis, buffer of 1 | nothing is served too long or with too large a TTL; uncacheable answers are not cached |
| `group` | 2 upstreams and the bootstrap, 2 queries, all nine pairs of strategies | a query ends, and fails only if what it had to ask failed; the second attempt has an upstream to ask; losers of a race are not blamed |
| `client` | 2 addresses, lists of 0 to 2, 3 attempts, 3 kinds of upstream, 4 ways to look it up | a query returns the best that it can get, uses every address before it times out, and leaves no goroutine behind |
| `server` | UDP, TCP and HTTP, a query for each, channel of 1, bulks of 2 | log entries are tried exactly once and in order; queries are replied to although the database hangs; a signal ends the program; a Stop that succeeds cuts no DNS query off |

Groups of lists are refreshed and looked up independently of each other, so one group is
enough. Two upstreams are the tight case of a second attempt and of a race. Three calls
are enough for one call that overlaps with the effects of another and one that repairs or
spoils the result. Two DNS servers are the first case in which Stop can fail between two of
them; the HTTP server is different as nothing stops it before the end.

Where a run says `CHECK_DEADLOCK FALSE`, the model may stop: calls are bounded, or all
queries are done.

### Disagreements

These runs state what a comment or a test says, and TLC finds a behaviour of the model
that does otherwise. `PROJECT.json` quotes the lines.

| run | behaviour |
|---|---|
| `blocking_rejected` | A disable with an unknown group is refused after the timer was stopped: the disable in force never ends. |
| `lock_nested` | `isGroupDisabled` takes the read lock that its caller holds; with a `Lock` in between, both wait for ever. |
| `lists_mixture` | Two refreshes leave parts of two lists in the three caches. |

### Exceptions in the properties

Some properties hold only with an exception, which the property spells out. Without it
TLC finds these behaviours:

| property | exception |
|---|---|
| `DisableLasts` | `late`: a callback that waits for the lock survives `Timer.Stop` and ends a newer disable. |
| `SynchronizedIfOrderly` | `orderly`: status changes and messages may come in different orders; the timer of each instance publishes an enable message, which may undo a newer disable elsewhere; a restarted instance blocks while the others are disabled; the result of a publish is ignored. |
| `BlockedForAReason` | "All groups" leaves out groups that have only an allowlist (`retrieveAllBlockingGroups`), so their clients are blocked while everything is disabled. |
| `LookupIsRight` | `SameKind`: a lookup misses a name whose entry moves to a cache that was already asked. |
| `PositiveIsCacheable` | NXDOMAIN answers are cached without a look at their flags; a prefetch caches truncated answers. |
| `ServedTTLsHonest` | A prefetch packs the answer before its TTLs are adjusted; redis keeps answers without records for `MaxInt32` seconds, and each start caches them anew. |
| `EverybodyGoesOn` | `Stuck`: once a `Lock` has come between the two read locks of a query, the subscriber waits for ever, then the worker at the full `EnabledChannel`, then every query that publishes. |
| `PanicsOnlyAtATarget` | With `rewrite` in `customDNS`, the custom DNS resolver has no next resolver: a CNAME whose target is not mapped (or, without `filterUnmappedTypes`, not for the type) reads the answer of a response that has none (`custom_dns_resolver.go:284`); the server recovers and replies SERVFAIL, where `docs/configuration.md:341` lets the target be resolved. |
| `AnswersTheRequest` | The refusal of a name without a dot (`fqdn_only_resolver.go:30`) has neither the number nor the question of the request. `ForeignFailure`: the message of an upstream that reports a server failure becomes the reply as it is (`server.go:551`). If a CNAME of custom DNS led there it has the number and the question of the internal request, and if the conditional rewriter did, the rewritten name, since errors return before names are put back (`rewriter_resolver.go:86`). |
| `SpecialStaysInside` | Special-use names are looked up as they are spelled (`sudn_resolver.go:121`): in capitals they go upstream. |
| `NamesAreRecent` | Names that stand for a failed lookup count as names of that time, since they are cached for an hour too. |
| `LastFileInForce` | `apart`: two loads that assign at the same time may leave the hosts of one file and the aliases of the other. |
| `StopsGracefully` | Only if Stop succeeds: without a signal, or if a server had not started, queries are cut off; queries over HTTP and entries of the log that are not written yet always are. |

## 4. Fairness

Weak fairness stands for the Go scheduler (a goroutine that can go on goes on), the
runtime timers and the passage of time. No call, query, refresh, loss or restart is fair.
Calls of upstreams are weakly fair, as every one ends with an answer, an error or a timeout.
In `StatusLock` weak fairness is enough, because `Unlock` admits all readers that wait, and
`RLock` waits for a controller that has called `Lock`.

`RedisClient` has strong fairness for the senders and the receivers that compete:
`PublishCache` and `GetRedisCache`, `HandOnCache` and the call of `Lock` by the subscriber,
as Go channels and locks serve those who wait in the order in which they came; and
`PublishMessageFromBuffer`, as a select with several ready cases chooses among them at
random. Messages of other instances need not come.

`UpstreamClient` has weak fairness for the query and for every exchange, which ends by the
timeout of its context at the latest.

`Server` has weak fairness for the goroutine that waits for a signal and stops, and for the
stages of a query. The goroutines of the log have none: the database may hang. Neither have
listeners, signals and new queries.

## 5. Proofs

TLAPS proves these for all groups, durations, readers, controllers, instances, channels,
attempts, files, lists, configurations, domains, servers, queries and bounds.

| module | theorems | assumptions |
|---|---|---|
| `BlockingStatusProofs` | lemmas: each operation keeps `GoodStatus` | `DurationsAssumption` (durations are integers) |
| `BlockingProofs`, for `Blocking` | `TypeCorrect`, `StatusAlwaysConsistent`, `ArmedTimerAlwaysCurrent`, `DisableAlwaysLasts`, `EndAlwaysComing` | also `BoundsAssumption` |
| `BlockingProofs`, for `StatusLock` | `LockTypeCorrect`, `ExclusionHolds`, `QuerySeesOneStatus`, `LockIsAtomic` (refinement of `AtomicStatus`), `OnlyNestedLockEverStops`, `StuckRemains` | `ReadersAssumption` |
| `BlockingProofs`, for `RedisClient` | `UsesTheLock` (refinement of `StatusLock`), `RedisTypeCorrect`, `RedisKeepsStatusAtomic`, `NobodyEverWaitsInVain` | also `ChannelsAssumption` |
| `BlockingSyncProofs` | `TypeCorrect`, `EveryStatusAlwaysConsistent`, `OrderlyInstancesAgree` | also `SyncAssumption` |
| `ResolverProofs`, for `BlockingResolve` | `ResolveTypeCorrect`, `BlockedAlwaysForAReason`, `DeniedAlwaysBlocked` | `DurationsAssumption`, `ResolveAssumption` |
| `ResolverProofs`, for `ClientNames` | `NamesAlwaysRecent` | `NamesAssumption` |
| `ChainProofs` | `LoopAlwaysIffCycle`, `AlwaysAnswersTheRequest`, `RewritesAlwaysInside`, `SpecialAlwaysInside`, `PanicsAlwaysAtATarget`, `CallsAlwaysBounded` | `ChainAssumption` (mappings are finite and lead from domains to domains) |
| `UpstreamProofs`, for `UpstreamClient` | `ClientTypeCorrect`, `AddressAlwaysThere`, `RaceReturnsBest`, `AlwaysTimesOutLast`, `NobodyEverHangs` | `ClientAssumption`; the last one also a capacity of two |
| `UpstreamProofs`, for `UpstreamGroup` | `GroupTypeCorrect`, `AlwaysFailsForAReason`, `AlwaysSomethingToChoose`, `AlwaysBlamedForFailures`, `QueriesNeverHang` | `GroupAssumption` (upstreams are different, and there is one) |
| `CacheProofs`, for `HostsFile` | `LastFileAlwaysInForce`, `HostsLookupAlwaysRight` | `HostsAssumption` |
| `CacheProofs`, for `ListCache` | `ListTypeCorrect`, `AlwaysLastListInForce`, `ListLookupAlwaysRight` | `ListAssumption` |
| `CacheProofs`, for `Caching` | `CachingTypeCorrect`, `PositiveAlwaysCacheable`, `ServedTTLsAlwaysHonest` | `CachingAssumption` |
| `StringProofs` | `ContainsAlwaysRight` | `StringsAssumption` (the order of strings tells names apart) |
| `ResolverProofs`, for `Server` | `ServerTypeCorrect`, `LogAlwaysAccounted`, `StopIsGraceful` | `LogAssumption`, `ServerAssumption` (at least one DNS server) |

The components of one proof module share no state and no lemmas beyond those about numbers
and sequences, apart from `RedisClient`, which contains the lock of `StatusLock`; each has an
inductive invariant of its own.

* `GoodStatus` joins the type, the consistency and the match of the timer. The match is
  not inductive without the type: that an elapsed timer still equals the remaining time
  needs both to be natural numbers or `Stopped`. A refused call keeps it because it only
  stops the timer.
* `DisableAlwaysLasts` is about steps. It adds `PromiseKept`: an armed timer counts what
  is left of the duration that was asked for, and a callback that waits while blocking is
  disabled is either late or has come when nothing was left.
* In `StatusLock`, `OneStatusPerQuery` is not inductive: one has to know that a changing
  controller is alone. `Exclusion` says so, and it rests on `HoldsLocks`, which says how
  many locks a reader holds at each point, waiting or not. `OwnGroups` bounds what is
  left to test by the groups of the client.
* `LockIsAtomic` maps a query that has left its critical section to one that has its
  answer. The step that leaves it is the abstract answer, because `Exclusion` keeps the
  status as it was when the first group was tested. The proof is a step simulation under
  the inductive invariant. `UsesTheLock` shows that every step of the composition is one of
  the lock or leaves it alone, which carries these results over to `RedisClient`.
* In `BlockingResolve`, the verdict is about the whole time of the query and every lookup
  about a moment. `ListsBetween` and `GroupsBetween` say that lists and groups of a moment lie
  between what held all the time and what held at some time; changes only widen this, so
  what a lookup has shown (`QuestionChecked`, `AnswerChecked`) stays true until the verdict.
* In `UpstreamClient`, `BestOfBoth` needs to know where the results in a channel come from:
  each is of an exchange that has ended, one of each protocol (`Sent`); the first one that
  was received was not usable (`FirstUnusable`), and attempts that have not begun have left
  no traces (`Untouched`).
* `TimesOutLast` counts addresses over all attempts. `GivenUp` keeps that attempts before
  the current one failed with every protocol in use; `Rotates` keeps that the addresses
  called so far are the first ones of the list, as many as there were calls, until the index
  has gone round once (`Visited`). Without the position of the index it is not inductive.
* In `UpstreamGroup`, a query loads the list once, and again for a second attempt, while the
  initialisation may exchange the resolvers. That happens once, from the bootstrap resolver
  to a list of different upstreams (`Exchanged`), so what a query has loaded is the list in
  force or the bootstrap resolver (`Loaded`), and a second upstream is there. A query fails
  for a reason because it has asked different resolvers in the order of its strategy
  (`AskedInTurn`), results and errors are of resolvers it asked (`OnlyAsked`), and until it
  ends they are failures of these and not cancellations (`Genuine`). The number of failures
  in the property is a cardinality; `CountsElements` gets it from the length of a list
  without repetitions.
* In `ClientNames`, ages only grow with time, so the invariant bounds the age of an answer
  while its query waits for the cache (the timeout) and of an entry until its removal, and
  says for both that the router gave these names within that time (`GivenWithin`).
* In `HostsFile`, the last file is in force because a load that began apart from others is
  alone and has its first map in place when it assigns the second (`LastIsAlone`). Lookups
  are right because each map on its own is that of a file (`MapsSeen`, `CopiesSeen`); with
  `failOnError` this starts to hold when the first load has assigned both (`FirstAlone`).
* In `ListCache`, everything in the caches or about to be was accepted (`WasAccepted`). A
  refresh that was alone when its list was accepted has replaced the caches before the one
  that it is at (`OneAtATime`). `LookupInv` says what a lookup that has asked some of the
  caches for some of the groups has found; a name in an entry of kind k of all lists is
  found when cache k was asked, whatever the refreshes did to the others.
* In `StringCaches`, `ContainsIsRight` speaks of a trie at rest, and `TrieInv` also of one
  into which a wildcard is being inserted. Only parents lead to a node and to the place at
  which a call of `insert` has arrived; a terminal holds a wildcard of the list, and the labels that
  lead to it are the first ones of it; every wildcard has itself or a parent in a terminal or
  in a call under way (`Held`); there are at most two calls, and the first of two finds nothing
  in its place, so that it replaces no node. Without the calls the step that splits a terminal
  loses a wildcard. A bucket is sorted and has the names of its length (`BucketOK`);
  `sort.Search` finds the only place for a name in it, and inserting there keeps it sorted.
* In `ResolverChain`, the property is about the reply, and the reply is made from calls that
  wait for each other. `CallsOK` describes the stack: each call but the last waits at a
  CNAME for the name of the next one (`CallsWait`), the names a call must not meet again are
  on the way to it (`OnTheWay`), and for the entries that a call has done with, the targets
  lead to no cycle (`SettledBefore`), and the records begin at the name of the call
  (`FrameOK`). So a call that returns an answer leads to no cycle, and one that finds its
  name among those on the way closes one. What a name leads to is defined as the least set
  that is closed under CNAMEs, so that facts about chains of any length need no induction.
  `RestOK` says what the resolvers after the custom one return for a request, and `EndOK`
  what the rewriter around it makes of that. `ConfigurationsAreGood` gets the closest
  mapped domain from the order of the numbers, and the counted addresses from finiteness.
* That a request with CNAMEs ends is not proved, but `CallsAlwaysBounded` is: the targets seen
  on the way grow from call to call by the name of the next one (`Descends`), so that no
  target is met twice and the stack is not higher than their number. The first name is no
  target that was seen, so that a cycle through it is found in its second round.
* In `Caching`, `EntryInv` bounds age and remaining time of an entry together by the time it
  was cached for, for every way into the cache, and ties its TTLs to the adjusted ones of
  its answer. `CacheTTLIsLeast` relates the time that `adjustTTLs` returns, which is a
  minimum over the records, to each record; `StoreInv` says that a key in redis expires
  unless its answer has no records.
* In `Server`, `PassedIsQuiet` says that servers before the current one are closed and have
  no query in flight; it is inductive as no step opens a closed listener, and a closed
  listener takes no query. `LogAccounted` is inductive together with the types and the fact
  that only the database writer collects entries; its proof is about concatenation, and the
  only step that cuts a sequence is `WriteBulk`, whose bulk ends where the rest begins.
* In `BlockingSync` a received message may be anything that was published, so the
  invariant also says that every message in a bag or queue names known groups only
  (`InFlight`); bags need the two lemmas `BagAdd` and `BagRemove`.
* `SynchronizedIfOrderly` speaks of the end only. `SyncInv` says how the instances get there
  after an orderly call. Without a timer, all messages under way ask for the same groups T,
  and an instance has T or a message is coming to it. With a timer, instances may differ for
  a while, as each has a timer of its own and publishes when it ends: then every instance is
  enabled, will enable itself, or a message is coming, and every message enables or sets a
  timer (`Settling`). At rest the first gives T everywhere and the second no groups.
* Liveness is out of the prover's reach, but what it rests on is a safety property in five
  places, proved for all constants. A limited disable always has a timer or a callback that
  ends it (`EndAlwaysComing`), which with the types is inductive. With the lock, somebody can
  go on unless a reader waits in its nested `RLock` (`OnlyNestedLockEverStops`): a reader that
  holds a lock and does not wait can take a step, and `HoldsLocks` and `Exclusion` leave no
  other case. `StuckRemains` says that nobody ever resolves this one deadlock.
  `NobodyEverWaitsInVain` follows the waits of `RedisClient` from queries to the
  worker, the subscriber and the lock, and finds somebody who can go on at the end of each.
  An upstream query that waits has a result or a running exchange, since no result gets lost
  between an exchange and its channel (`Awaited`), and the channel has room as there are two
  protocols and each sends once (`Sent`). A query of a group that waits has a result or a
  call under way (`Outstanding`). TLC finds these invariants to hold on the instances of the
  runs, too.

The types of `Blocking`, `BlockingSync`, `RedisClient`, `UpstreamClient` and `Server`, and
`OneStatusPerQuery`, are proved and not repeated in the runs; `StatusIsAtomic` says more than
the latter.

Only model-checked: everything about liveness, which the prover does not cover. All safety
properties of the passing runs are theorems. TLC also finds `ChainInv` (without
`GoodConf`, which quantifies over everything) and `StringsInv` to hold on the instances of
the runs.

## 6. Not modelled

Generated code, command-line clients, decoding of YAML, TLS and HTTP transport, parsers of
lists, the wording of answers and logs: no shared state, or pure input and output. The ECS,
EDE and metrics resolvers, which only change options or count. `web/static/rapidoc-min.js`,
a minified third-party library that shows the API description in a browser.

Within modelled parts: the reply of a block handler, the cache of host name identifiers,
exclusions from caching and the client subnet rule, the dialer of the bootstrap, reverse
lookups in hosts files, the migration and the deletion of old entries in the database, the
truncation of answers to the size that the client allows (which is applied to TCP as well,
`server.go:573`), and the decoding and the TTL of DoH messages.

## 7. Plan

1. Sizes of messages: truncation by the server, and the choice of the protocol.
2. Abstract specifications: a list that is replaced at once (`ListCache` with one
   refresher and names that keep their kind), a switch with a deadline (`Blocking`).
3. Proofs: the refinements of item 2.
