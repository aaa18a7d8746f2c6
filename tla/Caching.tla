------------------------------- MODULE Caching ------------------------------
(***************************************************************************)
(* The caching resolver (resolver/caching_resolver.go) with its prefetching*)
(* cache (cache/prefetching) and the part of the redis client that shares  *)
(* answers (redis/redis.go), for one cache key.                            *)
(*                                                                         *)
(* Time is relative: `left` is what is left until something expires, and   *)
(* `age` is the time since the answer in the cache came from the upstream. *)
(***************************************************************************)
EXTENDS Integers, Sequences, FiniteSetsExt

CONSTANTS
  Queries,       \* queries for the key
  Answers,       \* answers of the next resolver, see Answer
  MinTime,       \* cfg.MinCachingTime, 0 for none
  MaxTime,       \* cfg.MaxCachingTime, 0 for none
  NegativeTime,  \* cfg.CacheTimeNegative
  Threshold,     \* cfg.PrefetchThreshold
  Prefetching,   \* cfg.Prefetching
  Redis,         \* a redis client is configured
  BufferCap,     \* capacity of sendBuffer
  MaxAge,        \* bound: ages are not told apart from here on
  None, Waiting  \* no value, and waiting for the next resolver

(* ttls are those of the records of the answer section. *)
Answer ==
  [rcode : {"success", "nxdomain", "servfail"}, ttls : Seq(Nat),
   truncated : BOOLEAN, cd : BOOLEAN]

ASSUME CachingAssumption ==
  /\ Answers \subseteq Answer
  /\ {MinTime, MaxTime, Threshold, BufferCap, MaxAge} \subseteq Nat
  /\ NegativeTime \in Int
  /\ Prefetching \in BOOLEAN /\ Redis \in BOOLEAN

VARIABLES
  cache,     \* entry of resultCache, or None
  pending,   \* pending[q]: None, Waiting, or the answer q has to publish
  reload,    \* None, or Waiting while a prefetch waits for its answer
  count,     \* counter of the key in prefetchingNameCache
  buffer,    \* sendBuffer
  store,     \* the key in redis, or None
  starting   \* the answers in redis have not been read yet

cachingVars == <<cache, pending, reload, count, buffer, store, starting>>

(* An answer as it arrives, with the TTLs that are written in it; `from`   *)
(* is history.                                                             *)
Got(a, ttls, from) == [answer |-> a, ttls |-> ttls, age |-> 0, from |-> from]

CachingInit ==
  /\ cache = None /\ store = None
  /\ pending = [q \in Queries |-> None]
  /\ reload = None
  /\ count = 0
  /\ buffer = <<>>
  /\ starting = FALSE

-----------------------------------------------------------------------------
ToSetOf(ttls) == {ttls[i] : i \in DOMAIN ttls}

(* adjustTTLs: what it writes into the records, and what it returns. *)
AdjustTTL(t) ==
  LET atLeast == IF MinTime > 0 /\ t < MinTime THEN MinTime ELSE t
  IN  IF MaxTime > 0 /\ atLeast > MaxTime THEN MaxTime ELSE atLeast

Adjusted(ttls) == [i \in DOMAIN ttls |-> AdjustTTL(ttls[i])]

CacheTTL(ttls) ==
  IF ttls = <<>> THEN NegativeTime ELSE Min(ToSetOf(Adjusted(ttls)))

IsResponseCacheable(a) == ~a.truncated /\ ~a.cd

(* Put of the expiring cache: a time that is not positive caches nothing. *)
Put(g, ttl) ==
  IF ttl > 0 THEN [got |-> g, left |-> ttl] ELSE cache

(* Mistake: the answer is packed before its TTLs are adjusted. *)
PutInCacheUnadjusted(g) ==
  IF g.answer.rcode = "success" /\ IsResponseCacheable(g.answer)
  THEN Put(g, CacheTTL(g.ttls))
  ELSE IF g.answer.rcode = "nxdomain" /\ NegativeTime > 0
  THEN Put(g, NegativeTime)
  ELSE cache

(* Mistake: only the answers to queries are checked, by their caller. *)
PutInCacheUnchecked(g) ==
  IF g.answer.rcode = "success"
  THEN Put([g EXCEPT !.ttls = Adjusted(@)], CacheTTL(g.ttls))
  ELSE cache

(* adjustTTLs and putInCache, for the copy g of an answer. *)
PutInCache(g) ==
  LET h == [g EXCEPT !.ttls = Adjusted(@)]
  IN  IF g.answer.rcode = "success" /\ IsResponseCacheable(g.answer)
      THEN Put(h, CacheTTL(g.ttls))
      ELSE IF g.answer.rcode = "nxdomain" /\ NegativeTime > 0
      THEN Put(h, NegativeTime)
      ELSE cache

(* getTTL of the redis client; without records it is MaxInt32. *)
Forever == -1
RedisTTL(ttls) ==
  IF ttls = <<>> THEN Forever
  ELSE IF Min(ToSetOf(ttls)) = 0 THEN 1
  ELSE Min(ToSetOf(ttls))

-----------------------------------------------------------------------------
(* trackCacheKeyQueryCount; more than Threshold + 1 is not told apart. *)
Track ==
  count' = IF Prefetching /\ count <= Threshold THEN count + 1 ELSE count

(* Resolve finds an entry and answers with it. *)
Hit(q) ==
  /\ pending[q] = None /\ cache # None
  /\ Track
  /\ UNCHANGED <<cache, pending, reload, buffer, store, starting>>

Miss(q) ==
  /\ pending[q] = None /\ cache = None
  /\ Track
  /\ pending' = [pending EXCEPT ![q] = Waiting]
  /\ UNCHANGED <<cache, reload, buffer, store, starting>>

NextFails(q) ==
  /\ pending[q] = Waiting
  /\ pending' = [pending EXCEPT ![q] = None]
  /\ UNCHANGED <<cache, reload, count, buffer, store, starting>>

(* The answer is put into the cache, and then it is to be published. *)
NextAnswers(q, a) ==
  LET g == Got(a, a.ttls, "query")
  IN  /\ pending[q] = Waiting
      /\ cache' = PutInCache(g)
      /\ pending' = [pending EXCEPT
           ![q] = IF Redis THEN [g EXCEPT !.ttls = Adjusted(@)] ELSE None]
      /\ UNCHANGED <<reload, count, buffer, store, starting>>

ToPublish(p) == p \notin {None, Waiting}

(* Mistake: sendBuffer has no bound. *)
PublishCacheUnbounded(q) ==
  /\ ToPublish(pending[q])
  /\ buffer' = Append(buffer, pending[q])
  /\ pending' = [pending EXCEPT ![q] = None]
  /\ UNCHANGED <<cache, reload, count, store, starting>>

(* PublishCache waits for room in sendBuffer, and then Resolve returns. *)
PublishCache(q) ==
  /\ ToPublish(pending[q])
  /\ Len(buffer) < BufferCap
  /\ buffer' = Append(buffer, pending[q])
  /\ pending' = [pending EXCEPT ![q] = None]
  /\ UNCHANGED <<cache, reload, count, store, starting>>

-----------------------------------------------------------------------------
(* The cleanup of the expiring cache finds that the entry has expired.     *)
(* onExpired reloads it if it is popular, else it is removed.              *)
ShouldPrefetch == Threshold = 0 \/ count > Threshold

Expired == cache # None /\ cache.left = 0

Expire ==
  /\ Expired /\ reload = None
  /\ IF Prefetching /\ ShouldPrefetch
     THEN reload' = Waiting /\ UNCHANGED cache
     ELSE cache' = None /\ UNCHANGED reload
  /\ UNCHANGED <<pending, count, buffer, store, starting>>

(* reloadCacheEntry packs the answer before it adjusts the TTLs. *)
Reload(a) ==
  /\ reload = Waiting
  /\ reload' = None
  /\ IF a.rcode = "success" /\ CacheTTL(a.ttls) > 0
     THEN cache' = Put(Got(a, a.ttls, "prefetch"), CacheTTL(a.ttls))
     ELSE cache' = None
  /\ UNCHANGED <<pending, count, buffer, store, starting>>

ReloadFails ==
  /\ reload = Waiting
  /\ reload' = None
  /\ cache' = None
  /\ UNCHANGED <<pending, count, buffer, store, starting>>

(* The entry or the counter makes room for others, or the counter expires. *)
Evict ==
  /\ cache' \in {cache, None}
  /\ count' \in {count, 0}
  /\ <<cache', count'>> # <<cache, count>>
  /\ UNCHANGED <<pending, reload, buffer, store, starting>>

FlushCaches ==
  /\ cache' = None
  /\ count' = 0
  /\ UNCHANGED <<pending, reload, buffer, store, starting>>

-----------------------------------------------------------------------------
(* publishMessageFromBuffer keeps the answer in redis. *)
PublishFromBuffer ==
  /\ buffer # <<>>
  /\ LET g == Head(buffer)
     IN  store' = [got |-> g, left |-> RedisTTL(g.ttls)]
  /\ buffer' = Tail(buffer)
  /\ UNCHANGED <<cache, pending, reload, count, starting>>

(* Another instance publishes an answer, which redisSubscriber caches. *)
ReceiveFromPeer(a) ==
  /\ Redis
  /\ cache' = PutInCache(Got(a, Adjusted(a.ttls), "peer"))
  /\ UNCHANGED <<pending, reload, count, buffer, store, starting>>

(* The process starts again: only redis remembers. *)
Restart ==
  /\ Redis
  /\ cache' = None
  /\ pending' = [q \in Queries |-> None]
  /\ reload' = None
  /\ count' = 0
  /\ buffer' = <<>>
  /\ starting' = TRUE
  /\ UNCHANGED store

(* convertMessage: the records get the time that the key has left. *)
Converted(g, left) ==
  [g EXCEPT !.ttls = [i \in DOMAIN @ |-> left], !.from = "redis"]

(* GetRedisCache, getResponse and redisSubscriber. *)
ReadStore ==
  /\ starting
  /\ starting' = FALSE
  /\ cache' = IF store = None THEN cache
              ELSE PutInCache(Converted(store.got, store.left))
  /\ UNCHANGED <<pending, reload, count, buffer, store>>

-----------------------------------------------------------------------------
Older(g) == [g EXCEPT !.age = IF @ < MaxAge THEN @ + 1 ELSE @]

Tick ==
  /\ cache' = IF cache = None THEN None
              ELSE [got |-> Older(cache.got),
                    left |-> IF cache.left > 0 THEN cache.left - 1 ELSE 0]
  /\ store' = IF store = None \/ store.left = 1 THEN None
              ELSE [store EXCEPT !.left = IF @ = Forever THEN @ ELSE @ - 1]
  /\ UNCHANGED <<pending, reload, count, buffer, starting>>

QueryStep(q) ==
  NextFails(q) \/ \E a \in Answers : NextAnswers(q, a)

CachingNext ==
  \/ \E q \in Queries : Hit(q) \/ Miss(q) \/ QueryStep(q) \/ PublishCache(q)
  \/ Expire \/ ReloadFails \/ Evict \/ FlushCaches
  \/ \E a \in Answers : Reload(a) \/ ReceiveFromPeer(a)
  \/ PublishFromBuffer \/ Restart \/ ReadStore
  \/ Tick

CachingSpec == CachingInit /\ [][CachingNext]_cachingVars

-----------------------------------------------------------------------------
(* Types of the variables. *)
CachingTypeOK ==
  /\ cache # None => cache.left \in Nat /\ cache.got.answer \in Answers
  /\ \A q \in Queries : ToPublish(pending[q]) => pending[q].answer \in Answers
  /\ reload \in {None, Waiting}
  /\ count \in 0..(Threshold + 1)
  /\ Len(buffer) <= BufferCap
  /\ store # None => store.left \in Nat \cup {Forever}

(* How long an answer may be used, counted from when it was given. *)
Life(a) == IF a.rcode = "nxdomain" THEN NegativeTime ELSE CacheTTL(a.ttls)

(* setTTLInCachedResponse *)
ServedTTL(i) ==
  cache.got.ttls[i] - Min(ToSetOf(cache.got.ttls)) + cache.left

(* No answer is kept or announced for longer than its upstream and the     *)
(* configuration allow: its age and the time it is still served add up to  *)
(* at most the time it was cached for, and the age and the TTL of each     *)
(* record to at most the record's adjusted TTL.  Two ways into the cache   *)
(* are excepted: redis gives answers a new lifetime after a restart, and a *)
(* prefetch does not write the adjusted TTLs into the records.             *)
ServedTTLsHonest ==
  cache # None /\ cache.left > 0 /\ cache.got.from # "redis" =>
    LET a == cache.got.answer
    IN  /\ cache.left + cache.got.age <= Life(a)
        /\ a.rcode = "success" /\ cache.got.from # "prefetch" =>
             \A i \in DOMAIN a.ttls :
               ServedTTL(i) + cache.got.age <= AdjustTTL(a.ttls[i])

(* Truncated answers and answers with the CD flag are not cached, wherever *)
(* they come from (isResponseCacheable), with the exceptions that the code *)
(* makes: it does not look at NXDOMAIN answers and at the answers to a     *)
(* prefetch.                                                               *)
PositiveIsCacheable ==
  cache # None /\ cache.got.answer.rcode = "success"
    /\ cache.got.from # "prefetch" =>
    ~cache.got.answer.truncated /\ ~cache.got.answer.cd
=============================================================================
