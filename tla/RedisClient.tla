----------------------------- MODULE RedisClient ----------------------------
(***************************************************************************)
(* The redis client (redis/redis.go) between the resolvers that use it.    *)
(* One goroutine, the worker, receives the messages of other instances and *)
(* hands them on through EnabledChannel and CacheChannel; the same         *)
(* goroutine empties sendBuffer, into which queries put their answers.     *)
(* The blocking resolver reads EnabledChannel and takes the lock of its    *)
(* status for every message; queries hold that lock before they come to    *)
(* the cache.  This module composes these waits with those of StatusLock.  *)
(*                                                                         *)
(* Contents of messages do not matter here, so channels are counters.      *)
(* The context is cancelled only when the process exits (cmd/serve.go), so *)
(* the branches for that are left out.  Messages of the own instance and   *)
(* messages that cannot be decoded change nothing and are left out too.    *)
(***************************************************************************)
EXTENDS StatusLock

CONSTANTS
  Queries,     \* readers that go on to the caching resolver
  Subscriber,  \* redisSubscriber of the blocking resolver
  ChanCap,     \* capacity of each channel
  Stored       \* bound: answers that GetRedisCache finds in redis

ASSUME ChannelsAssumption ==
  /\ Queries \subseteq Readers
  /\ Subscriber \in Controllers
  /\ ChanCap \in Nat \ {0}
  /\ Stored \in Nat

VARIABLES
  publishing,      \* queries in PublishCache
  sendBuffer,      \* number of messages in each channel
  enabledChannel,
  cacheChannel,
  worker,          \* "select", or the kind of message that it hands on
  applying,        \* the subscriber has a message to apply
  stored           \* answers that GetRedisCache has not handed on yet

channels == <<sendBuffer, enabledChannel, cacheChannel>>
goroutines == <<publishing, worker, applying, stored>>
allVars == <<lockVars, channels, goroutines>>

RedisInit ==
  /\ LockInit
  /\ publishing = {}
  /\ sendBuffer = 0 /\ enabledChannel = 0 /\ cacheChannel = 0
  /\ worker = "select"
  /\ applying = FALSE
  /\ stored = Stored

-----------------------------------------------------------------------------
(* A query computes its groups.  When it has them, it is answered from the *)
(* cache or fails (and returns), or its answer is new.                     *)
QueryStarts(r) ==
  /\ r \notin publishing
  /\ StartReading(r)
  /\ UNCHANGED <<channels, goroutines>>

QueryTests(r) ==
  /\ StartTest(r) \/ \E g \in Groups : EndTest(r, g)
  /\ UNCHANGED <<channels, goroutines>>

QueryHasGroups(r) ==
  /\ StopReading(r)
  /\ \/ UNCHANGED publishing
     \/ r \in Queries /\ publishing' = publishing \cup {r}
  /\ UNCHANGED <<channels, worker, applying, stored>>

PublishCache(r) ==
  /\ r \in publishing
  /\ sendBuffer < ChanCap
  /\ sendBuffer' = sendBuffer + 1
  /\ publishing' = publishing \ {r}
  /\ UNCHANGED <<lockVars, enabledChannel, cacheChannel, worker, applying, stored>>

-----------------------------------------------------------------------------
(* The worker receives a message of another instance. *)
Receive(kind) ==
  /\ worker = "select"
  /\ worker' = kind
  /\ UNCHANGED <<lockVars, channels, publishing, applying, stored>>

HandOnEnabled ==
  /\ worker = "enabled"
  /\ enabledChannel < ChanCap
  /\ enabledChannel' = enabledChannel + 1
  /\ worker' = "select"
  /\ UNCHANGED <<lockVars, sendBuffer, cacheChannel, publishing, applying, stored>>

HandOnCache ==
  /\ worker = "cache"
  /\ cacheChannel < ChanCap
  /\ cacheChannel' = cacheChannel + 1
  /\ worker' = "select"
  /\ UNCHANGED <<lockVars, sendBuffer, enabledChannel, publishing, applying, stored>>

PublishMessageFromBuffer ==
  /\ worker = "select"
  /\ sendBuffer > 0
  /\ sendBuffer' = sendBuffer - 1
  /\ UNCHANGED <<lockVars, enabledChannel, cacheChannel, goroutines>>

(* GetRedisCache hands an answer on. *)
GetRedisCache ==
  /\ stored > 0
  /\ cacheChannel < ChanCap
  /\ cacheChannel' = cacheChannel + 1
  /\ stored' = stored - 1
  /\ UNCHANGED <<lockVars, sendBuffer, enabledChannel, publishing, worker, applying>>

-----------------------------------------------------------------------------
(* redisSubscriber of the caching resolver, which publishes nothing. *)
TakeCacheMessage ==
  /\ cacheChannel > 0
  /\ cacheChannel' = cacheChannel - 1
  /\ UNCHANGED <<lockVars, sendBuffer, enabledChannel, goroutines>>

(* redisSubscriber of the blocking resolver applies a message. *)
TakeEnabledMessage ==
  /\ ~applying
  /\ enabledChannel > 0
  /\ enabledChannel' = enabledChannel - 1
  /\ applying' = TRUE
  /\ UNCHANGED <<lockVars, sendBuffer, cacheChannel, publishing, worker, stored>>

(* Calls of the API and callbacks of the timer change the status, too. *)
ControllerCalls(c) ==
  /\ c = Subscriber => applying
  /\ CallLock(c)
  /\ UNCHANGED <<channels, goroutines>>

ControllerEnters(c) ==
  /\ EnterLock(c)
  /\ UNCHANGED <<channels, goroutines>>

(* Mistake: the subscriber returns when a message is refused. *)
ControllerChangesAndEnds(c, gs) ==
  /\ ChangeAndUnlock(c, gs)
  /\ UNCHANGED <<channels, goroutines>>

ControllerChanges(c, gs) ==
  /\ ChangeAndUnlock(c, gs)
  /\ applying' = (applying /\ c # Subscriber)
  /\ UNCHANGED <<channels, publishing, worker, stored>>

-----------------------------------------------------------------------------
QueryStep(r) == QueryTests(r) \/ QueryHasGroups(r)

ControllerStep(c) ==
  ControllerEnters(c) \/ \E gs \in SUBSET Groups : ControllerChanges(c, gs)

RedisNext ==
  \/ \E r \in Readers : QueryStarts(r) \/ QueryStep(r) \/ PublishCache(r)
  \/ \E kind \in {"enabled", "cache"} : Receive(kind)
  \/ HandOnEnabled \/ HandOnCache \/ PublishMessageFromBuffer
  \/ GetRedisCache \/ TakeCacheMessage \/ TakeEnabledMessage
  \/ \E c \in Controllers : ControllerCalls(c) \/ ControllerStep(c)

RedisSpec == RedisInit /\ [][RedisNext]_allVars

(* Goroutines that can go on go on.  Channels serve the goroutines that    *)
(* wait to send, and the lock those that wait to write, in their order,    *)
(* and a select takes each of its ready cases sooner or later.  No query,  *)
(* no message and no call has to come.                                     *)
FairRedisSpec ==
  /\ RedisSpec
  /\ \A r \in Readers :
       WF_allVars(QueryStep(r)) /\ SF_allVars(PublishCache(r))
  /\ WF_allVars(HandOnEnabled) /\ SF_allVars(HandOnCache)
  /\ SF_allVars(PublishMessageFromBuffer) /\ SF_allVars(GetRedisCache)
  /\ WF_allVars(TakeCacheMessage) /\ WF_allVars(TakeEnabledMessage)
  /\ SF_allVars(ControllerCalls(Subscriber))
  /\ \A c \in Controllers : WF_allVars(ControllerStep(c))

-----------------------------------------------------------------------------
(* Types of the variables; no channel holds more than its capacity. *)
RedisTypeOK ==
  /\ LockTypeOK
  /\ publishing \in SUBSET Queries
  /\ {sendBuffer, enabledChannel, cacheChannel} \subseteq 0..ChanCap
  /\ worker \in {"select", "enabled", "cache"}
  /\ applying \in BOOLEAN
  /\ stored \in 0..Stored

(* Queries return, the worker comes back to its select, messages of other  *)
(* instances are applied and the answers in redis are loaded, although     *)
(* channels are full and everybody waits for somebody: for the lock of the *)
(* status, a channel or the worker.  Only a Lock between the two RLocks of *)
(* a query stops them: it stops the subscriber, then the worker, and then  *)
(* the queries that publish.                                               *)
EverybodyGoesOn ==
  /\ \A r \in Readers :
       (pc[r] # "idle" \/ r \in publishing)
         ~> ((pc[r] = "idle" /\ r \notin publishing) \/ Stuck)
  /\ worker # "select" ~> (worker = "select" \/ Stuck)
  /\ applying ~> (~applying \/ Stuck)
  /\ stored # 0 ~> (stored = 0 \/ Stuck)
=============================================================================
