--------------------------- MODULE RedisResilience ---------------------------
(***************************************************************************)
(* RedisStore with an insurance limiter (src/src/stores/redis-store.ts):   *)
(* quota operations go to Redis or, when the circuit breaker refuses, to   *)
(* the insurance MemoryStore; when the circuit closes again a background   *)
(* task replays the insurance counters into Redis and clears them.         *)
(*                                                                         *)
(* The breaker is the module CircuitBreaker.  Redis is shared and remote:  *)
(* a script may fail before or after Redis has executed it, and the        *)
(* operations of several callers and of several replays interleave.        *)
(* The counters are those of one window (no expiry, no refill).            *)
(***************************************************************************)
EXTENDS CircuitBreaker, FiniteSetsExt

CONSTANTS Keys,            \* client keys
          Kinds,           \* operations the callers use
          Syncs,           \* bound: identities of replays in flight
          Strategies,      \* strategies of the store
          SyncModes,       \* values of syncOnRecovery
          Limit,           \* maxRequests or bucketSize of the RedisStore
          InsuranceLimit,  \* the same of the insurance store
          MaxWrites        \* bound: calls of operations other than get

ASSUME ResilienceAssumption ==
    /\ Kinds \subseteq {"increment", "decrement", "reset", "set", "delete", "get"}
    /\ Strategies \subseteq {"FIXED_WINDOW", "SLIDING_WINDOW", "TOKEN_BUCKET"}
    /\ SyncModes \subseteq BOOLEAN
    /\ {Limit, InsuranceLimit, MaxWrites} \subseteq Nat
    /\ InsuranceLimit <= Limit

VARIABLES config,      \* strategy and syncOnRecovery
          op,          \* the operation each caller awaits
          redis,       \* hits, or tokens taken, that Redis holds for each key
          insurance,   \* the same in the insurance store, or NoEntry
          sync,        \* replays in flight
          failover,    \* failoverStartedAtMs !== null
          issued,      \* number of calls other than get
          hits,        \* history: hits that count against each key
          admitted,    \* history: increments answered "allowed"
          resets,      \* history: calls of resetAll
          causes       \* history: circumstances that spoil the counters

counters == <<redis, insurance, hits, causes>>
vars == <<breakerVars, config, op, redis, insurance, sync, failover, issued, hits,
          admitted, resets, causes>>

NoEntry == -1
NoKey == "none"
IdleOp == [kind |-> "none", key |-> NoKey, pc |-> "idle", blocked |-> FALSE]
\* left: keys of the snapshot still to be replayed.
IdleSync == [active |-> FALSE, left |-> {}, snap |-> [k \in Keys |-> 0]]
\* "lossy": a replay failed for a key, or the insurance store was raised while
\* one was running.  "overwrite": a replay found a bucket in use.  "doubling": an
\* executed script lost its answer, two replays overlapped, a write reached one
\* of two stores that both held hits, or a fixed window replayed no hits.
Causes == {"lossy", "overwrite", "doubling", "shutdown"}
If(condition, cause) == IF condition THEN {cause} ELSE {}

TypeOK ==
    /\ BreakerTypeOK
    /\ config \in [strategy : Strategies, syncOnRecovery : SyncModes]
    /\ op \in [Callers -> [kind : Kinds \cup {"none"}, key : Keys \cup {NoKey},
                           pc : {"idle", "sent", "executed"}, blocked : BOOLEAN]]
    /\ redis \in [Keys -> Nat]
    /\ insurance \in [Keys -> Nat \cup {NoEntry}]
    /\ sync \in [Syncs -> [active : BOOLEAN, left : SUBSET Keys, snap : [Keys -> Nat]]]
    /\ failover \in BOOLEAN
    /\ issued \in 0..MaxWrites
    /\ hits \in [Keys -> Nat] /\ admitted \in [Keys -> Nat] /\ resets \in Nat
    /\ causes \subseteq Causes

Init ==
    /\ BreakerInit
    /\ config \in [strategy : Strategies, syncOnRecovery : SyncModes]
    /\ op = [c \in Callers |-> IdleOp]
    /\ redis = [k \in Keys |-> 0]
    /\ insurance = [k \in Keys |-> NoEntry]
    /\ sync = [s \in Syncs |-> IdleSync]
    /\ failover = FALSE
    /\ issued = 0
    /\ hits = [k \in Keys |-> 0] /\ admitted = [k \in Keys |-> 0]
    /\ resets = 0
    /\ causes = {}

-----------------------------------------------------------------------------
(* The two stores                                                          *)

Level(n) == IF n = NoEntry THEN 0 ELSE n
Syncing == {s \in Syncs : sync[s].active}

\* Mutant: the hit that reaches the cap is compared before it is counted.
BugBlockedLate(n, limit) == n > limit

\* An increment of a store whose cap is limit: a window counts a blocked hit
\* too, a bucket does not.
Blocked(n, limit) == n + 1 > limit
Counted(n, limit) == ~(config.strategy = "TOKEN_BUCKET" /\ Blocked(n, limit))

\* What an operation leaves in a store that holds n.
Effect(kind, n, limit) ==
    CASE kind = "increment" -> IF Counted(n, limit) THEN n + 1 ELSE n
      [] kind = "decrement" -> IF n > 0 THEN n - 1 ELSE 0
      [] kind \in {"reset", "delete"} -> 0
      [] kind = "set" -> 1
      [] kind = "get" -> n

\* The same in the insurance MemoryStore, which tells an absent key from a
\* key with no hits: reset leaves the latter in a fixed window and a bucket, the
\* decrement of a window's last hit removes the key.
InsuranceEffect(kind, k) ==
    LET n == insurance[k]
    IN  CASE kind = "get" -> n
          [] kind = "delete" -> NoEntry
          [] kind = "reset" /\ config.strategy = "SLIDING_WINDOW" -> NoEntry
          [] kind = "decrement" /\ n = NoEntry -> NoEntry
          [] kind = "decrement" /\ n = 1 /\ config.strategy # "TOKEN_BUCKET" -> NoEntry
          [] OTHER -> Effect(kind, Level(n), InsuranceLimit)

\* What the caller means: the hits that should count against the key.
Intended(kind, n, counted) ==
    IF kind = "increment" THEN IF counted THEN n + 1 ELSE n
    ELSE Effect(kind, n, Limit)

\* A write other than an increment finds hits in the store it does not reach.
Adjusts(kind, elsewhere) ==
    kind \notin {"increment", "get"} /\ (elsewhere > 0 \/ Syncing # {})

RedisWrites(kind, k) ==
    /\ redis' = [redis EXCEPT ![k] = Effect(kind, @, Limit)]
    /\ hits' = [hits EXCEPT ![k] = Intended(kind, @, Counted(redis[k], Limit))]
    /\ causes' = causes \cup If(Adjusts(kind, Level(insurance[k])), "doubling")
    /\ UNCHANGED insurance

\* The operation on the insurance store; recounted: Redis has it already.
InsuranceWrites(kind, k, recounted) ==
    /\ insurance' = [insurance EXCEPT ![k] = InsuranceEffect(kind, k)]
    /\ hits' = IF recounted THEN hits
               ELSE [hits EXCEPT ![k] =
                       Intended(kind, @, Counted(Level(insurance[k]), InsuranceLimit))]
    /\ admitted' = IF kind = "increment" /\ ~Blocked(Level(insurance[k]), InsuranceLimit)
                   THEN [admitted EXCEPT ![k] = @ + 1] ELSE admitted
    /\ causes' = causes
         \cup If(recounted \/ Adjusts(kind, redis[k]), "doubling")
         \cup If(Syncing # {} /\ kind \in {"increment", "set"}, "lossy")
    /\ UNCHANGED redis

-----------------------------------------------------------------------------
(* increment, decrement, reset, set, delete, get                           *)

\* An operation is called; reads are not bounded.
Call(kind) ==
    IF kind = "get" THEN UNCHANGED issued
    ELSE issued < MaxWrites /\ issued' = issued + 1

\* shouldRouteQuotaViaInsurance() is false: the script is sent to Redis.
Attempt(c, kind, k) ==
    /\ op[c] = IdleOp
    /\ Call(kind)
    /\ CanAttempt(c)
    /\ op' = [op EXCEPT ![c] = [kind |-> kind, key |-> k, pc |-> "sent", blocked |-> FALSE]]
    /\ UNCHANGED <<config, counters, sync, failover, admitted, resets>>

\* It is true: the insurance store answers.
Insured(c, kind, k) ==
    /\ op[c] = IdleOp
    /\ Call(kind)
    /\ Refuses
    /\ InsuranceWrites(kind, k, FALSE)
    /\ UNCHANGED <<breakerVars, config, op, sync, failover, resets>>

\* Redis executes the increment of caller c.
RedisIncrement(c) ==
    LET k == op[c].key
    IN  /\ op[c].kind = "increment" /\ op[c].pc = "sent"
        /\ RedisWrites("increment", k)
        /\ op' = [op EXCEPT ![c] = [kind |-> "increment", key |-> k, pc |-> "executed",
                                    blocked |-> Blocked(redis[k], Limit)]]
        /\ UNCHANGED <<breakerVars, config, sync, failover, issued, admitted, resets>>

\* resetAll on the insurance store.
ResetAll ==
    /\ insurance' = [k \in Keys |-> NoEntry]
    /\ resets' = resets + 1

\* getActiveKeys: the entries the replay will go through.
ActiveKeys ==
    {k \in Keys : insurance[k] # NoEntry
                    /\ (config.strategy = "SLIDING_WINDOW" => insurance[k] > 0)}

\* syncCountersToRedis up to its first await: take the snapshot.
StartSync(s) ==
    /\ ~sync[s].active
    /\ sync' = [sync EXCEPT ![s] = [active |-> TRUE, left |-> ActiveKeys,
                                    snap |-> [k \in Keys |-> Level(insurance[k])]]]
    /\ causes' = causes \cup If(Syncing # {}, "doubling")
    /\ UNCHANGED <<insurance, resets>>

\* Mutant: failoverStartedAtMs is not cleared by a recovery.
BugCloseKeepsFailover ==
    /\ UNCHANGED failover
    /\ IF config.syncOnRecovery
       THEN IF ActiveKeys = {} THEN ResetAll /\ UNCHANGED <<sync, causes>>
                               ELSE \E s \in Syncs : StartSync(s)
       ELSE UNCHANGED <<insurance, resets, sync, causes>>

\* onClose: the failover is over, and the replay starts if it is wanted.
OnClose ==
    /\ failover' = FALSE
    /\ IF config.syncOnRecovery
       THEN IF ActiveKeys = {} THEN ResetAll /\ UNCHANGED <<sync, causes>>
                               ELSE \E s \in Syncs : StartSync(s)
       ELSE UNCHANGED <<insurance, resets, sync, causes>>

\* Mutant: only an answer that allows the request is reported as a success.
BugBlockedUnreported(c) ==
    /\ op[c].pc = "executed"
    /\ IF op[c].blocked
       THEN call' = Done(c)
              /\ UNCHANGED <<state, consecutiveFailures, sinceOpened, halfOpenInFlight>>
       ELSE RecordSuccess(c)
    /\ IF state = "HALF_OPEN" /\ ~op[c].blocked THEN OnClose
       ELSE UNCHANGED <<failover, insurance, resets, sync, causes>>
    /\ op' = [op EXCEPT ![c] = IdleOp]
    /\ admitted' = IF op[c].blocked THEN admitted
                   ELSE [admitted EXCEPT ![op[c].key] = @ + 1]
    /\ UNCHANGED <<config, redis, hits, issued>>

\* The answer to an increment arrives: recordSuccess.
IncrementSucceeds(c) ==
    /\ op[c].pc = "executed"
    /\ RecordSuccess(c)
    /\ IF state = "HALF_OPEN" THEN OnClose
       ELSE UNCHANGED <<failover, insurance, resets, sync, causes>>
    /\ op' = [op EXCEPT ![c] = IdleOp]
    /\ admitted' = IF op[c].blocked THEN admitted
                   ELSE [admitted EXCEPT ![op[c].key] = @ + 1]
    /\ UNCHANGED <<config, redis, hits, issued>>

\* Mutant: a failed increment is answered by the insurance store, but the
\* failure is reported to the breaker only while the circuit is CLOSED.
BugProbeFailureUnreported(c) ==
    /\ op[c].kind = "increment"
    /\ IF state = "CLOSED" THEN RecordFailure(c)
       ELSE call' = Done(c)
              /\ UNCHANGED <<state, consecutiveFailures, sinceOpened, halfOpenInFlight>>
    /\ failover' = (failover \/ (state = "CLOSED" /\ state' = "OPEN"))
    /\ InsuranceWrites("increment", op[c].key, op[c].pc = "executed")
    /\ op' = [op EXCEPT ![c] = IdleOp]
    /\ UNCHANGED <<config, sync, issued, resets>>

\* The script fails, executed or not: handleRedisFailureForIncrement.
IncrementFails(c) ==
    /\ op[c].kind = "increment"
    /\ RecordFailure(c)
    /\ failover' = (failover \/ (state = "CLOSED" /\ state' = "OPEN"))
    /\ InsuranceWrites("increment", op[c].key, op[c].pc = "executed")
    /\ op' = [op EXCEPT ![c] = IdleOp]
    /\ UNCHANGED <<config, sync, issued, resets>>

\* decrement, reset, set, delete or get ends, whether its script was executed
\* or not.  Nothing is reported to the breaker.
OtherEnds(c) ==
    /\ op[c].pc = "sent" /\ op[c].kind # "increment"
    /\ \/ RedisWrites(op[c].kind, op[c].key)
       \/ UNCHANGED counters
    /\ op' = [op EXCEPT ![c] = IdleOp]
    /\ call' = Done(c)
    /\ UNCHANGED <<state, consecutiveFailures, sinceOpened, halfOpenInFlight,
                   config, sync, failover, issued, admitted, resets>>

-----------------------------------------------------------------------------
(* syncCountersToRedis                                                     *)

\* Mutant: the replay sets the counter instead of adding to it.
BugReplaySets(r, n) == n

\* syncOneKeyToRedis for hits n of a key at level r: INCRBY raises a cost
\* below 1 to 1, the sliding window skips it, a bucket is overwritten.
Replayed(r, n) ==
    CASE config.strategy = "FIXED_WINDOW" -> IF n < 1 THEN r + 1 ELSE r + n
      [] config.strategy = "SLIDING_WINDOW" -> r + n
      [] config.strategy = "TOKEN_BUCKET" -> IF n > Limit THEN Limit ELSE n

\* The replay s deals with key k: executed, or failed with or without having
\* been executed.
SyncKey(s, k) ==
    LET n == sync[s].snap[k]
    IN  /\ sync[s].active /\ k \in sync[s].left
        /\ sync' = [sync EXCEPT ![s].left = @ \ {k}]
        /\ \/ /\ redis' = [redis EXCEPT ![k] = Replayed(@, n)]
              /\ causes' = causes
                   \cup If(config.strategy = "FIXED_WINDOW" /\ n = 0, "doubling")
                   \cup If(config.strategy = "TOKEN_BUCKET" /\ redis[k] > 0, "overwrite")
           \/ /\ causes' = causes \cup {"lossy"}
              /\ UNCHANGED redis
        /\ UNCHANGED <<breakerVars, config, op, insurance, failover, issued, hits,
                       admitted, resets>>

\* Mutant: the insurance store keeps what was replayed.
BugSyncKeepsInsurance(s) ==
    /\ sync[s].active /\ sync[s].left = {}
    /\ sync' = [sync EXCEPT ![s] = IdleSync]
    /\ UNCHANGED <<breakerVars, config, op, redis, insurance, failover, issued, hits,
                   admitted, resets, causes>>

\* All keys were tried: resetAll.
SyncEnds(s) ==
    /\ sync[s].active /\ sync[s].left = {}
    /\ ResetAll
    /\ sync' = [sync EXCEPT ![s] = IdleSync]
    /\ UNCHANGED <<breakerVars, config, op, redis, failover, issued, hits, admitted, causes>>

\* shutdown(): destroy() resets the breaker; nothing in flight is cancelled.
Shutdown ==
    /\ BreakerReset
    /\ causes' = causes \cup {"shutdown"}
    /\ UNCHANGED <<config, op, redis, insurance, sync, failover, issued, hits,
                   admitted, resets>>

Tick ==
    /\ BreakerTick
    /\ UNCHANGED <<config, op, counters, sync, failover, issued, admitted, resets>>

-----------------------------------------------------------------------------

Answer(c) == IncrementSucceeds(c) \/ IncrementFails(c) \/ OtherEnds(c)

Next ==
    \/ \E c \in Callers, kind \in Kinds, k \in Keys :
          Attempt(c, kind, k) \/ Insured(c, kind, k)
    \/ \E c \in Callers : RedisIncrement(c) \/ Answer(c)
    \/ \E s \in Syncs : SyncEnds(s) \/ \E k \in Keys : SyncKey(s, k)
    \/ Shutdown
    \/ Tick

Spec == Init /\ [][Next]_vars

\* Every script is answered or fails, time passes and traffic goes on.
Fairness ==
    /\ \A c \in Callers : WF_vars(Answer(c))
    /\ \A s \in Syncs : WF_vars(SyncEnds(s) \/ \E k \in Keys : SyncKey(s, k))
    /\ WF_vars(Tick)
    /\ WF_vars(\E c \in Callers, kind \in Kinds, k \in Keys :
                  Attempt(c, kind, k) \/ Insured(c, kind, k))

FairSpec == Spec /\ Fairness

-----------------------------------------------------------------------------
(* Properties                                                              *)

Spoilt(set) == causes \cap set # {}

\* No hit is forgotten by a recovery: what Redis and the insurance store hold
\* together covers the hits made, unless a replay failed for a key, a hit
\* reached the insurance store while a replay was running (resetAll drops
\* it), or a token bucket was overwritten.
NoHitLost ==
    ~Spoilt({"lossy", "overwrite"})
      => \A k \in Keys : redis[k] + Level(insurance[k]) >= hits[k]

\* No hit is counted twice: beyond what a running replay has copied, Redis
\* and the insurance store hold no more than the hits made, unless an
\* executed script lost its answer, two replays overlapped, a write went to
\* only one of two stores that both held hits, or a fixed window replayed 0.
NoHitDoubled ==
    ~Spoilt({"doubling"})
      => \A k \in Keys :
           redis[k] + Level(insurance[k])
             <= hits[k] + Max({0} \cup {sync[s].snap[k] :
                                         s \in {x \in Syncing : k \notin sync[x].left}})

\* onFailover and onRecovery frame an outage: failoverStartedAtMs is set
\* exactly while the circuit is not CLOSED, as long as nobody shuts down.
FailoverTracksOutage ==
    ~Spoilt({"shutdown"}) => (failover <=> state # "CLOSED")

\* What an outage costs: in one window at most Limit increments are allowed by
\* Redis and InsuranceLimit by each life of the insurance store, however
\* outages, lost answers and replays interleave (windows, increments only).
OutageAdmissionBounded ==
    \A k \in Keys : admitted[k] <= Limit + InsuranceLimit * (1 + resets)

\* A store that only increments keeps the breaker's contract: every granted
\* attempt is reported, so all that is proved of CircuitBreaker applies.
BreakerContract == BreakerSpec

\* HALF_OPEN is resolved: "a probe allows one Redis attempt; success closes
\* the circuit, failure reopens it".
HalfOpenResolves == (state = "HALF_OPEN") ~> (state # "HALF_OPEN")

\* After an outage the insurance hits are "replayed into Redis so shared state
\* catches up": with no failed replay and no hit during one, nothing is lost.
SharedStateCatchesUp ==
    ~Spoilt({"lossy"})
      => \A k \in Keys : redis[k] + Level(insurance[k]) >= hits[k]
=============================================================================
