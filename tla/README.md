# A TLA+ verification of ratelimit-flex

ratelimit-flex is a rate limiting library for Node.js: counters in a store
(memory, Redis, other databases, or the primary of a cluster), an engine that
turns counters into decisions, and adapters for web frameworks. Everything runs
on event loops. Within a process a method is atomic up to its next `await`, so
the hard behaviours are those of code that reads state, awaits a store and acts
on what it read; of promises that are answered late, twice or never; and of
processes that share a counter.

This directory models the parts in which that matters, checks them with TLC on
small instances and proves the safety properties of nine of them with TLAPS for all
values of the constants. Paths below are those of the repository seen from one
level above it: `src/src/...` is the implementation, `src/README.md` and
`src/docs/` its documentation.

## Inventory

| Component | State | Operations | What makes it correct |
|---|---|---|---|
| `CircuitBreaker` (`resilience/`) | mode, failure count, time of opening, probes in flight | `canAttempt`, `recordSuccess`, `recordFailure`, `reset` | exact probe count, recovery window respected, never stuck |
| `RateLimiterQueue` (`queue/`) | linked list of waiters, `processing`, `drainTimer`, shutdown counters | `removeTokens`, queue timer, `drain`, `getTokensRemaining`, `clear`, `shutdown` | no over-admission, no lost wake-up, each promise settled once, honest shutdown report |
| `RedisStore` (`stores/redis-store.ts`) | counters in Redis, insurance `MemoryStore`, breaker, `failoverStartedAtMs` | `increment`, `decrement`, `reset`, `get`, `set`, `delete`, replay on recovery, `shutdown` | no hit lost or doubled by an outage, limits hold during it, recovery happens |
| Redis scripts, `PgStore`, `MongoStore`, `DynamoStore` | one row, document, item or key per client | statements, scripts, transactions or loops of conditional updates | limits hold for callers of several processes with clocks of their own, nobody is refused below the limit, `get` agrees with `increment` |
| `MemoryStore` (`stores/memory-store.ts`) | LRU map of window or bucket entries, purge timer | the six quota operations, `getActiveKeys`, `resetAll`, `shutdown`, purge | clean-up and eviction do not show, `maxKeys` respected, undo removes the right hit |
| `InMemoryShield` (`shield/`) | cache of blocked keys | wraps a store; `cacheBlock`, sweep, `unshield` | a cached block was true and is dropped when lifted, cap respected |
| `ComposedStore` (`composition/`) | stack of undo frames per key, first-available winner | four increment modes, `decrement`, draft rollback, `reset` | an undo reaches the layers its increment used |
| `ClusterStore` / `ClusterStorePrimary` | pending calls and timers in workers, stores in the primary | init, increment, decrement, reset, shutdown as messages | each call settles once, one count for all workers, shutdown of one worker |
| `KeyManager` (`key-manager/`) | blocks, adjustments, audit log | `block`, `unblock`, `penalty`, `reward`, `delete`, `syncBlocks`, expiry, `destroy` | a block lasts until lifted or due, processes come to agree |
| `RateLimitEngine` (`strategies/`) and middleware | penalty box, violation counts | `consumeWithKey`, grouped windows with rollback, decrement after the response | a request leaves exactly the hits it owes |
| `KeyedRateLimiterQueue` | LRU map of queues | `forKey`, `removeTokens`, `shutdown` | eviction settles the waiters |
| Admin adapters; presets, option merging, headers; metrics | little or none | wiring and formatting | not modelled |

How they interact: middleware calls the engine, the engine a store; a store may
be a shield or a composition around other stores. The queued middleware calls a
`RateLimiterQueue`, which calls `store.increment` and undoes it with
`store.decrement`. `RedisStore` asks its `CircuitBreaker` before every operation
and reports the outcome of increments; the breaker's `onClose` callback starts
the replay of the insurance counters. The primary of a cluster executes the calls
of its workers on one `MemoryStore` per prefix. `KeyManager` writes to the same
store and shield behind the engine's back, and to a block store that it shares
with other processes.

The hazards this raises are listed, each at its line, in `PROJECT.json`. The
properties below are aimed at them.

## Modules

| Module | Models | Uses |
|---|---|---|
| `CircuitBreaker` | the breaker and its callers | |
| `RateLimiterQueue` | the queue over a window or a bucket | |
| `RedisResilience` | `RedisStore` with insurance and replay, extends `CircuitBreaker` | `CircuitBreaker` |
| `StoreRows` | the row of one client and the arithmetic of the strategies | |
| `RedisScripts`, `PgStore`, `MongoStore`, `DynamoStore` | what each statement does to the row | `StoreRows` |
| `SharedStore` | callers on one row, over any of the four | the five above |
| `StoreContract` | what a local store promises (abstract) | `StoreRows` |
| `Subsequence` | what a JavaScript `Map` keeps, in order, when entries are deleted | |
| `MemoryStore` | the map, its order, cap and timer; implements `StoreContract` | `StoreRows`, `StoreContract`, `Subsequence` |
| `ComposedStore` | the four modes and their undo frames | |
| `ClusterStore` | workers, pipes and primary | |
| `InMemoryShield` | the block cache | `Subsequence` |
| `RateLimitEngine` | requests through middleware, engine, shield and stores | `InMemoryShield` |
| `KeyManager` | processes that share a block store | |

`MC...` modules hold the values and symmetries of TLC's instances, `...Proofs`
modules the theorems.

A convention of the newer modules: where the code knowingly or unknowingly lets a
count go wrong, the action records it in a history variable (`leaks`, `faults`),
and a property says that nothing *else* breaks it. Such a property is a statement
about all the code that is not excused, and its hypothesis is the list of the
excuses.

### CircuitBreaker

State: the four fields of the class, and for each caller what it has been granted
(`call`). A caller may report in any later state, so a probe of an episode that
has ended becomes a "late" one. `openedAtMs` is kept as the time since it,
saturating at `RecoveryTime`, as the code only compares the sum with `now`;
`Date.now()` is taken to be monotone, and `halfOpenMaxProbes` to be at least 1.
One action per method and outcome: `CanAttempt`, `RecordSuccess`,
`RecordFailure`, `Reset`, plus the clock's `Tick`. `Refuses` is the case in which
`canAttempt()` returns false and changes nothing.

Late probes of earlier episodes are not counted against `halfOpenMaxProbes`:
`ProbeAccounting` says that the counter is exact for the current episode, which
is what the code does.

### RateLimiterQueue

State: the list as a sequence, each promise (`outcome`), the two flags, and the
drain loops suspended at an `await`. `drain()` is split where it awaits: the
store executes the increment (`StoreIncrement`), the continuation finds that the
head has changed (`ResumeStale`), was allowed (`ResumeAllowed`) or blocked
(`ResumeBlocked`), and the store executes the undo (`UndoStale`, `UndoBlocked`).
Everything the code does without awaiting, such as the `drain()` at the end of
`removeTokens` or of a queue timer, is part of the same action. Since `clear()`
resets `processing` while a loop may be awaiting, several loops can be in flight.
A store call may reject, executed or not (`StoreError`, `PeekIncrementFails`,
`PeekDecrementFails`).

The store is a fixed window or a token bucket with one key: `level` is the number
of hits or of missing tokens. A window counts blocked hits, a bucket takes no
token for them; this is why the queue's undo depends on the strategy. The bucket
size is taken to be the queue's `maxRequests`. For a sliding window the queue's
control is the same, and the difference (which timestamp an undo removes) belongs
to the store.

`ledger` is a history variable: what was admitted in this window, what the store
holds for undecided calls, and `credit`, the capacity that came back otherwise: a
refill, an undo that was executed after its window had ended, or a peek's
decrement that was repeated because it had rejected after being executed.
`AdmissionBounded` is stated relative to it.

### RedisResilience

Extends `CircuitBreaker` (the store owns one, and shares its variables) with Redis, the
insurance store and the replay. An operation is routed by the breaker
(`Attempt`, `Insured`); Redis executes an increment (`RedisIncrement`); the
answer arrives (`IncrementSucceeds`: `recordSuccess`, and `onClose` if that closes
the circuit) or the call fails, executed or not (`IncrementFails`:
`recordFailure` and the insurance store). The other operations end without a
report (`OtherEnds`). A replay takes a snapshot when the circuit closes
(`StartSync`), deals with one key at a time (`SyncKey`) and clears the insurance
store (`SyncEnds`).

History variables: `hits`, the hits that should count; `causes`, which of the
circumstances that spoil the counters have occurred; `admitted` and `resets`.
The model covers one window of both stores: nothing expires or refills. `set`
writes the value 1. The order of keys in a replay is left open.

### SharedStore and the four databases

One client's row is modelled, as no operation touches two. A caller reads its own
clock when it calls; each of its statements (a Lua script, an SQL statement, a
pipeline update, a conditional update) reaches the server later, among those of
other callers, at most `MaxLag` ticks later. The four modules give, for a row and
a call, what the next statement writes and whether the call ends or goes on to
another `leg`: Postgres buckets read and write in a transaction that locks only a
row that exists; the decrement of such a bucket reads the tokens in a subquery, from the
snapshot with which its statement begins (`Snapshot`), and writes them once it has the
row's lock, as READ COMMITTED does not evaluate the subquery again; if the row is deleted
meanwhile, it updates nothing (`Deleted`). DynamoDB tries up to three conditions per
round and `MaxAttempts` rounds. `StoreError` loses a request or its answer, executed or not,
after which the error policy answers. `Reset`, `Set` and `Expire` (sweep, or time
to live) interfere.

DynamoDB's sliding window is the weighted approximation; its counts are kept
multiplied by `Window` so that they are integers. It admits at most the limit in a
window, and as the previous window weighs at least 2 of `Window` when hits of both
meet in one span, at most `2 - 2/Window` times the limit in a span. An undo of a
DynamoDB bucket is two updates (one token more, then a cap at the bucket's size), and
other callers may come between them.

`leaks` names the ways in which hits are lost or invented: two bucket
transactions that find no row (`insertRace`), a decrement of a Postgres bucket that writes
tokens read before others changed them (`staleUndo`), a DynamoDB caller whose third
condition drops the previous window's count (`boundaryRace`), a MongoDB bucket
written with a clock before its last refill (`clockBehind`), an undo that comes
after its hit has gone or after the refills have given its token back (`lateUndo`), takes a hit of another age (`shiftedUndo`) or
misses its window (`missedUndo`), a sweep of live hits (`sweptLive`) and `set()`.

### MemoryStore and StoreContract

The map is its keys in order (`order`) and an entry for each; each operation runs
to its end, so it is one action. `Put`, `Drop`, `Replace` and `Touch` are the map
operations, `EnsureRoom` the eviction. Entries are pruned lazily, as in the code:
an entry may be over and still be there. `StoreContract` is the abstract
specification: every key has a quota, of live hits only; there is no map, no
order, no purge. `MemoryStore` implements it under the mapping `View` (what is
live of an entry now), which says that clean-up, reads, order and eviction never
change a decision, but for a key that is displaced by a new one.

### ComposedStore

One key. Each layer counts within one window. `Increment` asks all layers or the
first; `LayerAnswers` and `LayerRejects` settle one promise and go on as the mode
says (`AfterAll`, `AfterOverflow`, `AfterFirstAvailable`, `AfterRace`). Rollbacks
and undos await one layer at a time. A race that timed out leaves its layers'
calls behind (`LateHit`). `holds` is history: which layers count each caller's hit.

### ClusterStore

Workers construct a store (`Construct` sends init), make calls that await
readiness (`Start`, `Ask`, `AskShutdown`), give hits back (`StartUndo`), time out,
receive and crash. The pipes are FIFO; `Arrive` chains a message to
`dispatchSerial` and `Dispatch` handles it (`HandleInit`, `HandleIncrement`, ...).
An init may carry a protocol version that is refused, or a strategy that throws
and is not answered. `PrimaryInit` may come late or never.

### InMemoryShield and RateLimitEngine

A request is skipped, refused by the penalty box, answered by the shield's cache,
or asks the store of its first slot. `Executes` and `Fails` are the inner store,
`Deliver` the shield's and the engine's continuation (cache, next slot, undo or
admit), `Undo` one awaited decrement of a rollback, `Conclude` the violation
count, `RespondAndRefund` and `Refund` the decrements after the response. `OutcomeOf` is
what merging the answers of grouped windows decides: a window that failed open speaks for
all, so that a later block is masked; outside draft mode the windows before it are rolled
back and the request passes (`masked`), in draft mode nothing is rolled back, as the
merged answer is not marked as blocked (`undrafted`).
`AdminReset` drops the cache entry at once and the row later. Costs are 1. `counted`
is history: the windows that counted each request.

### KeyManager

One key, several processes. A call runs to its await, its request is executed
later, and it resumes later still; `heap` holds the adjustment objects, because
`penalty()` keeps a reference to one across an await while the map may get another.
`syncBlocks` is what its awaits make of it: `GetAllBlocks` sends the GET of the key,
`ListBlock` takes the answer, and a block that has expired by then is not listed but
deleted (`DeleteExpired`), whatever the key holds when the DEL arrives; `ApplySync` merges
the list, and leaves a local block alone whose listed one has expired meanwhile. The DEL of
a manager that was destroyed or restarted is still on its way (`DeleteStray`). A process may
`Destroy` its manager or `Restart`.

## Runs

| Run | Instance | Result |
|---|---|---|
| `circuit_breaker` | 3 callers, threshold 2, recovery 2 ticks, 2 probes | 146 states; `BreakerTypeOK`, `ProbeAccounting`, `ModeConsistent`, `RecoveryWindowRespected`, `NeverStuck` hold |
| `queue` | 3 calls of cost 1 or 2, limit 1, queue of 2, 3 loops, both strategies, 2 polls, 1 disruption, 1 redundant shutdown | 369,376 states; all seven properties hold |
| `redis_resilience` | 2 callers, 1 key, 2 replays, 5 writes and any number of reads, three strategies, Redis limit 2, insurance limit 1 | 713,537 states (callers and replays symmetric); `NoHitLost`, `NoHitDoubled`, `FailoverTracksOutage` hold |
| `redis_increments_only` | 2 callers, 2 keys, 4 increments, with and without `syncOnRecovery` | 127,698 states; `OutageAdmissionBounded`, `BreakerContract`, `HalfOpenResolves` hold |
| `shared_stores` | 4 databases, 3 strategies, 3 callers with one increment and undo each, limit 1, window 3, time 0..4, lag 1, 1 event | 2,281,487 states; `AdmissionBounded`, `BlockedOnlyWhenFull`, `GivesUpOnlyWhenStale`, `PreviewAgrees` hold |
| `memory_store` | 3 strategies, 3 keys, cap 1 or none, costs 1 and 2, window 2, time 0..2 | 45,358 states; `KeysBounded` and the refinement `ImplementsContract` hold |
| `composed_store` | 4 modes, with and without `rollbackOnBlock`, 2 layers of cap 1, 3 callers, 2 events | 2,241,991 states; `AdmissionBounded`, `HitsWhereTheyBelong`, `FramesMatchAdmissions` hold |
| `cluster_store` | 2 workers, 3 calls of increment, reset and two shutdowns, limit 1, 1 trouble | 1,074,835 states; `AdmissionBounded`, `MissingOnlyAfterShutdown`, `CountedIsAnswered`, `ShutdownIsFinal`, `EveryCallSettles` hold |
| `request_path` | 7 layouts (plain, shielded, grouped, draft), 3 requests, 2 keys, 1 trouble, time 0..2 | 2,038,790 states; `RollbackExact`, `AdmissionBounded`, `ShieldHonest`, `PenaltyDeserved` hold |
| `key_manager` | 2 processes, 2 calls of six methods, 1 trouble, time 0..2 | 1,502,407 states; `BanEndsOnlyByRace`, `AdjustmentSurvivesAwait`, `EscalationRemembered`, `Converges` hold |
| `redis_half_open_stuck` | increments and reads | `HalfOpenResolves` is violated |
| `pg_sweep` | Postgres only, as `shared_stores` | `SweepSparesLiveHits` is violated |

`PgBucket.cfg` is not one of the runs: `AdmissionBounded` and `BlockedOnlyWhenFull` of
`MCSharedStore` over the Postgres bucket alone, with a bucket of 2 and four callers
(923,156 states), so that a stale decrement has tokens of others to write over.

The type invariants of `RedisResilience`, `SharedStore`, `MemoryStore`,
`ComposedStore`, `ClusterStore`, `RateLimitEngine` and `KeyManager` (`TypeOK` of
each) hold on the same instances; they are not part of the runs.

Why the bounds are enough. Breaker: with three callers one can hold a late answer
of a CLOSED period, one a late probe and one a current probe at once. Queue:
three calls give a head, a successor and a full queue of two; a cost of 2 exceeds
the limit; one disruption (`clear()`, a peek or a store error) is what it takes
to get two loops or a dead one. A larger instance (limit 2, one `clear()`, one
peek and one error in the same behaviour, 9.7 million states) was run once for the
invariants, with the same result. Redis: with threshold 1, four increments open
and close the circuit twice, so that two replays overlap. Shared stores: with
limit 1 the third caller is the one that a mistake between two others admits or
refuses; time 0..4 with a window of 3 crosses a boundary, with a clock on each
side of it. Behaviours are followed up to the second kind of leak (`OneLeak`),
after which the properties excuse what follows. Memory: three keys over a cap of
one let `reset()` exceed it by two; two intervals age a bucket beyond the idle
limit. Composed: three callers are two that overlap and one that meets what they
left. Cluster: two workers suffice for one to shut down what the other uses; a
worker that replaces a dead one is a member of `Workers` that constructs late.
Request path: with two windows of different length a rollback can fall into the
next window of one of them; behaviours stop at the first taken hit, which excuses
both counting properties. Key manager: two calls and one synchronisation overlap;
which process calls first is fixed by symmetry.
`CHECK_DEADLOCK FALSE` is set where the calls are bounded: the system comes to rest
when all are settled.

Fairness. Breaker: attempts are reported (the contract of the class), time
passes, and traffic goes on, as recovery is driven by calls. Queue: the store
answers, timers fire, windows end; queue timeouts, callers, `clear()` and
`shutdown()` owe nothing. Redis: every script is answered or fails (the client
rejects what is pending when a connection dies), time passes, traffic goes on.
Cluster: timers and continuations of a live worker run; the primary owes nothing,
not even its own `init()`. Key manager: the event loop resumes what was answered,
the block store answers, the timer of `syncBlocks` fires again.

### What the runs found

* **Half-open for ever** (`redis_half_open_stuck`). `decrement`, `reset`, `get`,
  `set` and `delete` ask `canAttempt()` but never report. If one of them gets the
  half-open probe, the slot is never given back and Redis is not used again until
  `shutdown()` (`redis-store.ts:807`).
* **Sweep of live hits** (`pg_sweep`). A hit that updates a sliding window row in
  Postgres sets `reset_at` to the newest time stamp instead of that plus the
  window (`PgStore.ts:335`), against the comments at `:279` and `:532`; `sweep()`
  then deletes the row, and the client starts from zero.

Further configurations show counterexamples that are of interest to maintainers.
Each fails when run, as described:

| Configuration | Module | Violated | What happens |
|---|---|---|---|
| `RequestUndo.cfg` | `MCRateLimitEngine` | `SkipLeavesCounts` | `types/index.ts:392` says that `skip` skips "rate limiting entirely", but with `skipFailedRequests` or `skipSuccessfulRequests` Express and Fastify decrement after the response of a skipped request too (`express.ts:195`) and take another request's hit; so does Hono for the allowlist. A request that draft mode let through is rolled back twice in the same way. |
| `QueueShutdownTwice.cfg` | `RateLimiterQueue` | `ShutdownIdempotent` | a second `shutdown()` zeroes `shutdownQueueTimeoutUnlinks` while the first is polling, which then reports waiters that timed out as drained (`RateLimiterQueue.ts:365`, documented as idempotent) |
| `QueueBucketPeek.cfg` | `RateLimiterQueue` | `AdmissionBounded` | `getTokensRemaining` decrements even if a blocked bucket increment took nothing: each peek at an empty bucket adds a token (`RateLimiterQueue.ts:303`) |
| `RedisBucketReplay.cfg` | `MCRedisResilience` | `SharedStateCatchesUp` | the replay of a token bucket overwrites the bucket in Redis with one computed from the insurance store alone (`redis-store.ts:1148`) |
| `ComposedRace.cfg` | `MCComposedStore` | `IncrementReturns` | `raceTimeoutMs` is documented as the time "before giving up on slow layers" (`composition/types.ts:116`), but once one layer has answered the race waits for all others without a limit (`ComposedStore.ts:698`) |
| `KeyManagerBan.cfg` | `KeyManager` | `BanHolds` | a ban written by `block()` is undone by a `syncBlocks` whose list was read before (`KeyManager.ts:137`), replaced by another process's escalation (`:312`), or deleted by `getAllBlocks`, whose DEL is meant for the expired block it had read there (`block-store.ts:216`) |
| `GroupedDraft.cfg` | `MCRateLimitEngine` | `DraftLeavesNothing` | in draft mode the rollback of grouped windows is "deferred" so that it covers "all windows" and "avoids leaving earlier windows incremented" (`rate-limit-engine.ts:592`), but if an earlier window failed open the merged answer is not marked as blocked (`:697`), and nothing is rolled back |
| `PgBucketUndo.cfg` | `MCSharedStore` | `UndoNeverOverAdmits` | `src/README.md:1298` promises "exact sliding, fixed-window, and token-bucket semantics", but a decrement that waits for an increment of the same bucket writes the tokens it had read before and gives away those that the increment took (`PgStore.ts:479`); six callers overrun a bucket of 2 |
| `DynamoWeightedError.cfg` | `MCSharedStore` | `WeightedErrorSmall` | the weighted window is said to err by "~10% near window boundaries" at most (`DynamoStore.ts:75`); two requests at the end of one window and one in the middle of the next are 3 in the span of a window, where 2 are allowed |

The properties that hold with excuses name, in the same way, what the code does
not protect against. `NoHitLost`, `NoHitDoubled`: hits that reach the insurance
store while a replay runs are dropped by `resetAll`, a key whose replay fails
loses its hits, overlapping replays and lost answers count hits twice, and a fixed
window that was reset during an outage is replayed as one hit (the script raises a
cost of 0 to 1). `AdmissionBounded` of the shared stores: the insert race, the
boundary race, late, shifted and stale undos, sweeps of live hits; `BlockedOnlyWhenFull`: a
clock behind the last refill, shifted, missed and stale undos, `set()`. `RollbackExact` and
`AdmissionBounded` of the request path follow the merged answer: a request whose refusal is
masked by the outage of an earlier window is let through. `BanEndsOnlyByRace`: the three
races of `KeyManagerBan.cfg`, a `setBlock` that failed, and state that was forgotten.
`AdjustmentSurvivesAwait`: a `delete()` of the process. `EscalationRemembered`: an object
that left the map under a penalty. `HitsWhereTheyBelong`: a race that was given
up, a frame of another call, a store that failed. `ShieldHonest`: a late answer,
and a decrement or reset that the cache overtook. `KeysBounded`: keys that
`reset()` inserts without making room.

## Proofs

All theorems are about the specifications that TLC checks, for every value of the
constants that the named assumptions of the modules allow (`BreakerAssumption`,
`QueueAssumption`, `ResilienceAssumption`, `ClusterAssumption`, `KeyManagerAssumption`,
`EngineAssumption`, `ShieldAssumption`, `ComposedAssumption`, `RowsAssumption`,
`StoreAssumption`). TLC evaluates each of them on a run. They say that sets of
identifiers are finite where something is counted, that limits and costs are naturals
(`sanitizeRateLimitCap` and `sanitizeIncrementCost`, `src/src/utils/clamp.ts`), and what
the constructors of the code enforce; for instance that a shield is put in front of
`options.store` alone and never of the stores of grouped windows
(`resolveStoreWithInMemoryShield`, `src/src/middleware/merge-options.ts:210`).

Four theorems have a hypothesis of their own, because the property is false without it
or is about a narrower use of the class:

| Theorem | Hypothesis | Why |
|---|---|---|
| `QueueAdmission` | `getTokensRemaining` is called in fixed windows only | its decrement on a bucket breaks the bound; `QueueBucketPeek.cfg` shows it |
| `NoHitLostByRecovery` | `Limit > 0` | `sanitizeRateLimitCap`, `src/src/utils/clamp.ts:5` |
| `IncrementsKeepContract` | the store is only incremented | the other operations may leave an attempt unreported (`RedisHalfOpenStuck.cfg`) |
| `OutageAdmission` | only incremented, no token bucket | a bucket's replay overwrites (`RedisBucketReplay.cfg`); a reset or a refund makes room on purpose |

Few of the properties are inductive as they stand. For each theorem, what was added to
the property and why:

* `RateLimiterQueueProofs`
  * `TypeCorrect`; `NoLostWakeup` (`DrainAlive`) and `ConcurrentLoopsBounded`
    (`LoopsBounded`) from `ControlInv`: *whoever sets `processing` leaves a loop or the
    timer behind* (`WakeupInv`), and *a loop, the armed timer and a cleared `processing`
    flag are three forms of one permission to drain, of which only `clearPending`
    creates another* (`Budget`).
  * `PromisesAreQueued` (`QueueIsPending`): inductive with the types. It rests on
    lemmas about removing one element of a sequence without repetitions.
  * `ShutdownReport` (`ShutdownReportExact`) from `ShutdownAccount`: while a shutdown
    polls, the length at its start is the present length plus what was served plus
    what was unlinked since.
  * `QueueAdmission` (`AdmissionBounded`) from `HeldInv` (what is on hold is the
    sum of what each loop and the peek have taken and not yet handed out or undone) and
    `BoundInv` (what was admitted or is on hold is known to the store, up to the
    capacity that came back; what was or will be admitted fits in the limit).
* `RedisResilienceProofs`
  * Of the breaker alone: `BreakerTypeCorrect`, `ProbesCounted`, `ModesConsistent`,
    `WindowRespected`. `ProbeAccounting` and `ModeConsistent` are inductive together
    with the types; the argument about the count is one lemma each on adding a probe
    and on ending an episode (the set `Probes` gains one element, or becomes empty).
  * `IncrementsKeepContract`: the store implements `CircuitBreaker!Spec`, so all that
    is proved of the breaker holds inside it. `FailoverFramesOutage`:
    `failoverStartedAtMs` frames each outage; inductive.
  * `NoHitLostByRecovery` from `LostInv`: the two stores cover the hits made, and so do
    Redis and what a running replay has yet to copy (`Covered`; without the second part
    the end of a replay, which drops the insurance store, could not be shown to be
    harmless), and a bucket never holds more than its capacity (`BucketsFit`).
  * `NoHitDoubledByRecovery` from `DoubledInv`: a single replay runs and the insurance
    store still holds what it read (`SoleReplay`), and the two stores share nothing of a
    key but what that replay has copied (`Disjoint`).
  * `OutageAdmission` from `OutageInv`: increments admitted plus answers still to be
    delivered are backed by hits in the store that gave them (`Backed`).
* `ClusterStoreProofs`
  * `ShutdownFinal` (`ShutdownIsFinal`) from `WorkersInv`: each call is in exactly one
    place of pipe, dispatch chain, primary and answer pipe (`FlightInv`), and a pending
    shutdown is the last message of its pipe (`LastInv`), for which overlapping
    shutdowns need to be told apart (`CallInv`, `SelfInv`).
  * `MissingMeansShutdown` from `StoreInv`: a worker whose init was acknowledged, or is
    about to be, has a store in the primary, or somebody ended it.
  * `CountedAnswered` from `CountedInv`: a counted hit has its answer on its way or its
    caller has stopped listening.
  * `ClusterAdmission` (`AdmissionBounded`) from `AdmitInv`: the counter is the number of
    counted increments, and at most `Limit` of them were or will be told "allowed".
* `KeyManagerProofs`
  * `AdjustmentFound` (`AdjustmentSurvivesAwait`) from `AwaitInv`: a call in its await
    has an adjustment in its process unless one of the named causes removed it.
  * `EscalationKept` (`EscalationRemembered`) from `RememberInv`: no two processes share
    an adjustment object, and the snapshot that a penalty holds across its await is
    the current one.
  * `BanHeld` (`BanEndsOnlyByRace`) from `BanInv`: as long as none of the five ways
    to lose it occurred, the shared store keeps the ban, and a pull in flight has read it
    or is stale; a DEL that meets the ban is one of the five.
* `RateLimitEngineProofs`
  * `PenaltyEarned` (`PenaltyDeserved`) from `PenaltyInv`: at least
    `threshold * penalties + violations` requests of a key were over a limit.
  * `RequestAdmission` (`AdmissionBounded`) and `RollbackKept` (`RollbackExact`) from
    `EngineInv` and `CountInv`: the count of an open window is the number of requests
    that hold a hit in it (`Holders`), a request being a holder from its increment to
    its rollback or refund; a window lets through no more than it counts, whatever another
    window's outage makes of a refusal.
  * `ShieldTrue` (`ShieldHonest`) from `HonestInv`: an answer that may still be cached
    speaks of a window that ends no later than the open one, and a live entry has an
    open window with `blockOnConsumed` hits that ends no earlier than the entry.
* `ComposedStoreProofs`, all over `ComposedInv` (types, shape of the calls' progress,
  frames, resets)
  * `FramesExact` (`FramesMatchAdmissions`): a frame is on the stack from the admission
    to the decrement that pops it.
  * `HitsPlaced` (`HitsWhereTheyBelong`) from `HeldInv`: for a call in progress, the
    layers that hold its hit follow from where it is.
  * `ComposedAdmission` (`AdmissionBounded`) from `AllInv` (mode all: a layer counts at
    least the calls whose hit is certain, and has let at most its cap pass) and `ClaimInv`
    (other modes: the places that the calls still hold are no more than those the
    layers have filled up to their caps).
* `MemoryStoreProofs`
  * `MapBounded` (`KeysBounded`) from `MapInv`: the insertion order lists a key once, and
    at most `maxKeys` of its keys have had room made for them. The eviction of the oldest
    key is covered for all caps, the cap that shrinks included.
  * `StoreImplements` (`ImplementsContract`), the refinement of `StoreContract`, from
    `StoreInv`: `MapInv`, and of the entries (`EntryInv`) that stamps are in the order of
    the clock, windows end within their length and buckets were refilled in the past. A
    call that changes quotas is one step of the contract (`IncrementTakes`,
    `DecrementGivesBack`, `ResetClears`, `SetAssigns`, `TickAges`), every other one a
    stutter (`GetShows`, `GetActiveKeysShows`, `PurgeShows`). The argument turns on three
    facts of the entries: pruning stamps in order leaves a suffix, so that pruning twice
    is pruning once (`PruneTwice`); hits dropped from stamps that have not been pruned
    are, once they are, at most as many hits dropped from live ones (`DropPruned`); and a
    bucket refilled at every tick is the bucket refilled at the last (`RefillNext`), also
    when tokens came back in between (`RefillMore`).

* `SharedStoreProofs`, all over `Base`: rows, calls and clocks have their types, a row
  was written in the past and a caller's clock lags by at most `MaxLag`. Each statement
  of each store is first brought into one form (`RedisSliding`, `PgBucket`,
  `DynamoFixed`, ...), and the steps of the system into four (`Forms`): the row stays,
  an increment writes it, an undo writes it, an operator or a clean-up replaces it.
  * `PreviewCorrect` (`PreviewAgrees`) needs no more than `Base`: it compares, for each
    store and strategy, what `get()` computes with what `increment()` would.
  * `GivesUpCorrect` (`GivesUpOnlyWhenStale`) from `WindowRounds` (a caller whose
    conditions have all failed has seen an item of a later window) and `BucketRounds` (the
    rounds that a caller has lost are no more than the writes of others, an undo
    counting for two).
  * `AdmissionCorrect` (`AdmissionBounded`) from `RowCounts`: what the row says of the
    hits that count. An exact sliding window holds, after any time in the window, at
    least as many stamps as there are hits (`SlidingCounts`); the counter of a fixed
    window covers its hits, and two windows that have hits are a span apart
    (`FixedCounts`, by `TwoWindows` at most two of them meet a span); a DynamoDB item
    covers the hits of its window and, where it is weighted, of the one before
    (`WindowCounts`, by `WeighedRoom` what an admission leaves); a bucket's tokens and
    those taken since any time in the span fit in the bucket, or, if a refill came
    since, in the bucket and one refill (`BucketCounts`). For a bucket it takes three
    more facts: the lock of Postgres protects the row that was read (`LockedRow`), the
    tokens since the last refill fit with those that are left (`Tidy`), without which an
    undo could not be shown to give back only what was taken, and tokens are filed
    under refills in the order in which they were taken (`InTurn`). `QuotaKeeps` reduces
    the property to the moment of an admission.

Two forms in the models were chosen for the proofs and do not change behaviour: the
order of keys is filtered by rank (`Subsequence!Keep`) where a recursive filter has no
theory in the prover, and alternatives that exclude each other are IF/ELSE where a CASE
would overlap.

Only model-checked:

* liveness (`NeverStuck`, `EveryCallSettles` of the queue and of the cluster,
  `HalfOpenResolves`, `Converges`), out of the prover's reach;
* `BlockedOnlyWhenFull` of `SharedStore`, which has no theorem yet: it needs the
  converse of every count of `RowCounts` (the row holds no more than what is charged),
  once for each store and strategy.

## Plan

1. `BlockedOnlyWhenFull` of `SharedStore`, from the same rows as `AdmissionBounded` with
   the inequalities turned round: the row holds no more than the hits that are charged.
2. `KeyedRateLimiterQueue` as a composition of queues, and the counts and times of merged
   answers of grouped windows as pure operators.

## Not modelled

Admin handlers, presets, option merging and headers have no state of their own
worth exploring; metrics are sequential counters. `KeyedRateLimiterQueue` is a map
of queues, each of which is modelled; evicting one is a `shutdown()`. In the parts
that are modelled:

* `RedisResilience`: the expiry of keys, the store without insurance, a connection
  that failed for good (after which every probe fails).
* `SharedStore`: clocks that run backwards, costs above 1, the remaining and reset
  values of answers, indexes and connection set-up.
* `MemoryStore`: eviction callbacks and velocity alerts.
* `ComposedStore`: more than one key, windows that end during a call, `keyTransform`,
  and the results cached for debugging.
* `ClusterStore`: more than one prefix or key, windows that end (they are those of
  `MemoryStore`).
* `RateLimitEngine`: the counts and times in merged answers and the binding slots of
  grouped windows (what the merge decides is modelled), per-request
  costs, composed stores behind the engine, the queued middleware.
* `KeyManager`: `set()` and `get()`, the audit log and the events.

## Running

    tlc -workers 2 -config RateLimiterQueue.cfg RateLimiterQueue
    tlc -workers 2 -config SharedStore.cfg MCSharedStore
    tlapm RateLimiterQueueProofs.tla

`PROJECT.json` lists the module and the configuration of each run. Each definition
named `Bug...` is a deliberate mistake that stands before the definition it
replaces; it is used to make sure that each property can fail. `PROJECT.json` also
maps each definition to the lines it models.
