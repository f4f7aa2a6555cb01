---------------------------- MODULE MemoryStore ----------------------------
(***************************************************************************)
(* MemoryStore: a Map from keys to entries whose insertion order is the    *)
(* order of last use, capped at maxKeys by evicting from its head, and a   *)
(* timer that purges what has expired.  JavaScript runs every operation to *)
(* its end, so each is one action.                                         *)
(***************************************************************************)
EXTENDS StoreRows, FiniteSets, SequencesExt, Subsequence

CONSTANTS
    Keys, Costs,
    Caps,       \* values of maxKeys to check; 0 is no cap
    MaxSet,     \* largest totalHits given to set()
    IdleIntervals,  \* idle intervals after which a full bucket is purged (10 in the code)
    MaxTime, MaxEntrySize

ASSUME StoreAssumption == Caps \subseteq Nat /\ Costs \subseteq Nat /\ MaxSet \in Nat

VARIABLES
    strategy, maxKeys,
    order,      \* keys of the Map, in its order
    entry,      \* per key, its entry; NoEntry when it is not in the Map
    timer,      \* the cleanup timer is running
    now,
    last, answer,   \* the last call that may change quotas, the last increment's answer
    unroomed    \* the keys that reset() has put in since room was last made

vars == <<strategy, maxKeys, order, entry, timer, now, last, answer, unroomed>>

\* stamps and wall (wallExpiresAt, or -1) of a sliding window; count and at are the
\* count and resetTime of a fixed one, or the tokens and lastRefill of a bucket.
NoEntry == [stamps |-> << >>, wall |-> -1, count |-> 0, at |-> 0]
Stamps(s, wall) == [NoEntry EXCEPT !.stamps = s, !.wall = wall]
Counter(n, at) == [NoEntry EXCEPT !.count = n, !.at = at]

Sliding == strategy = "SLIDING_WINDOW"
Fixed == strategy = "FIXED_WINDOW"
Bucket == strategy = "TOKEN_BUCKET"

Has(k) == Contains(order, k)

\* A Map without some keys.
Without(seq, keys) == Keep(seq, {i \in DOMAIN seq : seq[i] \notin keys})

\* wallExpiresAt is over.
WallOver(k) == Sliding /\ Has(k) /\ entry[k].wall >= 0 /\ now >= entry[k].wall

\* A full bucket that has been idle for long.
IsBucketIdleFullPurgeable(e) == e.count >= BucketSize /\ now - e.at > IdleIntervals * Interval

IsEntryExpired(k) ==
    CASE Sliding -> WallOver(k) \/ Prune(entry[k].stamps, now - Window) = << >>
      [] Fixed -> now >= entry[k].at
      [] Bucket -> IsBucketIdleFullPurgeable(entry[k])

\* Mutant of EnsureRoom: one key is removed at most.
BugRoomForOne(k) ==
    IF maxKeys = 0 \/ Has(k) \/ Len(order) < maxKeys THEN order
    ELSE Tail(order)

\* The keys left when there is room for key k: heads go, expired or not, until the Map
\* is below its cap.
EnsureRoom(k) ==
    IF maxKeys = 0 \/ Has(k) \/ Len(order) < maxKeys THEN order
    ELSE DropFirst(order, Len(order) - maxKeys + 1)

\* delete and set: key k with entry e, last in the order kept.  Without a cap, fixed
\* windows and buckets stay in their place.
Put(kept, k, e, moves) ==
    /\ order' = IF Has(k) /\ ~ moves THEN kept ELSE Append(Without(kept, {k}), k)
    /\ entry' = [x \in Keys |-> IF x = k THEN e
                                ELSE IF Contains(kept, x) THEN entry[x] ELSE NoEntry]

\* The Map without some keys.
Drop(keys) ==
    /\ order' = Without(order, keys)
    /\ entry' = [x \in Keys |-> IF x \in keys THEN NoEntry ELSE entry[x]]

\* In place: Map.set of a key it has.
Replace(k, e) == entry' = [entry EXCEPT ![k] = e] /\ UNCHANGED order

\* The entry stays, and becomes the most recently used.
Touch(k) == /\ order' = IF maxKeys = 0 THEN order ELSE Append(Without(order, {k}), k)
            /\ UNCHANGED entry

\* Room has been made, or was there.
RoomMade(k) == unroomed' = IF maxKeys = 0 \/ Has(k) THEN unroomed ELSE {}

-----------------------------------------------------------------------------

\* The Map's keys are distinct, exactly those that have an entry, of its strategy's kind.
TypeOK ==
    /\ order \in Seq(Keys) /\ IsInjective(order)
    /\ \A k \in Keys :
          /\ ~ Has(k) => entry[k] = NoEntry
          /\ Fixed => entry[k].count >= 0
          /\ Bucket => entry[k].count \in 0..BucketSize
    /\ timer \in BOOLEAN /\ now \in 0..MaxTime
    /\ answer \in {"none", "allowed", "blocked"}

Init ==
    /\ strategy \in {"SLIDING_WINDOW", "FIXED_WINDOW", "TOKEN_BUCKET"}
    /\ maxKeys \in Caps
    /\ order = << >> /\ entry = [k \in Keys |-> NoEntry]
    /\ timer = TRUE /\ now = 0
    /\ last = <<"none">> /\ answer = "none" /\ unroomed = {}

IncrementSliding(k, cost) ==
    LET old == IF Has(k) /\ ~ WallOver(k) THEN entry[k].stamps ELSE << >>
        stamps == Prune(old, now - Window) \o Copies(cost, now)
        \* an entry past its wall is deleted first, which makes the room it takes
        kept == IF WallOver(k) THEN Without(order, {k}) ELSE EnsureRoom(k)
    IN /\ Len(stamps) <= MaxEntrySize
       /\ Put(kept, k, Stamps(stamps, -1), TRUE)
       /\ answer' = Verdict(Len(stamps) > Limit)

IncrementFixed(k, cost) ==
    LET e == IF ~ Has(k) \/ now >= entry[k].at THEN Counter(cost, now + Window)
             ELSE Counter(entry[k].count + cost, entry[k].at)
    IN /\ e.count <= MaxEntrySize
       /\ Put(EnsureRoom(k), k, e, maxKeys > 0)
       /\ answer' = Verdict(e.count > Limit)

IncrementTokenBucket(k, cost) ==
    LET bucket == IF Has(k) THEN Refill(entry[k].count, entry[k].at, now)
                  ELSE [tokens |-> BucketSize, last |-> now]
        taken == TakeTokens(bucket, cost)
    IN /\ Put(EnsureRoom(k), k, Counter(taken.tokens, taken.last), maxKeys > 0)
       /\ answer' = Verdict(taken.blocked)

Increment(k, cost) ==
    /\ \/ Sliding /\ IncrementSliding(k, cost)
       \/ Fixed /\ IncrementFixed(k, cost)
       \/ Bucket /\ IncrementTokenBucket(k, cost)
    /\ RoomMade(k)
    /\ last' = <<"increment", k>>
    /\ UNCHANGED <<strategy, maxKeys, timer, now>>

\* Nothing is pruned first: the oldest stamp may be one that has expired.
DecrementSliding(k, cost, newest) ==
    LET stamps == DropHits(entry[k].stamps, cost, newest) IN
    IF ~ Has(k) \/ entry[k].stamps = << >> THEN UNCHANGED <<order, entry>>
    ELSE IF stamps = << >> THEN Drop({k})
    ELSE Replace(k, [entry[k] EXCEPT !.stamps = stamps])

DecrementFixed(k, cost) ==
    IF ~ Has(k) \/ entry[k].count <= 0 THEN UNCHANGED <<order, entry>>
    ELSE IF entry[k].count <= cost THEN Drop({k})
    ELSE Replace(k, [entry[k] EXCEPT !.count = @ - cost])

DecrementTokenBucket(k, cost) ==
    IF ~ Has(k) THEN UNCHANGED <<order, entry>>
    ELSE Replace(k, [entry[k] EXCEPT !.count = Least(BucketSize, @ + cost)])

Decrement(k, cost) ==
    /\ \/ Sliding /\ \E newest \in BOOLEAN : DecrementSliding(k, cost, newest)
       \/ Fixed /\ DecrementFixed(k, cost)
       \/ Bucket /\ DecrementTokenBucket(k, cost)
    /\ last' = <<"decrement", k>>
    /\ UNCHANGED <<strategy, maxKeys, timer, now, answer, unroomed>>

\* Windows and buckets are put back to their start, in the Map or not: no room is made.
Reset(k) ==
    /\ \/ Sliding /\ Drop({k}) /\ UNCHANGED unroomed
       \/ /\ ~ Sliding
          /\ Put(order, k, IF Fixed THEN Counter(0, now + Window) ELSE Counter(BucketSize, now),
                 FALSE)
          /\ unroomed' = IF maxKeys = 0 \/ Has(k) THEN unroomed ELSE unroomed \union {k}
    /\ last' = <<"clear", {k}>>
    /\ UNCHANGED <<strategy, maxKeys, timer, now, answer>>

\* delete().
Delete(k) ==
    /\ Drop({k})
    /\ last' = <<"clear", {k}>>
    /\ UNCHANGED <<strategy, maxKeys, timer, now, answer, unroomed>>

\* get(): reads, but drops a sliding window whose wall is over and uses what it finds.
GetSlidingReadOnly(k) ==
    IF WallOver(k) THEN Drop({k})
    ELSE IF Has(k) /\ Prune(entry[k].stamps, now - Window) # << >> THEN Touch(k)
    ELSE UNCHANGED <<order, entry>>

GetFixedReadOnly(k) ==
    IF Has(k) /\ now < entry[k].at THEN Touch(k) ELSE UNCHANGED <<order, entry>>

GetTokenBucketReadOnly(k) ==
    IF Has(k) /\ ~ IsBucketIdleFullPurgeable(entry[k]) THEN Touch(k)
    ELSE UNCHANGED <<order, entry>>

Get(k) ==
    /\ \/ Sliding /\ GetSlidingReadOnly(k)
       \/ Fixed /\ GetFixedReadOnly(k)
       \/ Bucket /\ GetTokenBucketReadOnly(k)
    /\ UNCHANGED <<strategy, maxKeys, timer, now, last, answer, unroomed>>

\* The entries that set() writes, with expires -1 when there is no expiresAt; buckets
\* ignore it.
SetSliding(n, expires) == Stamps(Copies(n, now), expires)
SetFixed(n, expires) == Counter(n, IF expires >= 0 THEN expires ELSE now + Window)
SetTokenBucket(n, expires) == Counter(TokensAfterSet(n), now)

Set(k, n, expires) ==
    /\ Put(EnsureRoom(k), k,
           CASE Sliding -> SetSliding(n, expires)
             [] Fixed -> SetFixed(n, expires)
             [] Bucket -> SetTokenBucket(n, expires),
           maxKeys > 0)
    /\ RoomMade(k)
    /\ last' = <<"set", k>>
    /\ UNCHANGED <<strategy, maxKeys, timer, now, answer>>

\* getActiveKeys(): reads, but drops sliding windows whose wall is over.
GetActiveKeys ==
    /\ Drop({k \in Keys : WallOver(k)})
    /\ UNCHANGED <<strategy, maxKeys, timer, now, last, answer, unroomed>>

ResetAll ==
    /\ Drop(Keys)
    /\ last' = <<"clear", Keys>>
    /\ unroomed' = {}
    /\ UNCHANGED <<strategy, maxKeys, timer, now, answer>>

Shutdown ==
    /\ timer' = FALSE
    /\ Drop(Keys)
    /\ last' = <<"clear", Keys>>
    /\ unroomed' = {}
    /\ UNCHANGED <<strategy, maxKeys, now, answer>>

\* Mutant of Purge: buckets that are full count as idle.
BugPurgeFullBuckets ==
    /\ timer
    /\ LET gone == {k \in ToSet(order) : IsEntryExpired(k) \/ Bucket} IN Drop(gone)
    /\ UNCHANGED <<strategy, maxKeys, timer, now, last, answer, unroomed>>

\* The cleanup timer: expired entries go, and sliding windows are pruned in place.
Purge ==
    /\ timer
    /\ LET gone == {k \in ToSet(order) : IsEntryExpired(k)} IN
       /\ order' = Without(order, gone)
       /\ entry' = [k \in Keys |->
                      IF k \in gone THEN NoEntry
                      ELSE [entry[k] EXCEPT !.stamps = Prune(@, now - Window)]]
    /\ UNCHANGED <<strategy, maxKeys, timer, now, last, answer, unroomed>>

Tick ==
    /\ now < MaxTime
    /\ now' = now + 1
    /\ UNCHANGED <<strategy, maxKeys, order, entry, timer, last, answer, unroomed>>

Next ==
    \/ \E k \in Keys :
          \/ \E c \in Costs : Increment(k, c) \/ Decrement(k, c)
          \/ Reset(k) \/ Delete(k) \/ Get(k)
          \/ \E n \in 0..MaxSet, e \in {-1, now + 1} : Set(k, n, e)
    \/ GetActiveKeys \/ ResetAll \/ Shutdown \/ Purge \/ Tick

Spec == Init /\ [][Next]_vars

-----------------------------------------------------------------------------

\* The Map holds a key once, and exceeds its cap by no more than the keys reset() has put
\* in since room was last made: making room restores the cap, however far it was exceeded.
KeysBounded ==
    /\ IsInjective(order)
    /\ maxKeys > 0 => Len(order) <= maxKeys + Cardinality(unroomed)

\* Here only for the operators that depend on no variable.
Abstract == INSTANCE StoreContract WITH quota <- entry

\* The quota of an entry at time t, and of key k, as a client sees them.
QuotaOf(e, t) ==
    CASE Sliding -> IF e.wall >= 0 /\ t >= e.wall THEN Abstract!Free
                    ELSE Abstract!Quota(Prune(e.stamps, t - Window), 0, e.wall)
      [] Fixed -> IF t >= e.at THEN Abstract!Free ELSE Abstract!Quota(<< >>, e.count, e.at)
      [] Bucket -> LET r == Refill(e.count, e.at, t) IN
                   Abstract!Quota(<< >>, BucketSize - r.tokens, r.last)

View(k) == IF Has(k) THEN QuotaOf(entry[k], now) ELSE Abstract!Free

Contract == INSTANCE StoreContract WITH quota <- [k \in Keys |-> View(k)]

\* MemoryStore implements the contract: clean-up, reads and the order of the Map never
\* show, no call touches the quota of another key, but for the keys that a new key
\* displaces.
ImplementsContract == Contract!Spec

=============================================================================
