--------------------------- MODULE InMemoryShield ---------------------------
(***************************************************************************)
(* The block cache of InMemoryShield: a Map from keys to entries, kept in  *)
(* insertion order, here a sequence of [key, until].  Operators on the     *)
(* cache; RateLimitEngine has the state and the calls to the inner store.  *)
(***************************************************************************)
EXTENDS Integers, Sequences, Subsequence

CONSTANTS
    MaxBlockedKeys,     \* 0 for unlimited
    BlockOnConsumed,
    BlockDuration       \* blockDurationMs of a shield that has one, in ticks

ASSUME ShieldAssumption ==
    /\ MaxBlockedKeys \in Nat /\ BlockOnConsumed \in Nat \ {0}
    /\ BlockDuration \in Nat \ {0}

\* cache.delete(key), also unshield(), and what decrement, reset, delete and set begin with.
Unshield(cache, key) == Keep(cache, {i \in DOMAIN cache : cache[i].key # key})

IsShielded(cache, key, now) ==
    \E i \in DOMAIN cache : cache[i].key = key /\ now < cache[i].until

\* Mutant of Entry: the entry outlives the window whose answer it repeats.
BugBlocksOneMore(key, result, ttl, now) == [key |-> key, until |-> result.reset + 1]

Entry(key, result, ttl, now) ==
    [key |-> key, until |-> IF ttl = "duration" THEN now + BlockDuration ELSE result.reset]

\* cacheBlock: at the cap the oldest entry goes, even if the key has an entry already (it is
\* then replaced where it was: the order of the others does not depend on it).
CacheBlock(cache, key, result, ttl, now) ==
    LET room == IF MaxBlockedKeys > 0 /\ Len(cache) >= MaxBlockedKeys THEN Tail(cache)
                ELSE cache
        entry == Entry(key, result, ttl, now)
    IN IF \E i \in DOMAIN room : room[i].key = key
       THEN [i \in DOMAIN room |-> IF room[i].key = key THEN entry ELSE room[i]]
       ELSE Append(room, entry)

Sweep(cache, now) == Keep(cache, {i \in DOMAIN cache : now < cache[i].until})

=============================================================================
