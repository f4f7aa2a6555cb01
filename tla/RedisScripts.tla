---------------------------- MODULE RedisScripts ----------------------------
(***************************************************************************)
(* The Lua scripts of RedisStore on one key.  A script is atomic; `t' is   *)
(* the caller's Date.now(), `now' the server's clock, which alone decides  *)
(* when a key expires.  A sorted set is kept in the order of its scores.   *)
(***************************************************************************)
EXTENDS StoreRows

\* A key past its expiry does not exist.
Visible(row, now) == IF Exists(row) /\ now >= row.exp THEN NoRow ELSE row

\* ZADD of n members with score t.
ZAdd(hits, n, t) ==
    Keep(hits, {i \in DOMAIN hits : hits[i] <= t}) \o Copies(n, t) \o Prune(hits, t)

SlidingIncr(row, cost, t, now) ==
    LET hits == ZAdd(Prune(Visible(row, now).hits, t - Window), cost, t) IN
    Ends(SlidingRow(hits, now + Window), Verdict(Len(hits) > Limit))

SlidingDecr(row, cost, newest, now) ==
    LET hits == DropHits(Visible(row, now).hits, cost, newest) IN
    Ends(IF hits = << >> THEN NoRow ELSE [row EXCEPT !.hits = hits], "done")

\* The window starts with the hit that makes the counter equal to its cost.
FixedIncr(row, cost, now) ==
    LET r == Visible(row, now)
        current == r.count + cost
    IN Ends(FixedRow(current, IF current = cost THEN now + Window ELSE r.exp),
            Verdict(current > Limit))

FixedDecr(row, cost, now) ==
    LET r == Visible(row, now) IN
    Ends(IF r.count <= 0 THEN r ELSE [r EXCEPT !.count = @ - Least(@, cost)], "done")

BucketIncr(row, cost, t, now) ==
    LET r == Visible(row, now)
        bucket == IF Exists(r) THEN Refill(r.count, r.at, t)
                  ELSE [tokens |-> BucketSize, last |-> t]
        taken == TakeTokens(bucket, cost)
    IN Ends(BucketRow(taken.tokens, taken.last, now + 10 * Interval),
            Verdict(taken.blocked))

BucketDecr(row, cost, now) ==
    LET r == Visible(row, now) IN
    Ends(IF Exists(r) THEN [r EXCEPT !.count = Least(BucketSize, @ + cost)] ELSE r, "done")

IncrementStep(strategy, row, call, now) ==
    CASE strategy = "SLIDING_WINDOW" -> SlidingIncr(row, call.cost, call.t, now)
      [] strategy = "FIXED_WINDOW" -> FixedIncr(row, call.cost, now)
      [] strategy = "TOKEN_BUCKET" -> BucketIncr(row, call.cost, call.t, now)

DecrementStep(strategy, row, call, now) ==
    CASE strategy = "SLIDING_WINDOW" -> SlidingDecr(row, call.cost, call.newest, now)
      [] strategy = "FIXED_WINDOW" -> FixedDecr(row, call.cost, now)
      [] strategy = "TOKEN_BUCKET" -> BucketDecr(row, call.cost, now)

\* set() without expiresAt: n hits in an emptied sorted set, or no key at all.
SlidingSet(n, t, now) == IF n = 0 THEN NoRow ELSE SlidingRow(Copies(n, t), now + Window)

\* A bucket is written as it is, whatever Redis holds.
BucketSync(tokens, t, now) == BucketRow(tokens, t, now + 10 * Interval)

SetRow(strategy, n, t, now) ==
    CASE strategy = "SLIDING_WINDOW" -> SlidingSet(n, t, now)
      [] strategy = "FIXED_WINDOW" -> FixedRow(n, now + Window)
      [] strategy = "TOKEN_BUCKET" -> BucketSync(TokensAfterSet(n), t, now)

\* The hits that a read reports at time now, 0 standing for null.
SlidingGet(row, now) == Len(Prune(Visible(row, now).hits, now - Window))
FixedGet(row, now) == Visible(row, now).count
BucketGet(row, now) ==
    LET r == Visible(row, now) IN
    IF Exists(r) THEN BucketSize - Refill(r.count, r.at, now).tokens ELSE 0

Preview(strategy, row, now) ==
    CASE strategy = "SLIDING_WINDOW" -> SlidingGet(row, now)
      [] strategy = "FIXED_WINDOW" -> FixedGet(row, now)
      [] strategy = "TOKEN_BUCKET" -> BucketGet(row, now)

\* What DEL leaves, for reset() and for delete().
ResetRow == NoRow
DeleteRow == NoRow

=============================================================================
