----------------------------- MODULE MongoStore -----------------------------
(***************************************************************************)
(* MongoStore on one document: one aggregation pipeline per operation,     *)
(* atomic on the server.  All times in a pipeline are the caller's.  The   *)
(* TTL monitor deletes a document some time after its resetAt.             *)
(***************************************************************************)
EXTENDS StoreRows

\* Mutant of FixedIncr: the old window is never over.
BugWindowNeverEnds(row, cost, t) ==
    IF ~ Exists(row) THEN Ends(FixedRow(cost, t + Window), Verdict(cost > Limit))
    ELSE Ends([row EXCEPT !.count = @ + cost], Verdict(row.count + cost > Limit))

\* resetAt <= now, or no document: a new window; else the count goes up.
FixedIncr(row, cost, t) ==
    IF ~ Exists(row) \/ row.exp <= t
    THEN Ends(FixedRow(cost, t + Window), Verdict(cost > Limit))
    ELSE Ends([row EXCEPT !.count = @ + cost], Verdict(row.count + cost > Limit))

\* The pipeline has no guard on the number of intervals: with a clock behind
\* lastRefillAt it is negative, takes tokens away and moves lastRefillAt back.
PipelineRefill(row, t) ==
    LET last == IF Exists(row) THEN row.at ELSE t
        tokens == IF Exists(row) THEN row.count ELSE BucketSize
        intervals == (t - last) \div Interval
    IN [tokens |-> Least(BucketSize, tokens + intervals * TokensPerInterval),
        last |-> last + intervals * Interval]

BucketIncr(row, cost, t) ==
    LET taken == TakeTokens(PipelineRefill(row, t), cost) IN
    Ends(BucketRow(taken.tokens, taken.last, taken.last + Interval),
         Verdict(taken.blocked))

SlidingIncr(row, cost, t) ==
    LET hits == Prune(row.hits, t - Window) \o Copies(cost, t) IN
    Ends(SlidingRow(hits, t + Window), Verdict(Len(hits) > Limit))

IncrementStep(strategy, row, call, now) ==
    CASE strategy = "SLIDING_WINDOW" -> SlidingIncr(row, call.cost, call.t)
      [] strategy = "FIXED_WINDOW" -> FixedIncr(row, call.cost, call.t)
      [] strategy = "TOKEN_BUCKET" -> BucketIncr(row, call.cost, call.t)

\* No upsert: a missing document stays missing, an emptied one stays.
DecrementStep(strategy, row, call, now) ==
    IF ~ Exists(row) THEN Ends(row, "done")
    ELSE CASE strategy = "SLIDING_WINDOW" ->
                Ends([row EXCEPT !.hits = DropHits(@, call.cost, call.newest)], "done")
           [] strategy = "FIXED_WINDOW" ->
                Ends([row EXCEPT !.count = Greatest(0, @ - call.cost)], "done")
           [] strategy = "TOKEN_BUCKET" ->
                Ends([row EXCEPT !.count = Least(BucketSize, @ + call.cost)], "done")

SetRow(strategy, n, t, now) ==
    CASE strategy = "SLIDING_WINDOW" -> SlidingRow(Copies(n, t), t + Window)
      [] strategy = "FIXED_WINDOW" -> FixedRow(n, t + Window)
      [] strategy = "TOKEN_BUCKET" -> BucketRow(TokensAfterSet(n), t, t + Interval)

Preview(strategy, row, now) ==
    IF ~ Exists(row) THEN 0
    ELSE CASE strategy = "SLIDING_WINDOW" -> Len(Prune(row.hits, now - Window))
           [] strategy = "FIXED_WINDOW" -> IF row.exp <= now THEN 0 ELSE row.count
           [] strategy = "TOKEN_BUCKET" ->
                 BucketSize - Refill(row.count, row.at, now).tokens

\* The TTL index { resetAt: 1 } with expireAfterSeconds 0.
MayExpire(row, now) == Exists(row) /\ row.exp <= now

\* deleteOne, in reset() and in delete().
ResetRow == NoRow
DeleteRow == NoRow

=============================================================================
