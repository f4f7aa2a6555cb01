------------------------------ MODULE PgStore ------------------------------
(***************************************************************************)
(* PgStore on one row.  Every operation is one step, but for those of the  *)
(* token bucket.  Its increment is a transaction that reads the row        *)
(* (SELECT ... FOR UPDATE) and writes it in a second statement; FOR UPDATE *)
(* locks an existing row and nothing when there is none.  Its decrement is *)
(* one statement that reads a snapshot and writes the row later.  The      *)
(* client is a pool, so transactions have connections of their own.  All   *)
(* times in a statement are the caller's; sweep() deletes rows whose       *)
(* reset_at is before the server's NOW().                                  *)
(***************************************************************************)
EXTENDS StoreRows

\* The latest of some hits: the time the window's reset_at is counted from.
Newest(hits) ==
    CHOOSE h \in {hits[i] : i \in DOMAIN hits} : \A i \in DOMAIN hits : hits[i] <= h

FixedIncr(row, cost, t) ==
    IF ~ Exists(row) \/ row.exp <= t
    THEN Ends(FixedRow(cost, t + Window), Verdict(cost > Limit))
    ELSE Ends([row EXCEPT !.count = @ + cost], Verdict(row.count + cost > Limit))

\* Old hits in ascending order, new ones appended.  reset_at is the end of the
\* window when the row is inserted, and the newest hit itself when it is updated.
SlidingIncr(row, cost, t) ==
    IF ~ Exists(row)
    THEN Ends(SlidingRow(Copies(cost, t), t + Window), Verdict(cost > Limit))
    ELSE LET hits == Sorted(Prune(row.hits, t - Window)) \o Copies(cost, t) IN
         Ends(SlidingRow(hits, Newest(hits)), Verdict(Len(hits) > Limit))

\* The two statements of the bucket's transaction.  The write ignores what the row
\* holds by then; COMMIT makes it visible together with the release of the lock.
BucketIncr(row, call) ==
    LET bucket == IF Exists(call.seen) THEN Refill(call.seen.count, call.seen.at, call.t)
                  ELSE [tokens |-> BucketSize, last |-> call.t]
        taken == TakeTokens(bucket, call.cost)
    IN CASE call.leg = "start" -> Yield(row, "upsert", row, "none")
         [] call.leg = "upsert" ->
              Ends(BucketRow(taken.tokens, taken.last, taken.last + Interval),
                   Verdict(taken.blocked))

IncrementStep(strategy, row, call, now) ==
    CASE strategy = "SLIDING_WINDOW" -> SlidingIncr(row, call.cost, call.t)
      [] strategy = "FIXED_WINDOW" -> FixedIncr(row, call.cost, call.t)
      [] strategy = "TOKEN_BUCKET" -> BucketIncr(row, call)

\* The sliding decrement's transaction locks the row before it reads it, so that its
\* statements are one step; it adds the window to the newest hit.
SlidingDecr(row, cost, newest) ==
    LET hits == DropHits(row.hits, cost, newest) IN
    IF hits = << >> THEN Ends(NoRow, "done")
    ELSE Ends(SlidingRow(hits, Newest(hits) + Window), "done")

\* UPDATE ... FROM (SELECT ... FROM the same table): the tokens come from the row as it
\* was when the statement began, which READ COMMITTED does not read again when the update
\* has waited for the row's lock.
BucketDecr(row, call) ==
    Ends([row EXCEPT !.count = Least(BucketSize, call.seen.count + call.cost)], "done")

DecrementStep(strategy, row, call, now) ==
    IF ~ Exists(row) THEN Ends(row, "done")
    ELSE CASE strategy = "SLIDING_WINDOW" -> SlidingDecr(row, call.cost, call.newest)
           [] strategy = "FIXED_WINDOW" ->
                Ends([row EXCEPT !.count = Greatest(0, @ - call.cost)], "done")
           [] strategy = "TOKEN_BUCKET" -> BucketDecr(row, call)

SetRow(strategy, n, t, now) ==
    CASE strategy = "SLIDING_WINDOW" -> SlidingRow(Copies(n, t), t + Window)
      [] strategy = "FIXED_WINDOW" -> FixedRow(n, t + Window)
      [] strategy = "TOKEN_BUCKET" -> BucketRow(TokensAfterSet(n), t, t + Interval)

\* Mutant of Preview: a window is shown for one tick after its end.
BugPreviewLate(strategy, row, now) ==
    IF ~ Exists(row) THEN 0
    ELSE CASE strategy = "SLIDING_WINDOW" -> Len(Prune(row.hits, now - Window - 1))
           [] strategy = "FIXED_WINDOW" -> IF row.exp < now THEN 0 ELSE row.count
           [] strategy = "TOKEN_BUCKET" ->
                 BucketSize - Refill(row.count, row.at, now).tokens

\* get().
Preview(strategy, row, now) ==
    IF ~ Exists(row) THEN 0
    ELSE CASE strategy = "SLIDING_WINDOW" -> Len(Prune(row.hits, now - Window))
           [] strategy = "FIXED_WINDOW" -> IF row.exp <= now THEN 0 ELSE row.count
           [] strategy = "TOKEN_BUCKET" ->
                 BucketSize - Refill(row.count, row.at, now).tokens

\* sweep(): DELETE ... WHERE reset_at < NOW().
MayExpire(row, now) == Exists(row) /\ row.exp < now

\* DELETE of the row, in reset() and in delete().
ResetRow == NoRow
DeleteRow == NoRow

=============================================================================
