---------------------------- MODULE DynamoStore ----------------------------
(***************************************************************************)
(* DynamoStore on one item.  An increment is a loop of conditional         *)
(* updates: each is atomic, and other callers come in between.  The caller *)
(* reads its clock once, before the loop, so all its conditions are about  *)
(* the window it started in.  MaxAttempts stands for the 24 (12) rounds of *)
(* the loops; a round that fails in every condition is tried again.        *)
(***************************************************************************)
EXTENDS StoreRows

CONSTANT MaxAttempts

\* fixedWindowBoundaryMs.
Boundary(t) == (t \div Window) * Window

\* slidingWeight times Window, an integer.
Weight(t, start) ==
    IF t - start <= 0 THEN Window
    ELSE IF t - start >= Window THEN 0
    ELSE Window - (t - start)

\* weightedSlidingCount times Window.
WeightedCount(row, t) == row.prev * Weight(t, row.at) + row.count * Window

\* ttlEpochSeconds.
Ttl(t) == t + 3 * Window

WindowRow(start, count, prev, t) ==
    [NoRow EXCEPT !.at = start, !.count = count, !.prev = prev, !.exp = Ttl(t)]

\* A conditional update: the next leg when its condition fails.
SlidingAnswer(row, t) == Ends(row, Verdict(WeightedCount(row, t) > Limit * Window))
FixedAnswer(row) == Ends(row, Verdict(Greatest(0, row.count) > Limit))

\* Mutant of NextRound: no second round.
BugNoRetry(row, call) == Ends(row, "threw")

\* A round that failed: the loop goes on or gives up with an error that increment()
\* rethrows, whatever onDynamoError says.
NextRound(row, call) ==
    IF call.round < MaxAttempts THEN Yield(row, "start", NoRow, "none")
    ELSE Ends(row, "threw")

\* ADD in the current sub-window; else make the previous one the current; else start
\* over, if the item is missing or older.
SlidingIncr(row, call) ==
    LET b == Boundary(call.t) IN
    CASE call.leg = "start" ->
            IF Exists(row) /\ row.at = b
            THEN SlidingAnswer([row EXCEPT !.count = @ + call.cost, !.exp = Ttl(call.t)],
                               call.t)
            ELSE Yield(row, "roll", NoRow, "none")
      [] call.leg = "roll" ->
            IF Exists(row) /\ row.at = b - Window
            THEN SlidingAnswer(WindowRow(b, call.cost, row.count, call.t), call.t)
            ELSE Yield(row, "restart", NoRow, "none")
      [] call.leg = "restart" ->
            IF ~ Exists(row) \/ row.at < b
            THEN SlidingAnswer(WindowRow(b, call.cost, 0, call.t), call.t)
            ELSE NextRound(row, call)

FixedIncr(row, call) ==
    LET b == Boundary(call.t) IN
    CASE call.leg = "start" ->
            IF Exists(row) /\ row.at = b
            THEN FixedAnswer([row EXCEPT !.count = @ + call.cost, !.exp = Ttl(call.t)])
            ELSE Yield(row, "restart", NoRow, "none")
      [] call.leg = "restart" ->
            IF ~ Exists(row) \/ row.at < b
            THEN FixedAnswer(WindowRow(b, call.cost, 0, call.t))
            ELSE NextRound(row, call)

\* simulateWeightedIncrement, the reference the tests use: an increment that nobody
\* interrupts.
SimulateWeightedIncrement(row, t, cost) ==
    LET b == Boundary(t) IN
    IF Exists(row) /\ row.at = b THEN WindowRow(b, row.count + cost, row.prev, t)
    ELSE IF Exists(row) /\ row.at + Window = b THEN WindowRow(b, cost, row.count, t)
    ELSE WindowRow(b, cost, 0, t)

\* Read, compute, and write on condition that the item is still as it was read.
BucketIncr(row, call) ==
    LET bucket == IF Exists(call.seen) THEN Refill(call.seen.count, call.seen.at, call.t)
                  ELSE [tokens |-> BucketSize, last |-> call.t]
        taken == TakeTokens(bucket, call.cost)
        unchanged == IF Exists(call.seen)
                     THEN Exists(row) /\ row.count = call.seen.count /\ row.at = call.seen.at
                     ELSE ~ Exists(row)
    IN CASE call.leg = "start" -> Yield(row, "write", row, "none")
         [] call.leg = "write" ->
              IF unchanged
              THEN Ends(BucketRow(taken.tokens, taken.last, call.t + 3 * Interval),
                        Verdict(taken.blocked))
              ELSE NextRound(row, call)

IncrementStep(strategy, row, call, now) ==
    CASE strategy = "SLIDING_WINDOW" -> SlidingIncr(row, call)
      [] strategy = "FIXED_WINDOW" -> FixedIncr(row, call)
      [] strategy = "TOKEN_BUCKET" -> BucketIncr(row, call)

\* ADD of the negative cost in the current window, or of tokens; a second update
\* clamps the value if it left its range and is still out of it.
WindowDecr(row, call) ==
    LET b == Boundary(call.t) IN
    CASE call.leg = "start" ->
            IF ~ (Exists(row) /\ row.at = b) THEN Ends(row, "done")
            ELSE IF row.count - call.cost < 0
                 THEN Yield([row EXCEPT !.count = @ - call.cost], "clamp", NoRow, "none")
                 ELSE Ends([row EXCEPT !.count = @ - call.cost], "done")
      [] call.leg = "clamp" ->
            Ends(IF Exists(row) /\ row.at = b /\ row.count < 0
                 THEN [row EXCEPT !.count = 0] ELSE row, "done")

BucketDecr(row, call) ==
    CASE call.leg = "start" ->
            IF ~ Exists(row) THEN Ends(row, "done")
            ELSE LET r == [row EXCEPT !.count = @ + call.cost, !.exp = call.t + 3 * Interval]
                 IN IF r.count > BucketSize THEN Yield(r, "clamp", NoRow, "none")
                    ELSE Ends(r, "done")
      [] call.leg = "clamp" ->
            Ends(IF Exists(row) /\ row.count > BucketSize
                 THEN [row EXCEPT !.count = BucketSize] ELSE row, "done")

DecrementStep(strategy, row, call, now) ==
    IF strategy = "TOKEN_BUCKET" THEN BucketDecr(row, call) ELSE WindowDecr(row, call)

SetRow(strategy, n, t, now) ==
    IF strategy = "TOKEN_BUCKET" THEN BucketRow(TokensAfterSet(n), t, t + 3 * Interval)
    ELSE WindowRow(Boundary(t), n, 0, t)

\* The hits get() reports; those of a weighted window are not rounded here but
\* multiplied by Window.
Preview(strategy, row, now) ==
    IF ~ Exists(row) THEN 0
    ELSE CASE strategy = "SLIDING_WINDOW" ->
                 IF row.at + 2 * Window <= now THEN 0 ELSE WeightedCount(row, now)
           [] strategy = "FIXED_WINDOW" ->
                 IF now >= row.at + Window THEN 0 ELSE Greatest(0, row.count)
           [] strategy = "TOKEN_BUCKET" ->
                 BucketSize - Refill(row.count, row.at, now).tokens

\* Time to live of the table.
MayExpire(row, now) == Exists(row) /\ row.exp < now

\* DeleteCommand, in reset() and in delete().
ResetRow == NoRow
DeleteRow == NoRow

=============================================================================
