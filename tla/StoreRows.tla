----------------------------- MODULE StoreRows -----------------------------
(***************************************************************************)
(* What the shared stores (Redis, Postgres, MongoDB, DynamoDB) have in     *)
(* common: the row, document, item or key that holds the quota of one      *)
(* client, and the arithmetic on it.  One client's row is modelled, as no  *)
(* operation touches two.                                                  *)
(*                                                                         *)
(*   hits   times of the hits of a sliding window, in stored order         *)
(*   count  hits of a fixed window, tokens of a bucket, or the hits of the *)
(*          current sub-window of a weighted window                        *)
(*   prev   hits of the previous sub-window (DynamoDB)                     *)
(*   at     last refill of a bucket, or start of a DynamoDB window         *)
(*   exp    reset_at, resetAt, ttl, or the expiry of a Redis key           *)
(***************************************************************************)
EXTENDS Integers, Sequences, Subsequence

CONSTANTS
    Window,             \* windowMs, in ticks
    Limit,              \* maxRequests
    Interval,           \* refill interval of a bucket, in ticks
    TokensPerInterval,
    BucketSize

ASSUME RowsAssumption ==
    /\ Window \in Nat \ {0} /\ Limit \in Nat \ {0}
    /\ Interval \in Nat \ {0} /\ TokensPerInterval \in Nat \ {0}
    /\ BucketSize \in Nat \ {0}

NoRow == [hits |-> << >>, count |-> 0, prev |-> 0, at |-> 0, exp |-> -1]

Exists(row) == row.exp >= 0

SlidingRow(hits, exp) == [NoRow EXCEPT !.hits = hits, !.exp = exp]
FixedRow(count, exp) == [NoRow EXCEPT !.count = count, !.exp = exp]
BucketRow(tokens, last, exp) ==
    [NoRow EXCEPT !.count = tokens, !.at = last, !.exp = exp]

Least(a, b) == IF a <= b THEN a ELSE b
Greatest(a, b) == IF a >= b THEN a ELSE b

\* n copies of one time stamp.
Copies(n, t) == [i \in 1..n |-> t]

\* The hits after a cutoff.
Prune(hits, cutoff) == Keep(hits, {i \in DOMAIN hits : hits[i] > cutoff})

\* A sequence of hits without its first, or its last, n elements.
DropFirst(hits, n) == SubSeq(hits, n + 1, Len(hits))
DropLast(hits, n) == SubSeq(hits, 1, Len(hits) - n)
DropHits(hits, n, newest) ==
    IF newest THEN DropLast(hits, Least(n, Len(hits)))
    ELSE DropFirst(hits, Least(n, Len(hits)))

\* Mutant of Refill: the time of the last refill stays.
BugRefillForgetsRest(tokens, last, t) ==
    LET intervals == (t - last) \div Interval IN
    IF intervals > 0
    THEN [tokens |-> Least(BucketSize, tokens + intervals * TokensPerInterval),
          last |-> last]
    ELSE [tokens |-> tokens, last |-> last]

\* Tokens and refill time at time t, a clock that may be behind the stored one.
Refill(tokens, last, t) ==
    LET intervals == (t - last) \div Interval IN
    IF intervals > 0
    THEN [tokens |-> Least(BucketSize, tokens + intervals * TokensPerInterval),
          last |-> last + intervals * Interval]
    ELSE [tokens |-> tokens, last |-> last]

\* Taking cost tokens from a refilled bucket: a blocked take leaves it alone.
TakeTokens(bucket, cost) ==
    [tokens |-> IF bucket.tokens >= cost THEN bucket.tokens - cost ELSE bucket.tokens,
     last |-> bucket.last,
     blocked |-> bucket.tokens < cost]

\* Tokens that set(totalHits) leaves in a bucket.
TokensAfterSet(n) == IF n >= BucketSize THEN 0 ELSE BucketSize - n

\* What a step of an operation yields: the row, the leg that comes next (or "end"),
\* what was read for it, and the answer once there is one.
Yield(row, leg, seen, answer) ==
    [row |-> row, leg |-> leg, seen |-> seen, answer |-> answer]
Ends(row, answer) == Yield(row, "end", NoRow, answer)
Verdict(blocked) == IF blocked THEN "blocked" ELSE "allowed"

=============================================================================
