-------------------------- MODULE SharedStoreProofs --------------------------
EXTENDS SharedStore, FiniteSetTheorems, SequenceTheorems, WellFoundedInduction, TLAPS

-----------------------------------------------------------------------------
(* The statements of the four stores, in the same terms                    *)

\* The operators of StoreRows are the same in every instance of it.
LEMMA RedisOps ==
    /\ Redis!NoRow = NoRow
    /\ \A r : Redis!Exists(r) <=> Exists(r)
    /\ \A n, e : Redis!FixedRow(n, e) = FixedRow(n, e)
    /\ \A h, e : Redis!SlidingRow(h, e) = SlidingRow(h, e)
    /\ \A n, l, e : Redis!BucketRow(n, l, e) = BucketRow(n, l, e)
    /\ \A r, a : Redis!Ends(r, a) = Ends(r, a)
    /\ \A b : Redis!Verdict(b) = Verdict(b)
    /\ \A n, t : Redis!Copies(n, t) = Copies(n, t)
    /\ \A h, t : Redis!Prune(h, t) = Prune(h, t)
    /\ \A h, n, b : Redis!DropHits(h, n, b) = DropHits(h, n, b)
    /\ \A n, l, t : Redis!Refill(n, l, t) = Refill(n, l, t)
    /\ \A b, n : Redis!TakeTokens(b, n) = TakeTokens(b, n)
    /\ \A n : Redis!TokensAfterSet(n) = TokensAfterSet(n)
    /\ \A a, b : Redis!Least(a, b) = Least(a, b)
BY DEF Redis!NoRow, NoRow, Redis!Exists, Exists, Redis!FixedRow, FixedRow,
       Redis!SlidingRow, SlidingRow, Redis!BucketRow, BucketRow, Redis!Ends, Ends,
       Redis!Verdict, Verdict, Redis!Copies, Copies, Redis!Prune, Prune,
       Redis!DropHits, DropHits, Redis!Refill, Refill, Redis!TakeTokens, TakeTokens,
       Redis!TokensAfterSet, TokensAfterSet, Redis!Least, Least, Redis!Yield, Yield,
       Redis!Keep, Keep, Redis!Cardinality, Cardinality, Redis!DropFirst, DropFirst,
       Redis!DropLast, DropLast

LEMMA PgOps ==
    /\ Pg!NoRow = NoRow
    /\ \A r : Pg!Exists(r) <=> Exists(r)
    /\ \A n, e : Pg!FixedRow(n, e) = FixedRow(n, e)
    /\ \A h, e : Pg!SlidingRow(h, e) = SlidingRow(h, e)
    /\ \A n, l, e : Pg!BucketRow(n, l, e) = BucketRow(n, l, e)
    /\ \A r, a : Pg!Ends(r, a) = Ends(r, a)
    /\ \A r, l, s, a : Pg!Yield(r, l, s, a) = Yield(r, l, s, a)
    /\ \A b : Pg!Verdict(b) = Verdict(b)
    /\ \A n, t : Pg!Copies(n, t) = Copies(n, t)
    /\ \A h, t : Pg!Prune(h, t) = Prune(h, t)
    /\ \A h, n, b : Pg!DropHits(h, n, b) = DropHits(h, n, b)
    /\ \A n, l, t : Pg!Refill(n, l, t) = Refill(n, l, t)
    /\ \A b, n : Pg!TakeTokens(b, n) = TakeTokens(b, n)
    /\ \A n : Pg!TokensAfterSet(n) = TokensAfterSet(n)
    /\ \A a, b : Pg!Least(a, b) = Least(a, b)
    /\ \A a, b : Pg!Greatest(a, b) = Greatest(a, b)
    /\ \A h : Pg!Sorted(h) = Sorted(h)
BY DEF Pg!NoRow, NoRow, Pg!Exists, Exists, Pg!FixedRow, FixedRow, Pg!SlidingRow,
       SlidingRow, Pg!BucketRow, BucketRow, Pg!Ends, Ends, Pg!Yield, Yield,
       Pg!Verdict, Verdict, Pg!Copies, Copies, Pg!Prune, Prune, Pg!DropHits,
       DropHits, Pg!Refill, Refill, Pg!TakeTokens, TakeTokens, Pg!TokensAfterSet,
       TokensAfterSet, Pg!Least, Least, Pg!Greatest, Greatest, Pg!Keep, Keep,
       Pg!Cardinality, Cardinality, Pg!DropFirst, DropFirst, Pg!DropLast, DropLast,
       Pg!Sorted, Sorted

LEMMA MongoOps ==
    /\ Mongo!NoRow = NoRow
    /\ \A r : Mongo!Exists(r) <=> Exists(r)
    /\ \A n, e : Mongo!FixedRow(n, e) = FixedRow(n, e)
    /\ \A h, e : Mongo!SlidingRow(h, e) = SlidingRow(h, e)
    /\ \A n, l, e : Mongo!BucketRow(n, l, e) = BucketRow(n, l, e)
    /\ \A r, a : Mongo!Ends(r, a) = Ends(r, a)
    /\ \A b : Mongo!Verdict(b) = Verdict(b)
    /\ \A n, t : Mongo!Copies(n, t) = Copies(n, t)
    /\ \A h, t : Mongo!Prune(h, t) = Prune(h, t)
    /\ \A h, n, b : Mongo!DropHits(h, n, b) = DropHits(h, n, b)
    /\ \A n, l, t : Mongo!Refill(n, l, t) = Refill(n, l, t)
    /\ \A b, n : Mongo!TakeTokens(b, n) = TakeTokens(b, n)
    /\ \A n : Mongo!TokensAfterSet(n) = TokensAfterSet(n)
    /\ \A a, b : Mongo!Least(a, b) = Least(a, b)
    /\ \A a, b : Mongo!Greatest(a, b) = Greatest(a, b)
BY DEF Mongo!NoRow, NoRow, Mongo!Exists, Exists, Mongo!FixedRow, FixedRow,
       Mongo!SlidingRow, SlidingRow, Mongo!BucketRow, BucketRow, Mongo!Ends, Ends,
       Mongo!Verdict, Verdict, Mongo!Copies, Copies, Mongo!Prune, Prune,
       Mongo!DropHits, DropHits, Mongo!Refill, Refill, Mongo!TakeTokens, TakeTokens,
       Mongo!TokensAfterSet, TokensAfterSet, Mongo!Least, Least, Mongo!Greatest,
       Greatest, Mongo!Yield, Yield, Mongo!Keep, Keep, Mongo!Cardinality,
       Cardinality, Mongo!DropFirst, DropFirst, Mongo!DropLast, DropLast

LEMMA DynamoOps ==
    /\ Dynamo!NoRow = NoRow
    /\ \A r : Dynamo!Exists(r) <=> Exists(r)
    /\ \A n, l, e : Dynamo!BucketRow(n, l, e) = BucketRow(n, l, e)
    /\ \A r, a : Dynamo!Ends(r, a) = Ends(r, a)
    /\ \A r, l, s, a : Dynamo!Yield(r, l, s, a) = Yield(r, l, s, a)
    /\ \A b : Dynamo!Verdict(b) = Verdict(b)
    /\ \A n, l, t : Dynamo!Refill(n, l, t) = Refill(n, l, t)
    /\ \A b, n : Dynamo!TakeTokens(b, n) = TakeTokens(b, n)
    /\ \A n : Dynamo!TokensAfterSet(n) = TokensAfterSet(n)
    /\ \A a, b : Dynamo!Least(a, b) = Least(a, b)
    /\ \A a, b : Dynamo!Greatest(a, b) = Greatest(a, b)
BY DEF Dynamo!NoRow, NoRow, Dynamo!Exists, Exists, Dynamo!BucketRow, BucketRow,
       Dynamo!Ends, Ends, Dynamo!Yield, Yield, Dynamo!Verdict, Verdict,
       Dynamo!Refill, Refill, Dynamo!TakeTokens, TakeTokens, Dynamo!TokensAfterSet,
       TokensAfterSet, Dynamo!Least, Least, Dynamo!Greatest, Greatest

\* Rows and calls as the proofs need them.
Rows == [hits : Seq(Nat), count : Int, prev : Int, at : Int, exp : Int]
Sane(r) == r \in Rows /\ (~ Exists(r) => r = NoRow)
Legs == {"start", "upsert", "roll", "restart", "write", "clamp", "end"}
Answers == {"none", "allowed", "blocked", "failed", "threw"}
Calls == [op : {"none", "incr", "undo"}, t : Nat, leg : Legs, round : 1..MaxAttempts,
          seen : Rows, cost : {1}, newest : BOOLEAN, answer : Answers, at : Nat,
          filed : Int, gone : BOOLEAN]

\* The statement of a call p that meets row r.
StepOf(r, p) ==
    CASE backend = "redis" -> Redis!IncrementStep(strategy, r, p, now)
      [] backend = "postgres" -> Pg!IncrementStep(strategy, r, p, now)
      [] backend = "mongo" -> Mongo!IncrementStep(strategy, r, p, now)
      [] backend = "dynamo" -> Dynamo!IncrementStep(strategy, r, p, now)
UndoOf(r, p) ==
    CASE backend = "redis" -> Redis!DecrementStep(strategy, r, p, now)
      [] backend = "postgres" -> Pg!DecrementStep(strategy, r, p, now)
      [] backend = "mongo" -> Mongo!DecrementStep(strategy, r, p, now)
      [] backend = "dynamo" -> Dynamo!DecrementStep(strategy, r, p, now)

\* A Redis key as the scripts see it.
Unexpired(r) == IF Exists(r) /\ now >= r.exp THEN NoRow ELSE r

\* A bucket's tokens at time t, the end of an increment that takes one, and MongoDB's
\* refill, which goes backwards.
Filled(r, t) == IF Exists(r) THEN Refill(r.count, r.at, t)
                ELSE [tokens |-> BucketSize, last |-> t]
TakesFrom(b, exp) ==
    Ends(BucketRow(TakeTokens(b, 1).tokens, b.last, exp), Verdict(b.tokens < 1))
Rewound(r, t) ==
    LET intervals == (t - r.at) \div Interval IN
    [tokens |-> Least(BucketSize, r.count + intervals * TokensPerInterval),
     last |-> r.at + intervals * Interval]

LEMMA RedisFixed ==
    ASSUME backend = "redis", strategy = "FIXED_WINDOW", NEW r, Sane(r), NEW p \in Calls
    PROVE  LET e == Unexpired(r) IN
           /\ StepOf(r, p) = Ends(FixedRow(e.count + 1, IF e.count = 0 THEN now + Window
                                                        ELSE e.exp),
                                  Verdict(e.count + 1 > Limit))
           /\ UndoOf(r, p) = Ends(IF e.count <= 0 THEN e ELSE [e EXCEPT !.count = @ - 1],
                                  "done")
<1>1. StepOf(r, p) = Redis!FixedIncr(r, 1, now) /\ UndoOf(r, p) = Redis!FixedDecr(r, 1, now)
  BY DEF StepOf, UndoOf, Redis!IncrementStep, Redis!DecrementStep, Calls
<1>2. Redis!Visible(r, now) = Unexpired(r)
  BY RedisOps DEF Redis!Visible, Unexpired
<1>3. Unexpired(r) \in Rows
  BY DEF Unexpired, Sane, Rows, NoRow
<1>4. PICK e \in Rows : e = Unexpired(r)
  BY <1>3
<1>5. (e.count + 1 = 1 <=> e.count = 0) /\ (e.count > 0 => Least(e.count, 1) = 1) /\ e.count \in Int
  BY DEF Rows, Least
<1>6. Redis!FixedIncr(r, 1, now) = Ends(FixedRow(e.count + 1, IF e.count + 1 = 1 THEN now + Window
                                                        ELSE e.exp),
                                  Verdict(e.count + 1 > Limit))
  BY <1>2, <1>4, RedisOps DEF Redis!FixedIncr
<1>7. Redis!FixedDecr(r, 1, now) = Ends(IF e.count <= 0 THEN e ELSE [e EXCEPT !.count = e.count - Least(e.count, 1)],
                                  "done")
  BY <1>2, <1>4, RedisOps DEF Redis!FixedDecr
<1>8. Redis!FixedDecr(r, 1, now) = Ends(IF e.count <= 0 THEN e ELSE [e EXCEPT !.count = e.count - 1], "done")
  BY <1>5, <1>7
<1> QED BY <1>1, <1>4, <1>5, <1>6, <1>8

LEMMA RedisBucket ==
    ASSUME backend = "redis", strategy = "TOKEN_BUCKET", NEW r, Sane(r), NEW p \in Calls
    PROVE  LET e == Unexpired(r) IN
           /\ StepOf(r, p) = TakesFrom(Filled(e, p.t), now + 10 * Interval)
           /\ UndoOf(r, p) =
                Ends(IF Exists(e) THEN [e EXCEPT !.count = Least(BucketSize, @ + 1)] ELSE e,
                     "done")
<1>1. StepOf(r, p) = Redis!BucketIncr(r, 1, p.t, now) /\ UndoOf(r, p) = Redis!BucketDecr(r, 1, now)
  BY DEF StepOf, UndoOf, Redis!IncrementStep, Redis!DecrementStep, Calls
<1>2. Redis!Visible(r, now) = Unexpired(r)
  BY RedisOps DEF Redis!Visible, Unexpired
<1>3. PICK e : e = Unexpired(r)
  OBVIOUS
<1>4. Redis!BucketDecr(r, 1, now) =
         Ends(IF Exists(e) THEN [e EXCEPT !.count = Least(BucketSize, @ + 1)] ELSE e, "done")
  BY <1>2, <1>3, RedisOps DEF Redis!BucketDecr
<1>5. PICK b : b = Filled(e, p.t)
  OBVIOUS
<1>6. Redis!BucketIncr(r, 1, p.t, now) =
         Ends(BucketRow(TakeTokens(b, 1).tokens, TakeTokens(b, 1).last, now + 10 * Interval),
              Verdict(TakeTokens(b, 1).blocked))
  BY <1>2, <1>3, <1>5, RedisOps DEF Redis!BucketIncr, Filled
<1>7. TakeTokens(b, 1).last = b.last /\ TakeTokens(b, 1).blocked = (b.tokens < 1)
  BY DEF TakeTokens
<1> QED BY <1>1, <1>3, <1>4, <1>5, <1>6, <1>7 DEF TakesFrom

\* A hit among hits in the order of their scores.
Insert(hits, t) ==
    Keep(hits, {i \in DOMAIN hits : hits[i] <= t}) \o Copies(1, t) \o Prune(hits, t)

LEMMA RedisSliding ==
    ASSUME backend = "redis", strategy = "SLIDING_WINDOW", NEW r, Sane(r), NEW p \in Calls
    PROVE  LET e == Unexpired(r)
               h == Insert(Prune(e.hits, p.t - Window), p.t)
               d == DropHits(e.hits, 1, p.newest)
           IN
           /\ StepOf(r, p) = Ends(SlidingRow(h, now + Window), Verdict(Len(h) > Limit))
           /\ UndoOf(r, p) = Ends(IF d = << >> THEN NoRow ELSE [r EXCEPT !.hits = d], "done")
<1>1. /\ StepOf(r, p) = Redis!SlidingIncr(r, 1, p.t, now)
      /\ UndoOf(r, p) = Redis!SlidingDecr(r, 1, p.newest, now)
  BY DEF StepOf, UndoOf, Redis!IncrementStep, Redis!DecrementStep, Calls
<1>2. Redis!Visible(r, now) = Unexpired(r)
  BY RedisOps DEF Redis!Visible, Unexpired
<1>3. \A x : Redis!ZAdd(x, 1, p.t) = Insert(x, p.t)
  BY RedisOps DEF Redis!ZAdd, Insert, Redis!Keep, Keep, Redis!Cardinality, Cardinality
<1>4. Redis!SlidingDecr(r, 1, p.newest, now) =
        LET d == DropHits(Unexpired(r).hits, 1, p.newest) IN
        Ends(IF d = << >> THEN NoRow ELSE [r EXCEPT !.hits = d], "done")
  BY <1>2, RedisOps DEF Redis!SlidingDecr
<1>5. Redis!SlidingIncr(r, 1, p.t, now) =
        LET h == Insert(Prune(Unexpired(r).hits, p.t - Window), p.t) IN
        Ends(SlidingRow(h, now + Window), Verdict(Len(h) > Limit))
  BY <1>2, <1>3, RedisOps DEF Redis!SlidingIncr
<1> QED BY <1>1, <1>4, <1>5

LEMMA ServerFixed ==
    ASSUME backend \in {"postgres", "mongo"}, strategy = "FIXED_WINDOW",
           NEW r, Sane(r), NEW p \in Calls
    PROVE  /\ StepOf(r, p) =
                IF Exists(r) /\ r.exp > p.t
                THEN Ends([r EXCEPT !.count = @ + 1], Verdict(r.count + 1 > Limit))
                ELSE Ends(FixedRow(1, p.t + Window), Verdict(1 > Limit))
           /\ UndoOf(r, p) =
                Ends(IF Exists(r) THEN [r EXCEPT !.count = Greatest(0, @ - 1)] ELSE r, "done")
<1>1. r.exp \in Int /\ p.t \in Nat /\ p.cost = 1
  BY DEF Sane, Rows, Calls
<1>2. CASE backend = "postgres"
  <2>1. StepOf(r, p) = Pg!FixedIncr(r, 1, p.t)
    BY <1>1, <1>2 DEF StepOf, Pg!IncrementStep
  <2>2. UndoOf(r, p) = Pg!DecrementStep(strategy, r, p, now)
    BY <1>2 DEF UndoOf
  <2>3. Pg!DecrementStep(strategy, r, p, now) =
          IF ~ Exists(r) THEN Ends(r, "done")
          ELSE Ends([r EXCEPT !.count = Greatest(0, @ - 1)], "done")
    BY <1>1, PgOps DEF Pg!DecrementStep
  <2>4. Pg!FixedIncr(r, 1, p.t) =
          IF ~ Exists(r) \/ r.exp <= p.t THEN Ends(FixedRow(1, p.t + Window), Verdict(1 > Limit))
          ELSE Ends([r EXCEPT !.count = @ + 1], Verdict(r.count + 1 > Limit))
    BY PgOps DEF Pg!FixedIncr
  <2> QED BY <1>1, <2>1, <2>2, <2>3, <2>4
<1>3. CASE backend = "mongo"
  <2>1. StepOf(r, p) = Mongo!FixedIncr(r, 1, p.t)
    BY <1>1, <1>3 DEF StepOf, Mongo!IncrementStep
  <2>2. UndoOf(r, p) = Mongo!DecrementStep(strategy, r, p, now)
    BY <1>3 DEF UndoOf
  <2>3. Mongo!DecrementStep(strategy, r, p, now) =
          IF ~ Exists(r) THEN Ends(r, "done")
          ELSE Ends([r EXCEPT !.count = Greatest(0, @ - 1)], "done")
    BY <1>1, MongoOps DEF Mongo!DecrementStep
  <2>4. Mongo!FixedIncr(r, 1, p.t) =
          IF ~ Exists(r) \/ r.exp <= p.t THEN Ends(FixedRow(1, p.t + Window), Verdict(1 > Limit))
          ELSE Ends([r EXCEPT !.count = @ + 1], Verdict(r.count + 1 > Limit))
    BY MongoOps DEF Mongo!FixedIncr
  <2> QED BY <1>1, <2>1, <2>2, <2>3, <2>4
<1> QED BY <1>2, <1>3

LEMMA PgBucket ==
    ASSUME backend = "postgres", strategy = "TOKEN_BUCKET",
           NEW r, Sane(r), NEW p \in Calls, p.leg \in {"start", "upsert"}
    PROVE  LET b == Filled(p.seen, p.t) IN
           /\ p.leg = "start" => StepOf(r, p) = Yield(r, "upsert", r, "none")
           /\ p.leg = "upsert" => StepOf(r, p) = TakesFrom(b, b.last + Interval)
<1>1. StepOf(r, p) = Pg!BucketIncr(r, p) /\ p.cost = 1
  BY DEF StepOf, Pg!IncrementStep, Calls
<1>2. PICK b : b = Filled(p.seen, p.t)
  OBVIOUS
<1>3. p.leg = "start" => Pg!BucketIncr(r, p) = Yield(r, "upsert", r, "none")
  BY PgOps DEF Pg!BucketIncr
<1>4. p.leg = "upsert" => Pg!BucketIncr(r, p) =
         Ends(BucketRow(TakeTokens(b, 1).tokens, TakeTokens(b, 1).last,
                        TakeTokens(b, 1).last + Interval),
              Verdict(TakeTokens(b, 1).blocked))
  BY <1>1, <1>2, PgOps DEF Pg!BucketIncr, Filled
<1>5. TakeTokens(b, 1).last = b.last /\ TakeTokens(b, 1).blocked = (b.tokens < 1)
  BY DEF TakeTokens
<1> QED BY <1>1, <1>2, <1>3, <1>4, <1>5 DEF TakesFrom

LEMMA MongoBucket ==
    ASSUME backend = "mongo", strategy = "TOKEN_BUCKET", NEW r, Sane(r), NEW p \in Calls
    PROVE  LET b == IF Exists(r) THEN Rewound(r, p.t) ELSE Filled(r, p.t) IN
           StepOf(r, p) = TakesFrom(b, b.last + Interval)
<1>1. StepOf(r, p) = Mongo!BucketIncr(r, 1, p.t) /\ p.t \in Nat
  BY DEF StepOf, Mongo!IncrementStep, Calls
<1>2. PICK b : b = IF Exists(r) THEN Rewound(r, p.t) ELSE Filled(r, p.t)
  OBVIOUS
<1>3. b = Mongo!PipelineRefill(r, p.t)
  <2>1. CASE Exists(r)
    BY <1>2, <2>1, MongoOps DEF Mongo!PipelineRefill, Rewound
  <2>2. CASE ~ Exists(r)
    <3>1. (p.t - p.t) \div Interval = 0
      BY <1>1, RowsAssumption
    <3>2. p.t + 0 * Interval = p.t /\ Least(BucketSize, BucketSize + 0 * TokensPerInterval) = BucketSize
      BY <1>1, RowsAssumption DEF Least
    <3>3. Mongo!PipelineRefill(r, p.t) =
            [tokens |-> Least(BucketSize, BucketSize + ((p.t - p.t) \div Interval) * TokensPerInterval),
             last |-> p.t + ((p.t - p.t) \div Interval) * Interval]
      BY <2>2, MongoOps DEF Mongo!PipelineRefill
    <3> QED BY <1>2, <2>2, <3>1, <3>2, <3>3 DEF Filled
  <2> QED BY <2>1, <2>2
<1>4. Mongo!BucketIncr(r, 1, p.t) =
         Ends(BucketRow(TakeTokens(b, 1).tokens, TakeTokens(b, 1).last,
                        TakeTokens(b, 1).last + Interval),
              Verdict(TakeTokens(b, 1).blocked))
  BY <1>3, MongoOps DEF Mongo!BucketIncr
<1>5. TakeTokens(b, 1).last = b.last /\ TakeTokens(b, 1).blocked = (b.tokens < 1)
  BY DEF TakeTokens
<1> QED BY <1>1, <1>2, <1>4, <1>5 DEF TakesFrom

\* The tokens that an undo adds to: those of its snapshot, in Postgres.
Read(r, p) == IF Snapshots THEN p.seen.count ELSE r.count

LEMMA ServerBucketUndo ==
    ASSUME backend \in {"postgres", "mongo"}, strategy = "TOKEN_BUCKET",
           NEW r, NEW p \in Calls
    PROVE  UndoOf(r, p) =
             Ends(IF Exists(r) THEN [r EXCEPT !.count = Least(BucketSize, Read(r, p) + 1)] ELSE r,
                  "done")
<1>1. p.cost = 1
  BY DEF Calls
<1>2. CASE backend = "postgres"
  <2>1. UndoOf(r, p) = Pg!DecrementStep(strategy, r, p, now)
    BY <1>2 DEF UndoOf
  <2> QED BY <1>1, <1>2, <2>1, PgOps DEF Pg!DecrementStep, Pg!BucketDecr, Read, Snapshots
<1>3. CASE backend = "mongo"
  <2>1. UndoOf(r, p) = Mongo!DecrementStep(strategy, r, p, now)
    BY <1>3 DEF UndoOf
  <2> QED BY <1>1, <1>3, <2>1, MongoOps DEF Mongo!DecrementStep, Read, Snapshots
<1> QED BY <1>2, <1>3

LEMMA PgSliding ==
    ASSUME backend = "postgres", strategy = "SLIDING_WINDOW", NEW r, NEW p \in Calls
    PROVE  LET h == Sorted(Prune(r.hits, p.t - Window)) \o Copies(1, p.t)
               d == DropHits(r.hits, 1, p.newest)
           IN
           /\ StepOf(r, p) =
                IF Exists(r) THEN Ends(SlidingRow(h, Pg!Newest(h)), Verdict(Len(h) > Limit))
                ELSE Ends(SlidingRow(Copies(1, p.t), p.t + Window), Verdict(1 > Limit))
           /\ UndoOf(r, p) =
                IF ~ Exists(r) THEN Ends(r, "done")
                ELSE IF d = << >> THEN Ends(NoRow, "done")
                ELSE Ends(SlidingRow(d, Pg!Newest(d) + Window), "done")
<1>1. p.cost = 1
  BY DEF Calls
<1>2. StepOf(r, p) = Pg!SlidingIncr(r, 1, p.t)
  BY <1>1 DEF StepOf, Pg!IncrementStep
<1>3. UndoOf(r, p) = Pg!DecrementStep(strategy, r, p, now)
  BY DEF UndoOf
<1>4. Pg!SlidingDecr(r, 1, p.newest) =
        LET d == DropHits(r.hits, 1, p.newest) IN
        IF d = << >> THEN Ends(NoRow, "done")
        ELSE Ends(SlidingRow(d, Pg!Newest(d) + Window), "done")
  BY PgOps DEF Pg!SlidingDecr
<1>5. Pg!DecrementStep(strategy, r, p, now) =
        IF ~ Exists(r) THEN Ends(r, "done") ELSE Pg!SlidingDecr(r, 1, p.newest)
  BY <1>1, PgOps DEF Pg!DecrementStep
<1>6. Pg!SlidingIncr(r, 1, p.t) =
        LET h == Sorted(Prune(r.hits, p.t - Window)) \o Copies(1, p.t) IN
        IF Exists(r) THEN Ends(SlidingRow(h, Pg!Newest(h)), Verdict(Len(h) > Limit))
        ELSE Ends(SlidingRow(Copies(1, p.t), p.t + Window), Verdict(1 > Limit))
  BY PgOps DEF Pg!SlidingIncr
<1> QED BY <1>2, <1>3, <1>4, <1>5, <1>6

LEMMA MongoSliding ==
    ASSUME backend = "mongo", strategy = "SLIDING_WINDOW", NEW r, NEW p \in Calls
    PROVE  LET h == Prune(r.hits, p.t - Window) \o Copies(1, p.t) IN
           /\ StepOf(r, p) = Ends(SlidingRow(h, p.t + Window), Verdict(Len(h) > Limit))
           /\ UndoOf(r, p) =
                Ends(IF Exists(r) THEN [r EXCEPT !.hits = DropHits(@, 1, p.newest)] ELSE r,
                     "done")
<1>1. p.cost = 1
  BY DEF Calls
<1>2. StepOf(r, p) = Mongo!SlidingIncr(r, 1, p.t)
  BY <1>1 DEF StepOf, Mongo!IncrementStep
<1>3. UndoOf(r, p) = Mongo!DecrementStep(strategy, r, p, now)
  BY DEF UndoOf
<1>4. Mongo!DecrementStep(strategy, r, p, now) =
        Ends(IF Exists(r) THEN [r EXCEPT !.hits = DropHits(@, 1, p.newest)] ELSE r, "done")
  BY <1>1, MongoOps DEF Mongo!DecrementStep
<1>5. Mongo!SlidingIncr(r, 1, p.t) =
        LET h == Prune(r.hits, p.t - Window) \o Copies(1, p.t) IN
        Ends(SlidingRow(h, p.t + Window), Verdict(Len(h) > Limit))
  BY MongoOps DEF Mongo!SlidingIncr
<1> QED BY <1>2, <1>3, <1>4, <1>5

\* DynamoDB's windows.
Bound(t) == Dynamo!Boundary(t)
Opened(start, count, prev, t) ==
    [NoRow EXCEPT !.at = start, !.count = count, !.prev = prev, !.exp = t + 3 * Window]
Again(r, p) == IF p.round < MaxAttempts THEN Yield(r, "start", NoRow, "none")
               ELSE Ends(r, "threw")
Raised(r, t) == [r EXCEPT !.count = @ + 1, !.exp = t + 3 * Window]
Weighs(r, t) == Ends(r, Verdict(Dynamo!WeightedCount(r, t) > Limit * Window))

LEMMA DynamoWindowOps ==
    /\ \A start, count, prev, t : Dynamo!WindowRow(start, count, prev, t) = Opened(start, count, prev, t)
    /\ \A t : Dynamo!Ttl(t) = t + 3 * Window
    /\ \A r, p : Dynamo!NextRound(r, p) = Again(r, p)
    /\ \A r, t : Dynamo!SlidingAnswer(r, t) = Weighs(r, t)
BY DynamoOps DEF Dynamo!WindowRow, Dynamo!Ttl, Dynamo!NextRound, Dynamo!SlidingAnswer, Opened,
                 Again, Weighs

LEMMA DynamoFixed ==
    ASSUME backend = "dynamo", strategy = "FIXED_WINDOW", NEW r, Sane(r), NEW p \in Calls
    PROVE  LET b == Bound(p.t) IN
           /\ p.leg = "start" => StepOf(r, p) =
                IF Exists(r) /\ r.at = b
                THEN Ends(Raised(r, p.t), Verdict(Greatest(0, r.count + 1) > Limit))
                ELSE Yield(r, "restart", NoRow, "none")
           /\ p.leg = "restart" => StepOf(r, p) =
                IF ~ Exists(r) \/ r.at < b
                THEN Ends(Opened(b, 1, 0, p.t), Verdict(1 > Limit)) ELSE Again(r, p)
<1>1. p.cost = 1
  BY DEF Calls
<1>2. StepOf(r, p) = Dynamo!FixedIncr(r, p)
  BY DEF StepOf, Dynamo!IncrementStep
<1>3. CASE p.leg = "start"
  <2>1. Raised(r, p.t).count = r.count + 1
    BY DEF Raised
  <2> QED BY <1>1, <1>2, <1>3, <2>1, DynamoOps, DynamoWindowOps
             DEF Dynamo!FixedIncr, Dynamo!FixedAnswer, Raised, Bound
<1>4. CASE p.leg = "restart"
  <2>1. Opened(Bound(p.t), 1, 0, p.t).count = 1 /\ Greatest(0, 1) = 1
    BY DEF Opened, NoRow, Greatest
  <2> QED BY <1>1, <1>2, <1>4, <2>1, DynamoOps, DynamoWindowOps
             DEF Dynamo!FixedIncr, Dynamo!FixedAnswer, Bound
<1> QED BY <1>3, <1>4

LEMMA DynamoSliding ==
    ASSUME backend = "dynamo", strategy = "SLIDING_WINDOW", NEW r, NEW p \in Calls
    PROVE  LET b == Bound(p.t) IN
           /\ p.leg = "start" => StepOf(r, p) =
                IF Exists(r) /\ r.at = b THEN Weighs(Raised(r, p.t), p.t)
                ELSE Yield(r, "roll", NoRow, "none")
           /\ p.leg = "roll" => StepOf(r, p) =
                IF Exists(r) /\ r.at = b - Window THEN Weighs(Opened(b, 1, r.count, p.t), p.t)
                ELSE Yield(r, "restart", NoRow, "none")
           /\ p.leg = "restart" => StepOf(r, p) =
                IF ~ Exists(r) \/ r.at < b
                THEN Weighs(Opened(b, 1, 0, p.t), p.t) ELSE Again(r, p)
<1>1. p.cost = 1
  BY DEF Calls
<1>2. StepOf(r, p) = Dynamo!SlidingIncr(r, p)
  BY DEF StepOf, Dynamo!IncrementStep
<1>3. CASE p.leg = "start"
  BY <1>1, <1>2, <1>3, DynamoOps, DynamoWindowOps DEF Dynamo!SlidingIncr, Raised, Bound
<1>4. CASE p.leg = "roll"
  BY <1>1, <1>2, <1>4, DynamoOps, DynamoWindowOps DEF Dynamo!SlidingIncr, Bound
<1>5. CASE p.leg = "restart"
  BY <1>1, <1>2, <1>5, DynamoOps, DynamoWindowOps DEF Dynamo!SlidingIncr, Bound
<1> QED BY <1>3, <1>4, <1>5

LEMMA DynamoWindowUndo ==
    ASSUME backend = "dynamo", strategy # "TOKEN_BUCKET", NEW r, NEW p \in Calls
    PROVE  LET b == Bound(p.t)
               d == [r EXCEPT !.count = @ - 1]
           IN
           /\ p.leg = "start" => UndoOf(r, p) =
                IF ~ (Exists(r) /\ r.at = b) THEN Ends(r, "done")
                ELSE IF r.count - 1 < 0 THEN Yield(d, "clamp", NoRow, "none")
                ELSE Ends(d, "done")
           /\ p.leg = "clamp" => UndoOf(r, p) =
                Ends(IF Exists(r) /\ r.at = b /\ r.count < 0 THEN [r EXCEPT !.count = 0] ELSE r,
                     "done")
<1>1. p.cost = 1
  BY DEF Calls
<1>2. UndoOf(r, p) = Dynamo!WindowDecr(r, p)
  BY DEF UndoOf, Dynamo!DecrementStep
<1>3. CASE p.leg = "start"
  BY <1>1, <1>2, <1>3, DynamoOps DEF Dynamo!WindowDecr, Bound
<1>4. CASE p.leg = "clamp"
  BY <1>1, <1>2, <1>4, DynamoOps DEF Dynamo!WindowDecr, Bound
<1> QED BY <1>3, <1>4

\* Whether DynamoDB's item is still what the caller has read.
Unchanged(r, seen) == IF Exists(seen) THEN Exists(r) /\ r.count = seen.count /\ r.at = seen.at
                      ELSE ~ Exists(r)

LEMMA DynamoBucket ==
    ASSUME backend = "dynamo", strategy = "TOKEN_BUCKET", NEW r, Sane(r), NEW p \in Calls
    PROVE  /\ p.leg = "start" => StepOf(r, p) = Yield(r, "write", r, "none")
           /\ p.leg = "write" => StepOf(r, p) =
                IF Unchanged(r, p.seen)
                THEN TakesFrom(Filled(p.seen, p.t), p.t + 3 * Interval) ELSE Again(r, p)
<1>1. StepOf(r, p) = Dynamo!BucketIncr(r, p) /\ p.cost = 1
  BY DEF StepOf, Dynamo!IncrementStep, Calls
<1>2. PICK b : b = Filled(p.seen, p.t)
  OBVIOUS
<1>3. p.leg = "start" => Dynamo!BucketIncr(r, p) = Yield(r, "write", r, "none")
  BY DynamoOps DEF Dynamo!BucketIncr
<1>4. p.leg = "write" => Dynamo!BucketIncr(r, p) =
         IF Unchanged(r, p.seen)
         THEN Ends(BucketRow(TakeTokens(b, 1).tokens, TakeTokens(b, 1).last,
                             p.t + 3 * Interval),
                   Verdict(TakeTokens(b, 1).blocked))
         ELSE Again(r, p)
  BY <1>1, <1>2, DynamoOps, DynamoWindowOps DEF Dynamo!BucketIncr, Filled, Unchanged
<1>5. TakeTokens(b, 1).last = b.last /\ TakeTokens(b, 1).blocked = (b.tokens < 1)
  BY DEF TakeTokens
<1> QED BY <1>1, <1>2, <1>3, <1>4, <1>5 DEF TakesFrom

LEMMA DynamoBucketUndo ==
    ASSUME backend = "dynamo", strategy = "TOKEN_BUCKET", NEW r, Sane(r), NEW p \in Calls
    PROVE  LET d == [r EXCEPT !.count = @ + 1, !.exp = p.t + 3 * Interval] IN
           /\ p.leg = "start" => UndoOf(r, p) =
                IF ~ Exists(r) THEN Ends(r, "done")
                ELSE IF r.count + 1 > BucketSize THEN Yield(d, "clamp", NoRow, "none")
                ELSE Ends(d, "done")
           /\ p.leg = "clamp" => UndoOf(r, p) =
                Ends(IF Exists(r) /\ r.count > BucketSize THEN [r EXCEPT !.count = BucketSize]
                     ELSE r, "done")
<1>1. p.cost = 1
  BY DEF Calls
<1>2. UndoOf(r, p) = Dynamo!BucketDecr(r, p)
  BY DEF UndoOf, Dynamo!DecrementStep
<1>3. CASE p.leg = "start"
  <2>1. [r EXCEPT !.count = @ + 1, !.exp = p.t + 3 * Interval].count = [r EXCEPT !.count = @ + 1].count
    OBVIOUS
  <2> QED BY <1>1, <1>2, <1>3, DynamoOps DEF Dynamo!BucketDecr
<1>4. CASE p.leg = "clamp"
  BY <1>1, <1>2, <1>4, DynamoOps DEF Dynamo!BucketDecr
<1> QED BY <1>3, <1>4

-----------------------------------------------------------------------------
(* Sequences by ranks                                                      *)

\* In a finite chain of sets, one per element, the sizes are 1, 2, ... without a gap.
LEMMA Ranking ==
    ASSUME NEW I, IsFiniteSet(I), NEW below \in [I -> SUBSET I],
           \A i \in I : i \in below[i],
           \A i, k \in I : i # k => \/ i \notin below[k] /\ below[k] \subseteq below[i]
                                    \/ k \notin below[i] /\ below[i] \subseteq below[k],
           NEW n, n = Cardinality(I)
    PROVE  /\ n \in Nat
           /\ \A i \in I : Cardinality(below[i]) \in 1..n
           /\ \A i, k \in I : Cardinality(below[i]) = Cardinality(below[k]) => i = k
           /\ \A j \in 1..n : \E i \in I : Cardinality(below[i]) = j
<1> DEFINE rank == [i \in I |-> Cardinality(below[i])]
<1>1. n \in Nat
  BY FS_CardinalityType
<1>2. IsFiniteSet(1..n) /\ Cardinality(1..n) = n
  BY <1>1, FS_Interval
<1>3. ASSUME NEW i \in I PROVE Cardinality(below[i]) \in 1..n /\ IsFiniteSet(below[i])
  <2>1. below[i] \in SUBSET I /\ i \in below[i]
    OBVIOUS
  <2>2. IsFiniteSet(below[i]) /\ Cardinality(below[i]) <= n
    BY <1>1, <2>1, FS_Subset
  <2>3. Cardinality(below[i]) \in Nat /\ Cardinality(below[i]) # 0
    BY <2>1, <2>2, FS_CardinalityType, FS_EmptySet
  <2> QED BY <1>1, <2>2, <2>3
<1>4. ASSUME NEW i \in I, NEW k \in I, Cardinality(below[i]) = Cardinality(below[k])
      PROVE  i = k
  <2>1. SUFFICES ASSUME i # k PROVE FALSE
    OBVIOUS
  <2>2. ASSUME NEW a \in I, NEW b \in I, b \notin below[a], below[a] \subseteq below[b],
               Cardinality(below[a]) = Cardinality(below[b])
        PROVE  FALSE
    <3>1. below[a] \in SUBSET below[b] /\ IsFiniteSet(below[b]) /\ b \in below[b]
      BY <1>3, <2>2
    <3>2. below[b] = below[a]
      BY <2>2, <3>1, FS_Subset
    <3> QED BY <2>2, <3>1, <3>2
  <2> QED BY <1>4, <2>1, <2>2
<1>5. rank \in Injection(I, 1..n)
  <2>1. rank \in [I -> 1..n]
    BY <1>3
  <2>2. \A i, k \in I : rank[i] = rank[k] => i = k
    BY <1>4
  <2> HIDE DEF rank
  <2> QED BY <2>1, <2>2 DEF Injection, IsInjective
<1>6. rank \in Surjection(I, 1..n)
  <2> HIDE DEF rank
  <2> QED BY <1>1, <1>2, <1>5, FS_Injection
<1>7. ASSUME NEW j \in 1..n
      PROVE  \E i \in I : Cardinality(below[i]) = j
  <2>1. \E i \in I : rank[i] = j
    <3> HIDE DEF rank
    <3> QED BY <1>6 DEF Surjection
  <2> QED BY <2>1
<1> QED BY <1>1, <1>3, <1>4, <1>7

\* Who picks one element of each rank picks each element once.
LEMMA PickBijection ==
    ASSUME NEW I, NEW n \in Nat, NEW rank \in [I -> 1..n], NEW f \in [1..n -> I],
           \A i, k \in I : rank[i] = rank[k] => i = k,
           \A j \in 1..n : rank[f[j]] = j
    PROVE  f \in Bijection(1..n, I)
<1>1. ASSUME NEW a \in 1..n, NEW b \in 1..n, f[a] = f[b] PROVE a = b
  BY <1>1
<1>2. ASSUME NEW i \in I PROVE \E j \in 1..n : f[j] = i
  <2>1. rank[i] \in 1..n /\ f[rank[i]] \in I /\ rank[f[rank[i]]] = rank[i]
    OBVIOUS
  <2> QED BY <2>1
<1> QED BY <1>1, <1>2 DEF Bijection, Injection, Surjection, IsInjective

\* The elements of a sequence that a bijection picks.
Picks(r, s, J) == \E f \in Bijection(DOMAIN r, J) : \A j \in DOMAIN r : r[j] = s[f[j]]

LEMMA PicksAre ==
    ASSUME NEW s \in Seq(Nat), NEW J, \A i \in J : i \in DOMAIN s, NEW m \in Nat,
           NEW f \in Bijection(1..m, J), NEW r, DOMAIN r = 1..m, r = [j \in DOMAIN r |-> r[j]],
           \A j \in 1..m : r[j] = s[f[j]]
    PROVE  r \in Seq(Nat) /\ Len(r) = m /\ Picks(r, s, J)
<1>1. \A j \in 1..m : f[j] \in J /\ s[f[j]] \in Nat
  BY DEF Bijection, Injection
<1>2. r \in [1..m -> Nat]
  BY <1>1
<1>3. r \in Seq(Nat) /\ Len(r) = m /\ DOMAIN r = 1..m
  BY <1>2
<1> QED BY <1>3 DEF Picks

LEMMA KeepPicks ==
    ASSUME NEW s \in Seq(Nat), NEW J \in SUBSET DOMAIN s
    PROVE  /\ Keep(s, J) \in Seq(Nat) /\ Len(Keep(s, J)) = Cardinality(J)
           /\ IsFiniteSet(J) /\ Picks(Keep(s, J), s, J)
<1>1. Len(s) \in Nat /\ DOMAIN s = 1..Len(s)
  OBVIOUS
<1>2. IsFiniteSet(J) /\ J \in SUBSET Nat
  <2>1. IsFiniteSet(1..Len(s))
    BY <1>1, FS_Interval
  <2> QED BY <1>1, <2>1, FS_Subset
<1> DEFINE rank(i) == Cardinality({x \in J : x <= i})
           pick(j) == CHOOSE i \in J : rank(i) = j
<1>3. PICK m \in Nat : m = Cardinality(J)
  BY <1>2, FS_CardinalityType
<1>4. /\ \A i \in J : rank(i) \in 1..m
      /\ \A i, k \in J : rank(i) = rank(k) => i = k
      /\ \A j \in 1..m : \E i \in J : rank(i) = j
  <2> DEFINE below == [i \in J |-> {x \in J : x <= i}]
  <2>1. below \in [J -> SUBSET J] /\ \A i \in J : Cardinality(below[i]) = rank(i)
    OBVIOUS
  <2>2. \A i \in J : i \in below[i]
    BY <1>2
  <2>3. ASSUME NEW i \in J, NEW k \in J, i # k
        PROVE  \/ i \notin below[k] /\ below[k] \subseteq below[i]
               \/ k \notin below[i] /\ below[i] \subseteq below[k]
    <3>1. i \in Nat /\ k \in Nat /\ \A x \in J : x \in Nat
      BY <1>2
    <3>2. CASE i < k
      <4>1. k \notin below[i]
        BY <3>1, <3>2
      <4>2. \A x \in J : x <= i => x <= k
        BY <3>1, <3>2
      <4> QED BY <4>1, <4>2
    <3>3. CASE k < i
      <4>1. i \notin below[k]
        BY <3>1, <3>3
      <4>2. \A x \in J : x <= k => x <= i
        BY <3>1, <3>3
      <4> QED BY <4>1, <4>2
    <3> QED BY <2>3, <3>1, <3>2, <3>3
  <2>4. /\ \A i \in J : Cardinality(below[i]) \in 1..m
        /\ \A i, k \in J : Cardinality(below[i]) = Cardinality(below[k]) => i = k
        /\ \A j \in 1..m : \E i \in J : Cardinality(below[i]) = j
    <3> HIDE DEF below
    <3> QED BY <1>2, <1>3, <2>1, <2>2, <2>3, Ranking
  <2> HIDE DEF below, rank
  <2> QED BY <2>1, <2>4
<1>5. ASSUME NEW j \in 1..m PROVE pick(j) \in J /\ rank(pick(j)) = j
  <2> HIDE DEF rank
  <2> QED BY <1>4
<1>6. PICK f : f = [j \in 1..m |-> pick(j)]
  OBVIOUS
<1>7. PICK g : g = [i \in J |-> rank(i)]
  OBVIOUS
<1>8. f \in Bijection(1..m, J)
  <2> HIDE DEF rank, pick
  <2>1. g \in [J -> 1..m] /\ f \in [1..m -> J]
    BY <1>4, <1>5, <1>6, <1>7
  <2>2. \A i, k \in J : g[i] = g[k] => i = k
    BY <1>4, <1>7
  <2>3. \A j \in 1..m : g[f[j]] = j
    BY <1>5, <1>6, <1>7
  <2> QED BY <2>1, <2>2, <2>3, PickBijection
<1>9. Keep(s, J) = [j \in 1..m |-> s[pick(j)]]
  BY <1>3 DEF Keep
<1>10. Keep(s, J) = [j \in 1..m |-> s[f[j]]]
  <2> HIDE DEF pick
  <2> QED BY <1>6, <1>9
<1> HIDE DEF rank, pick
<1>11. PICK r : r = [j \in 1..m |-> s[f[j]]]
  OBVIOUS
<1>12. /\ DOMAIN r = 1..m /\ r = [j \in DOMAIN r |-> r[j]]
       /\ \A j \in 1..m : r[j] = s[f[j]]
  BY <1>11
<1>13. \A i \in J : i \in DOMAIN s
  OBVIOUS
<1>14. r \in Seq(Nat) /\ Len(r) = m /\ Picks(r, s, J)
  BY <1>8, <1>12, <1>13, PicksAre
<1> QED BY <1>2, <1>3, <1>10, <1>11, <1>14

LEMMA SortedPicks ==
    ASSUME NEW s \in Seq(Nat)
    PROVE  /\ Sorted(s) \in Seq(Nat) /\ Len(Sorted(s)) = Len(s)
           /\ Picks(Sorted(s), s, DOMAIN s)
<1>1. PICK n \in Nat : n = Len(s)
  OBVIOUS
<1>2. DOMAIN s = 1..n /\ \A i \in 1..n : s[i] \in Nat
  BY <1>1
<1>3. PICK J : J = DOMAIN s
  OBVIOUS
<1>4. IsFiniteSet(J) /\ Cardinality(J) = n
  BY <1>2, <1>3, FS_Interval
<1> DEFINE rank(i) == Cardinality({x \in J : \/ s[x] < s[i]
                                             \/ s[x] = s[i] /\ x <= i})
           pick(j) == CHOOSE i \in J : rank(i) = j
<1>5. /\ \A i \in J : rank(i) \in 1..n
      /\ \A i, k \in J : rank(i) = rank(k) => i = k
      /\ \A j \in 1..n : \E i \in J : rank(i) = j
  <2> DEFINE below == [i \in J |-> {x \in J : \/ s[x] < s[i]
                                              \/ s[x] = s[i] /\ x <= i}]
  <2>1. below \in [J -> SUBSET J] /\ \A i \in J : Cardinality(below[i]) = rank(i)
    OBVIOUS
  <2>2. \A i \in J : i \in below[i]
    BY <1>2, <1>3
  <2>3. ASSUME NEW i \in J, NEW k \in J, s[i] < s[k] \/ (s[i] = s[k] /\ i < k)
        PROVE  k \notin below[i] /\ below[i] \subseteq below[k]
    <3>1. s[i] \in Nat /\ s[k] \in Nat /\ \A x \in J : s[x] \in Nat /\ x \in Nat
      BY <1>2, <1>3
    <3>2. k \notin below[i]
      BY <2>3, <3>1
    <3>3. \A x \in J : s[x] < s[i] \/ (s[x] = s[i] /\ x <= i)
                          => s[x] < s[k] \/ (s[x] = s[k] /\ x <= k)
      BY <2>3, <3>1
    <3> QED BY <3>2, <3>3
  <2>4. ASSUME NEW i \in J, NEW k \in J, i # k
        PROVE  \/ i \notin below[k] /\ below[k] \subseteq below[i]
               \/ k \notin below[i] /\ below[i] \subseteq below[k]
    <3>1. s[i] \in Nat /\ s[k] \in Nat /\ i \in Nat /\ k \in Nat
      BY <1>2, <1>3
    <3>2. \/ s[i] < s[k] \/ (s[i] = s[k] /\ i < k)
          \/ s[k] < s[i] \/ (s[k] = s[i] /\ k < i)
      BY <2>4, <3>1
    <3> HIDE DEF below
    <3> QED BY <2>3, <3>2
  <2>5. /\ \A i \in J : Cardinality(below[i]) \in 1..n
        /\ \A i, k \in J : Cardinality(below[i]) = Cardinality(below[k]) => i = k
        /\ \A j \in 1..n : \E i \in J : Cardinality(below[i]) = j
    <3> HIDE DEF below
    <3> QED BY <1>4, <2>1, <2>2, <2>4, Ranking
  <2> HIDE DEF below, rank
  <2> QED BY <2>1, <2>5
<1>6. ASSUME NEW j \in 1..n PROVE pick(j) \in J /\ rank(pick(j)) = j
  <2> HIDE DEF rank
  <2> QED BY <1>5
<1>7. PICK f : f = [j \in 1..n |-> pick(j)]
  OBVIOUS
<1>8. PICK g : g = [i \in J |-> rank(i)]
  OBVIOUS
<1>9. f \in Bijection(1..n, J)
  <2> HIDE DEF rank, pick
  <2>1. g \in [J -> 1..n] /\ f \in [1..n -> J]
    BY <1>5, <1>6, <1>7, <1>8
  <2>2. \A i, k \in J : g[i] = g[k] => i = k
    BY <1>5, <1>8
  <2>3. \A j \in 1..n : g[f[j]] = j
    BY <1>6, <1>7, <1>8
  <2> QED BY <2>1, <2>2, <2>3, PickBijection
<1>10. Sorted(s) = [j \in J |-> s[pick(j)]]
  BY <1>3 DEF Sorted
<1>11. Sorted(s) = [j \in 1..n |-> s[f[j]]]
  <2> HIDE DEF pick
  <2> QED BY <1>2, <1>3, <1>7, <1>10
<1> HIDE DEF rank, pick
<1>12. PICK r : r = [j \in 1..n |-> s[f[j]]]
  OBVIOUS
<1>13. /\ DOMAIN r = 1..n /\ r = [j \in DOMAIN r |-> r[j]]
       /\ \A j \in 1..n : r[j] = s[f[j]]
  BY <1>12
<1>14. r \in Seq(Nat) /\ Len(r) = n /\ Picks(r, s, J)
  BY <1>3, <1>9, <1>13, PicksAre
<1> QED BY <1>1, <1>3, <1>11, <1>12, <1>14

-----------------------------------------------------------------------------
(* The hits of a sliding window after a time                               *)

\* How many hits came after a time.
Live(hits, time) == Cardinality({i \in DOMAIN hits : hits[i] > time})

LEMMA LiveType ==
    ASSUME NEW h \in Seq(Nat), NEW x
    PROVE  Live(h, x) \in Nat /\ IsFiniteSet(DOMAIN h) /\ IsFiniteSet({i \in DOMAIN h : h[i] > x})
<1>1. PICK n \in Nat : n = Len(h)
  OBVIOUS
<1>2. IsFiniteSet(1..n) /\ DOMAIN h = 1..n
  BY <1>1, FS_Interval
<1>3. {i \in DOMAIN h : h[i] > x} \in SUBSET (1..n)
  BY <1>2
<1> QED BY <1>2, <1>3, FS_Subset, FS_CardinalityType DEF Live

\* A sequence that picks elements of another has as many hits after a time.
LEMMA LivePicks ==
    ASSUME NEW s \in Seq(Nat), NEW r \in Seq(Nat), NEW J \in SUBSET DOMAIN s,
           Picks(r, s, J), NEW x
    PROVE  Live(r, x) = Cardinality({i \in J : s[i] > x})
<1>1. PICK f \in Bijection(DOMAIN r, J) : \A j \in DOMAIN r : r[j] = s[f[j]]
  BY DEF Picks
<1>2. PICK A : A = {j \in DOMAIN r : r[j] > x}
  OBVIOUS
<1>3. PICK B : B = {i \in J : s[i] > x}
  OBVIOUS
<1>4. PICK g : g = [j \in A |-> f[j]]
  OBVIOUS
<1>5. f \in [DOMAIN r -> J]
  BY <1>1 DEF Bijection, Injection
<1>6. g \in [A -> B]
  BY <1>1, <1>2, <1>3, <1>4, <1>5
<1>7. g \in Injection(A, B)
  BY <1>1, <1>2, <1>4, <1>6 DEF Bijection, Injection, IsInjective
<1>8. g \in Surjection(A, B)
  <2>1. ASSUME NEW i \in B PROVE \E j \in A : g[j] = i
    <3>1. i \in J /\ s[i] > x
      BY <1>3
    <3>2. PICK j \in DOMAIN r : f[j] = i
      BY <1>1, <3>1 DEF Bijection, Surjection
    <3> QED BY <1>1, <1>2, <1>4, <3>1, <3>2
  <2> QED BY <1>6, <2>1 DEF Surjection
<1>9. IsFiniteSet(A)
  BY <1>2, LiveType
<1>10. ExistsBijection(A, B)
  BY <1>7, <1>8 DEF ExistsBijection, Bijection
<1> QED BY <1>2, <1>3, <1>9, <1>10, FS_Bijection DEF Live

\* No hit is after a time if and only if all are at it or before.
LEMMA LiveZero ==
    ASSUME NEW h \in Seq(Nat), NEW x \in Int
    PROVE  Live(h, x) = 0 <=> \A i \in DOMAIN h : h[i] <= x
<1>1. \A i \in DOMAIN h : h[i] \in Nat
  OBVIOUS
<1>2. PICK A : A = {i \in DOMAIN h : h[i] > x}
  OBVIOUS
<1>3. IsFiniteSet(A) /\ Live(h, x) = Cardinality(A)
  BY <1>2, LiveType DEF Live
<1>4. Cardinality(A) = 0 <=> A = {}
  BY <1>3, FS_EmptySet
<1> QED BY <1>1, <1>2, <1>3, <1>4

LEMMA LiveLen ==
    ASSUME NEW h \in Seq(Nat)
    PROVE  Live(h, -1) = Len(h) /\ \A x : Live(h, x) <= Len(h)
<1>1. PICK n \in Nat : n = Len(h)
  OBVIOUS
<1>2. DOMAIN h = 1..n /\ \A i \in 1..n : h[i] \in Nat
  BY <1>1
<1>3. IsFiniteSet(1..n) /\ Cardinality(1..n) = n
  BY FS_Interval
<1>4. {i \in DOMAIN h : h[i] > -1} = 1..n
  BY <1>2
<1>5. ASSUME NEW x PROVE Live(h, x) <= n
  <2>1. {i \in DOMAIN h : h[i] > x} \in SUBSET (1..n)
    BY <1>2
  <2> QED BY <1>3, <2>1, FS_Subset DEF Live
<1> QED BY <1>1, <1>3, <1>4, <1>5 DEF Live

LEMMA LiveFewer ==
    ASSUME NEW h \in Seq(Nat), NEW x \in Int, NEW y \in Int, x <= y
    PROVE  Live(h, y) <= Live(h, x)
<1>1. \A i \in DOMAIN h : h[i] \in Nat
  OBVIOUS
<1>2. PICK A : A = {i \in DOMAIN h : h[i] > x}
  OBVIOUS
<1>3. PICK B : B = {i \in DOMAIN h : h[i] > y}
  OBVIOUS
<1>4. B \in SUBSET A /\ IsFiniteSet(A)
  BY <1>1, <1>2, <1>3, LiveType
<1> QED BY <1>2, <1>3, <1>4, FS_Subset DEF Live

\* Prune keeps the hits after its cutoff.
LEMMA LivePrune ==
    ASSUME NEW h \in Seq(Nat), NEW cut \in Int
    PROVE  /\ Prune(h, cut) \in Seq(Nat) /\ Len(Prune(h, cut)) = Live(h, cut)
           /\ \A x \in Int : Live(Prune(h, cut), x) = IF x <= cut THEN Live(h, cut)
                                                      ELSE Live(h, x)
<1>1. PICK J : J = {i \in DOMAIN h : h[i] > cut}
  OBVIOUS
<1>2. J \in SUBSET DOMAIN h
  BY <1>1
<1>3. PICK r : r = Keep(h, J)
  OBVIOUS
<1>4. r = Prune(h, cut)
  BY <1>1, <1>3 DEF Prune
<1>5. r \in Seq(Nat) /\ Len(r) = Cardinality(J) /\ Picks(r, h, J)
  BY <1>2, <1>3, KeepPicks
<1>6. ASSUME NEW x \in Int
      PROVE  Live(r, x) = IF x <= cut THEN Live(h, cut) ELSE Live(h, x)
  <2>1. Live(r, x) = Cardinality({i \in J : h[i] > x})
    BY <1>2, <1>5, LivePicks
  <2>2. \A i \in DOMAIN h : h[i] \in Nat
    OBVIOUS
  <2>3. {i \in J : h[i] > x} = IF x <= cut THEN {i \in DOMAIN h : h[i] > cut}
                               ELSE {i \in DOMAIN h : h[i] > x}
    BY <1>1, <2>2
  <2> QED BY <2>1, <2>3 DEF Live
<1> QED BY <1>1, <1>4, <1>5, <1>6 DEF Live

LEMMA LiveSorted ==
    ASSUME NEW h \in Seq(Nat)
    PROVE  /\ Sorted(h) \in Seq(Nat) /\ Len(Sorted(h)) = Len(h)
           /\ \A x : Live(Sorted(h), x) = Live(h, x)
<1>1. PICK r : r = Sorted(h)
  OBVIOUS
<1>2. r \in Seq(Nat) /\ Len(r) = Len(h) /\ Picks(r, h, DOMAIN h)
  BY <1>1, SortedPicks
<1>3. \A x : Live(r, x) = Cardinality({i \in DOMAIN h : h[i] > x})
  BY <1>2, LivePicks
<1> QED BY <1>1, <1>2, <1>3 DEF Live

LEMMA LiveConcat ==
    ASSUME NEW a \in Seq(Nat), NEW b \in Seq(Nat), NEW x
    PROVE  Live(a \o b, x) = Live(a, x) + Live(b, x)
<1>1. PICK m \in Nat : m = Len(a)
  OBVIOUS
<1>2. PICK n \in Nat : n = Len(b)
  OBVIOUS
<1>3. PICK c : c = a \o b
  OBVIOUS
<1>4. /\ c \in Seq(Nat) /\ DOMAIN c = 1..(m + n) /\ DOMAIN a = 1..m /\ DOMAIN b = 1..n
      /\ \A i \in 1..m : c[i] = a[i]
      /\ \A i \in 1..n : c[m + i] = b[i]
  BY <1>1, <1>2, <1>3
<1>5. PICK A : A = {i \in DOMAIN a : a[i] > x}
  OBVIOUS
<1>6. PICK B : B = {i \in DOMAIN b : b[i] > x}
  OBVIOUS
<1>7. PICK D : D = {i \in (m + 1)..(m + n) : c[i] > x}
  OBVIOUS
<1>8. {i \in DOMAIN c : c[i] > x} = A \union D
  <2>1. 1..(m + n) = (1..m) \union ((m + 1)..(m + n))
    OBVIOUS
  <2> QED BY <1>4, <1>5, <1>7, <2>1
<1>9. A \cap D = {}
  BY <1>4, <1>5, <1>7
<1>10. PICK f : f = [i \in B |-> m + i]
  OBVIOUS
<1>11. f \in Bijection(B, D)
  <2>1. \A i \in B : i \in Nat /\ i \in 1..n /\ m + i \in D
    BY <1>4, <1>6, <1>7
  <2>2. f \in [B -> D]
    BY <1>10, <2>1
  <2>3. \A i, k \in B : f[i] = f[k] => i = k
    BY <1>10, <2>1
  <2>4. ASSUME NEW d \in D PROVE \E i \in B : f[i] = d
    <3>1. d \in (m + 1)..(m + n) /\ c[d] > x
      BY <1>7
    <3>2. d - m \in 1..n /\ m + (d - m) = d
      BY <3>1
    <3>3. c[d] = b[d - m]
      BY <1>4, <3>2
    <3>4. d - m \in B
      BY <1>4, <1>6, <3>1, <3>2, <3>3
    <3> QED BY <1>10, <3>2, <3>4
  <2> QED BY <2>2, <2>3, <2>4 DEF Bijection, Injection, Surjection, IsInjective
<1>12. IsFiniteSet(A) /\ IsFiniteSet(B)
  BY <1>5, <1>6, LiveType
<1>13. IsFiniteSet(D) /\ Cardinality(D) = Cardinality(B)
  <2>1. ExistsBijection(B, D)
    BY <1>11 DEF ExistsBijection
  <2> QED BY <1>12, <2>1, FS_Bijection
<1>14. Cardinality(A \union D) = Cardinality(A) + Cardinality(D) - Cardinality(A \cap D)
  BY <1>12, <1>13, FS_Union
<1>15. Cardinality(A \cap D) = 0 /\ Cardinality(A) \in Nat /\ Cardinality(D) \in Nat
  BY <1>9, <1>12, <1>13, FS_EmptySet, FS_CardinalityType
<1>16. Live(c, x) = Cardinality(A \union D) /\ Live(a, x) = Cardinality(A)
       /\ Live(b, x) = Cardinality(B)
  BY <1>5, <1>6, <1>8 DEF Live
<1> QED BY <1>3, <1>13, <1>14, <1>15, <1>16

LEMMA LiveOne ==
    ASSUME NEW t \in Nat
    PROVE  /\ Copies(1, t) \in Seq(Nat) /\ Len(Copies(1, t)) = 1 /\ Copies(1, t) = <<t>>
           /\ \A x \in Int : Live(Copies(1, t), x) = IF t > x THEN 1 ELSE 0
<1>1. PICK c : c = Copies(1, t)
  OBVIOUS
<1>2. c \in [1..1 -> Nat] /\ DOMAIN c = 1..1 /\ c[1] = t
  BY <1>1 DEF Copies
<1>3. c \in Seq(Nat) /\ Len(c) = 1 /\ c = <<t>>
  <2>1. PICK n \in Nat : n = 1
    OBVIOUS
  <2>2. c \in [1..n -> Nat] /\ DOMAIN c = 1..n
    BY <1>2, <2>1
  <2>3. c \in Seq(Nat) /\ Len(c) = n
    BY <2>2
  <2>4. <<t>> \in Seq(Nat) /\ Len(<<t>>) = 1 /\ <<t>>[1] = t
    OBVIOUS
  <2>5. \A i \in 1..Len(c) : c[i] = <<t>>[i]
    <3>1. \A i \in 1..1 : i = 1
      OBVIOUS
    <3> QED BY <1>2, <2>1, <2>3, <2>4, <3>1
  <2>6. c = <<t>>
    BY <2>1, <2>3, <2>4, <2>5, SeqEqual
  <2> QED BY <2>1, <2>3, <2>6
<1>4. ASSUME NEW x \in Int PROVE Live(c, x) = IF t > x THEN 1 ELSE 0
  <2>1. {i \in DOMAIN c : c[i] > x} = IF t > x THEN {1} ELSE {}
    BY <1>2
  <2>2. Cardinality({1}) = 1 /\ Cardinality({}) = 0
    BY FS_Singleton, FS_EmptySet
  <2> QED BY <2>1, <2>2 DEF Live
<1> QED BY <1>1, <1>3, <1>4

LEMMA LiveInsert ==
    ASSUME NEW h \in Seq(Nat), NEW t \in Nat
    PROVE  /\ Insert(h, t) \in Seq(Nat) /\ Len(Insert(h, t)) = Len(h) + 1
           /\ \A x \in Int : Live(Insert(h, t), x) = Live(h, x) + (IF t > x THEN 1 ELSE 0)
<1>1. PICK J : J = {i \in DOMAIN h : h[i] <= t}
  OBVIOUS
<1>2. J \in SUBSET DOMAIN h /\ \A i \in DOMAIN h : h[i] \in Nat
  BY <1>1
<1>3. PICK a : a = Keep(h, J)
  OBVIOUS
<1>4. a \in Seq(Nat) /\ Picks(a, h, J)
  BY <1>2, <1>3, KeepPicks
<1>5. PICK b : b = Copies(1, t)
  OBVIOUS
<1>6. b \in Seq(Nat) /\ \A x \in Int : Live(b, x) = IF t > x THEN 1 ELSE 0
  BY <1>5, LiveOne
<1>7. PICK c : c = Prune(h, t)
  OBVIOUS
<1>8. c \in Seq(Nat) /\ \A x \in Int : Live(c, x) = IF x <= t THEN Live(h, t) ELSE Live(h, x)
  <2>1. t \in Int
    OBVIOUS
  <2> QED BY <1>7, <2>1, LivePrune
<1>9. PICK r : r = Insert(h, t)
  OBVIOUS
<1>10. r = a \o b \o c /\ r \in Seq(Nat)
  BY <1>1, <1>3, <1>4, <1>5, <1>6, <1>7, <1>8, <1>9 DEF Insert
<1>11. ASSUME NEW x \in Int
       PROVE  Live(r, x) = Live(h, x) + (IF t > x THEN 1 ELSE 0)
  <2>1. a \o b \in Seq(Nat)
    BY <1>4, <1>6
  <2>2. Live(r, x) = Live(a, x) + Live(b, x) + Live(c, x)
    <3>1. PICK ab \in Seq(Nat) : ab = a \o b
      BY <2>1
    <3>2. Live(ab, x) = Live(a, x) + Live(b, x)
      BY <1>4, <1>6, <3>1, LiveConcat
    <3>3. r = ab \o c
      BY <1>10, <3>1
    <3>4. Live(r, x) = Live(ab, x) + Live(c, x)
      BY <1>8, <3>3, LiveConcat
    <3> QED BY <3>2, <3>4
  <2>3. Live(a, x) = Cardinality({i \in J : h[i] > x})
    BY <1>2, <1>4, LivePicks
  <2>4. PICK A : A = {i \in J : h[i] > x}
    OBVIOUS
  <2>5. Live(h, x) \in Nat /\ Live(h, t) \in Nat
    BY LiveType
  <2>6. CASE x >= t
    <3>1. A = {}
      BY <1>1, <1>2, <2>4, <2>6
    <3>2. Cardinality(A) = 0
      BY <3>1, FS_EmptySet
    <3>3. Live(c, x) = Live(h, x)
      <4>1. x = t \/ ~(x <= t)
        BY <2>6
      <4> QED BY <1>8, <4>1
    <3>4. Live(b, x) = 0
      BY <1>6, <2>6
    <3> QED BY <2>2, <2>3, <2>4, <2>5, <2>6, <3>2, <3>3, <3>4
  <2>7. CASE x < t
    <3>1. PICK B : B = {i \in DOMAIN h : h[i] > t}
      OBVIOUS
    <3>2. {i \in DOMAIN h : h[i] > x} = A \union B /\ A \cap B = {}
      BY <1>1, <1>2, <2>4, <2>7, <3>1
    <3>3. IsFiniteSet(B) /\ IsFiniteSet(A)
      <4>1. IsFiniteSet({i \in DOMAIN h : h[i] > x}) /\ A \in SUBSET {i \in DOMAIN h : h[i] > x}
        BY <3>2, LiveType
      <4>2. IsFiniteSet(A)
        BY <4>1, FS_Subset
      <4> QED BY <3>1, <4>2, LiveType
    <3>4. Cardinality(A \union B) = Cardinality(A) + Cardinality(B) - Cardinality(A \cap B)
      BY <3>3, FS_Union
    <3>5. Cardinality(A \cap B) = 0 /\ Cardinality(A) \in Nat /\ Cardinality(B) \in Nat
      BY <3>2, <3>3, FS_EmptySet, FS_CardinalityType
    <3>6. Live(h, x) = Cardinality(A) + Live(h, t)
      <4>1. Live(h, x) = Cardinality(A \union B) /\ Live(h, t) = Cardinality(B)
        BY <3>1, <3>2 DEF Live
      <4> QED BY <3>4, <3>5, <4>1
    <3>7. Live(c, x) = Live(h, t) /\ Live(b, x) = 1
      BY <1>6, <1>8, <2>7
    <3> QED BY <2>2, <2>3, <2>4, <2>5, <2>7, <3>5, <3>6, <3>7
  <2> QED BY <2>6, <2>7
<1>12. Len(r) = Len(h) + 1
  <2>1. Live(r, -1) = Live(h, -1) + 1
    BY <1>11
  <2>2. Live(r, -1) = Len(r) /\ Live(h, -1) = Len(h)
    BY <1>10, LiveLen
  <2> QED BY <2>1, <2>2
<1> QED BY <1>9, <1>10, <1>11, <1>12

\* A hit appended.
LEMMA LiveAppend ==
    ASSUME NEW h \in Seq(Nat), NEW t \in Nat
    PROVE  /\ h \o Copies(1, t) \in Seq(Nat) /\ Len(h \o Copies(1, t)) = Len(h) + 1
           /\ \A x \in Int : Live(h \o Copies(1, t), x) = Live(h, x) + (IF t > x THEN 1 ELSE 0)
<1>1. PICK b : b = Copies(1, t)
  OBVIOUS
<1>2. b \in Seq(Nat) /\ Len(b) = 1 /\ \A x \in Int : Live(b, x) = IF t > x THEN 1 ELSE 0
  BY <1>1, LiveOne
<1>3. h \o b \in Seq(Nat) /\ Len(h \o b) = Len(h) + 1
  <2>1. h \o b \in Seq(Nat) /\ Len(h \o b) = Len(h) + Len(b)
    BY <1>2, ConcatProperties
  <2> QED BY <1>2, <2>1
<1>4. \A x \in Int : Live(h \o b, x) = Live(h, x) + (IF t > x THEN 1 ELSE 0)
  BY <1>2, LiveConcat
<1> QED BY <1>1, <1>3, <1>4

\* What an undo in a sliding window leaves: all but the first, or the last, hit.
LEMMA LiveDrop ==
    ASSUME NEW h \in Seq(Nat), NEW newest \in BOOLEAN
    PROVE  LET d == DropHits(h, 1, newest)
               e == h[IF newest THEN Len(h) ELSE 1]
           IN /\ d \in Seq(Nat)
              /\ h = << >> => d = << >>
              /\ h # << >> => /\ e \in Nat
                              /\ \A x \in Int : Live(h, x) = Live(d, x) + (IF e > x THEN 1 ELSE 0)
<1>1. PICK n \in Nat : n = Len(h)
  OBVIOUS
<1>2. PICK d : d = DropHits(h, 1, newest)
  OBVIOUS
<1>3. CASE h = << >>
  <2>1. n = 0
    BY <1>1, <1>3
  <2>2. d = IF newest THEN SubSeq(h, 1, 0) ELSE SubSeq(h, 1, 0)
    BY <1>1, <1>2, <2>1 DEF DropHits, DropFirst, DropLast, Least
  <2>3. d = << >>
    BY <2>2
  <2> QED BY <1>2, <1>3, <2>3
<1>4. CASE h # << >>
  <2>1. n >= 1 /\ DOMAIN h = 1..n /\ \A i \in 1..n : h[i] \in Nat
    BY <1>1, <1>4
  <2>2. d = IF newest THEN SubSeq(h, 1, n - 1) ELSE SubSeq(h, 2, n)
    <3>1. Least(1, n) = 1
      BY <2>1 DEF Least
    <3> QED BY <1>1, <1>2, <3>1 DEF DropHits, DropFirst, DropLast
  <2>3. PICK e \in Nat : e = h[IF newest THEN n ELSE 1]
    BY <2>1
  <2>4. PICK b : b = Copies(1, e)
    OBVIOUS
  <2>5. b \in Seq(Nat) /\ Len(b) = 1 /\ b = <<e>> /\ \A x \in Int : Live(b, x) = IF e > x THEN 1 ELSE 0
    BY <2>4, LiveOne
  <2>6. CASE newest
    <3>1. d \in Seq(Nat) /\ Len(d) = n - 1 /\ \A i \in 1..(n - 1) : d[i] = h[i]
      <4>1. d = SubSeq(h, 1, n - 1) /\ 1 \in Int /\ n - 1 \in Int
        BY <2>2, <2>6
      <4>2. \A i \in 1..(n - 1) : h[i] \in Nat
        BY <2>1
      <4>3. /\ d \in Seq(Nat) /\ Len(d) = IF 1 <= n - 1 THEN (n - 1) - 1 + 1 ELSE 0
            /\ \A i \in 1..((n - 1) - 1 + 1) : d[i] = h[1 + i - 1]
        BY <4>1, <4>2, SubSeqProperties
      <4>4. Len(d) = n - 1
        <5>1. n \in Nat /\ n >= 1
          BY <2>1
        <5> QED BY <4>3, <5>1
      <4>5. ASSUME NEW i \in 1..(n - 1) PROVE d[i] = h[i]
        <5>1. i \in 1..((n - 1) - 1 + 1) /\ 1 + i - 1 = i
          OBVIOUS
        <5> QED BY <4>3, <5>1
      <4> QED BY <4>3, <4>4, <4>5
    <3>2. h = d \o b
      <4>1. PICK q : q = d \o b
        OBVIOUS
      <4>2. q \in Seq(Nat) /\ Len(q) = (n - 1) + 1 /\ b[1] = e /\ e = h[n]
        BY <2>3, <2>5, <2>6, <3>1, <4>1
      <4>3. ASSUME NEW i \in 1..n PROVE q[i] = h[i]
        <5>1. q[i] = IF i <= n - 1 THEN d[i] ELSE b[i - (n - 1)]
          BY <2>5, <3>1, <4>1, ConcatProperties
        <5>2. CASE i <= n - 1
          BY <3>1, <5>1, <5>2
        <5>3. CASE ~ (i <= n - 1)
          <6>1. i = n /\ i - (n - 1) = 1
            BY <5>3
          <6> QED BY <4>2, <5>1, <5>3, <6>1
        <5> QED BY <5>2, <5>3
      <4>4. h = q
        <5>1. Len(q) = n /\ DOMAIN q = 1..n
          BY <4>2
        <5> QED BY <1>1, <2>1, <4>2, <4>3, <5>1
      <4> QED BY <4>1, <4>4
    <3>3. \A x \in Int : Live(h, x) = Live(d, x) + Live(b, x)
      <4>1. \A x : Live(d \o b, x) = Live(d, x) + Live(b, x)
        BY <2>5, <3>1, LiveConcat
      <4> QED BY <3>2, <4>1
    <3>4. \A x \in Int : Live(h, x) = Live(d, x) + (IF e > x THEN 1 ELSE 0)
      BY <2>5, <3>3
    <3> QED BY <1>1, <1>2, <1>4, <2>3, <2>6, <3>1, <3>4
  <2>7. CASE ~ newest
    <3>1. d \in Seq(Nat) /\ Len(d) = n - 1 /\ \A i \in 1..(n - 1) : d[i] = h[i + 1]
      <4>1. d = SubSeq(h, 2, n) /\ 2 \in Int /\ n \in Int
        BY <2>2, <2>7
      <4>2. \A i \in 2..n : h[i] \in Nat
        BY <2>1
      <4>3. /\ d \in Seq(Nat) /\ Len(d) = IF 2 <= n THEN n - 2 + 1 ELSE 0
            /\ \A i \in 1..(n - 2 + 1) : d[i] = h[2 + i - 1]
        BY <4>1, <4>2, SubSeqProperties
      <4>4. Len(d) = n - 1
        <5>1. n \in Nat /\ n >= 1
          BY <2>1
        <5> QED BY <4>3, <5>1
      <4>5. ASSUME NEW i \in 1..(n - 1) PROVE d[i] = h[i + 1]
        <5>1. i \in 1..(n - 2 + 1) /\ 2 + i - 1 = i + 1
          OBVIOUS
        <5> QED BY <4>3, <5>1
      <4> QED BY <4>3, <4>4, <4>5
    <3>2. h = b \o d
      <4>1. PICK q : q = b \o d
        OBVIOUS
      <4>2. q \in Seq(Nat) /\ Len(q) = 1 + (n - 1) /\ b[1] = e /\ e = h[1]
        BY <2>3, <2>5, <2>7, <3>1, <4>1
      <4>3. ASSUME NEW i \in 1..n PROVE q[i] = h[i]
        <5>1. q[i] = IF i <= 1 THEN b[i] ELSE d[i - 1]
          BY <2>5, <3>1, <4>1, ConcatProperties
        <5>2. CASE i <= 1
          <6>1. i = 1
            BY <5>2
          <6> QED BY <4>2, <5>1, <5>2, <6>1
        <5>3. CASE ~ (i <= 1)
          <6>1. i - 1 \in 1..(n - 1) /\ (i - 1) + 1 = i
            BY <5>3
          <6> QED BY <3>1, <5>1, <5>3, <6>1
        <5> QED BY <5>2, <5>3
      <4>4. h = q
        <5>1. Len(q) = n /\ DOMAIN q = 1..n
          BY <4>2
        <5> QED BY <1>1, <2>1, <4>2, <4>3, <5>1
      <4> QED BY <4>1, <4>4
    <3>3. \A x \in Int : Live(h, x) = Live(b, x) + Live(d, x)
      <4>1. \A x : Live(b \o d, x) = Live(b, x) + Live(d, x)
        BY <2>5, <3>1, LiveConcat
      <4> QED BY <3>2, <4>1
    <3>4. \A x \in Int : Live(d, x) \in Nat
      BY <3>1, LiveType
    <3>5. \A x \in Int : Live(h, x) = Live(d, x) + (IF e > x THEN 1 ELSE 0)
      <4>1. ASSUME NEW x \in Int
            PROVE  Live(h, x) = Live(d, x) + (IF e > x THEN 1 ELSE 0)
        <5>1. PICK k \in Nat : k = Live(d, x)
          BY <3>4
        <5>2. Live(h, x) = (IF e > x THEN 1 ELSE 0) + k
          BY <2>5, <3>3, <5>1
        <5> QED BY <5>1, <5>2
      <4> QED BY <4>1
    <3> QED BY <1>1, <1>2, <1>4, <2>3, <2>7, <3>1, <3>5
  <2> QED BY <2>6, <2>7
<1> QED BY <1>3, <1>4

LEMMA EmptyIs == << >> \in Seq(Nat) /\ Len(<< >>) = 0 /\ \A x : Live(<< >>, x) = 0
<1>1. \A x : {i \in DOMAIN << >> : << >>[i] > x} = {}
  OBVIOUS
<1> QED BY <1>1, FS_EmptySet DEF Live

\* n equal hits.
LEMMA LiveCopies ==
    ASSUME NEW n \in Nat, NEW t \in Nat
    PROVE  /\ Copies(n, t) \in Seq(Nat) /\ Len(Copies(n, t)) = n
           /\ \A x \in Int : t <= x => Live(Copies(n, t), x) = 0
<1>1. PICK c : c = Copies(n, t)
  OBVIOUS
<1>2. c \in [1..n -> Nat] /\ DOMAIN c = 1..n /\ \A i \in 1..n : c[i] = t
  BY <1>1 DEF Copies
<1>3. c \in Seq(Nat) /\ Len(c) = n
  BY <1>2
<1>4. \A x \in Int : t <= x => Live(c, x) = 0
  BY <1>2, <1>3, LiveZero
<1> QED BY <1>1, <1>3, <1>4

\* The greatest of the stamps of a non-empty sequence.
LEMMA GreatestStamp ==
    ASSUME NEW h \in Seq(Nat), h # << >>, NEW top \in Nat, Live(h, top) = 0
    PROVE  Pg!Newest(h) \in 0..top
<1>1. PICK S : S = {h[i] : i \in DOMAIN h}
  OBVIOUS
<1>2. S \subseteq 0..top /\ S # {}
  <2>1. \A i \in DOMAIN h : h[i] \in Nat /\ h[i] <= top
    BY LiveZero
  <2>2. 1 \in DOMAIN h
    OBVIOUS
  <2> QED BY <1>1, <2>1, <2>2
<1>3. PICK T : T = {top - x : x \in S}
  OBVIOUS
<1>4. T \subseteq Nat /\ T # {}
  <2>1. ASSUME NEW y \in T PROVE y \in Nat
    <3>1. PICK x \in S : y = top - x
      BY <1>3
    <3>2. x \in 0..top
      BY <1>2
    <3> QED BY <3>1, <3>2
  <2>2. PICK x : x \in S
    BY <1>2
  <2>3. top - x \in T
    BY <1>3, <2>2
  <2> QED BY <2>1, <2>3
<1>5. \E x \in T : \A y \in T : x <= y
  <2> DEFINE R == OpToRel(<, Nat)
  <2>1. IsWellFoundedOn(R, Nat)
    BY NatLessThanWellFounded
  <2>2. \A x, y \in Nat : y < x => <<y, x>> \in R
    BY DEF OpToRel
  <2> HIDE DEF R
  <2>3. PICK x \in T : \A y \in T : ~ (<<y, x>> \in R)
    BY <1>4, <2>1, WFMin
  <2>4. ASSUME NEW y \in T PROVE x <= y
    <3>1. x \in Nat /\ y \in Nat
      BY <1>4
    <3>2. ~(y < x)
      BY <2>2, <2>3, <3>1, Zenon
    <3> QED BY <3>1, <3>2
  <2> QED BY <2>4
<1>6. PICK x \in T : \A y \in T : x <= y
  BY <1>5
<1>7. PICK m \in S : x = top - m
  BY <1>3, <1>6
<1>8. \A y \in S : m >= y
  <2>1. ASSUME NEW y \in S PROVE m >= y
    <3>1. top - y \in T
      BY <1>3
    <3>2. m \in Nat /\ y \in Nat /\ top - m <= top - y
      BY <1>2, <1>6, <1>7, <3>1
    <3> QED BY <3>2
  <2> QED BY <2>1
<1>9. \E z \in S : \A y \in S : z >= y
  BY <1>8
<1>10. \E z \in {h[i] : i \in DOMAIN h} : \A i \in DOMAIN h : h[i] <= z
  <2>1. PICK z \in S : \A y \in S : z >= y
    BY <1>9
  <2>2. ASSUME NEW i \in DOMAIN h PROVE h[i] <= z
    <3>1. h[i] \in S
      BY <1>1
    <3>2. z \in Nat /\ h[i] \in Nat /\ z >= h[i]
      BY <1>2, <2>1, <3>1
    <3> QED BY <3>2
  <2> QED BY <1>1, <2>1, <2>2
<1>11. Pg!Newest(h) \in S
  BY <1>1, <1>10 DEF Pg!Newest
<1> QED BY <1>2, <1>11

-----------------------------------------------------------------------------
(* Windows and refills                                                     *)

LEMMA Constants ==
    /\ Window \in Nat /\ Window > 0 /\ Limit \in Nat /\ Limit > 0
    /\ Interval \in Nat /\ Interval > 0 /\ TokensPerInterval \in Nat /\ TokensPerInterval > 0
    /\ BucketSize \in Nat /\ BucketSize > 0
    /\ MaxAttempts \in Nat /\ MaxAttempts > 1 /\ MaxTime \in Nat /\ MaxEvents \in Nat
    /\ MaxLag \in Nat /\ MaxLag < Window /\ MaxLag < Interval
    /\ IsFiniteSet(Callers) /\ NoCaller \notin Callers
<1>1. MaxLag \in 0..(Window - 1) /\ MaxLag < Interval /\ Window \in Nat \ {0}
  BY RowsAssumption, SharedAssumption
<1>2. MaxLag \in Nat /\ MaxLag < Window
  BY <1>1
<1>3. IsFiniteSet(Callers) /\ NoCaller \notin Callers
  BY SharedAssumption DEF NoCaller
<1>4. MaxAttempts \in Nat /\ MaxAttempts > 1 /\ MaxTime \in Nat /\ MaxEvents \in Nat
  <2>1. MaxAttempts \in Nat /\ MaxAttempts # 0 /\ MaxAttempts # 1
    BY SharedAssumption
  <2>2. MaxAttempts > 1
    BY <2>1
  <2>3. MaxTime \in Nat /\ MaxEvents \in Nat
    BY SharedAssumption
  <2> QED BY <2>1, <2>2, <2>3
<1>5. /\ Window \in Nat /\ Window > 0 /\ Limit \in Nat /\ Limit > 0
      /\ Interval \in Nat /\ Interval > 0 /\ TokensPerInterval \in Nat /\ TokensPerInterval > 0
      /\ BucketSize \in Nat /\ BucketSize > 0
  BY RowsAssumption
<1> QED BY <1>1, <1>2, <1>3, <1>4, <1>5

LEMMA Division ==
    ASSUME NEW x \in Int, NEW n \in Nat, n > 0
    PROVE  /\ x \div n \in Int
           /\ n * (x \div n) <= x /\ x < n * (x \div n) + n
OBVIOUS

LEMMA Multiples ==
    ASSUME NEW n \in Nat, n > 0, NEW j \in Int, NEW k \in Int
    PROVE  /\ n * j \in Int /\ n * j < n * k + n => j <= k
           /\ j < k => n * j + n <= n * k
           /\ j <= k => n * j <= n * k
<1>1. n * j \in Int /\ n * k \in Int
  OBVIOUS
<1>2. n * (k + 1) = n * k + n /\ n * (j + 1) = n * j + n
  OBVIOUS
<1>3. j <= k => n * j <= n * k
  OBVIOUS
<1>4. j < k => n * (j + 1) <= n * k
  OBVIOUS
<1>5. j > k => n * (k + 1) <= n * j
  OBVIOUS
<1> QED BY <1>1, <1>2, <1>3, <1>4, <1>5

LEMMA BoundFacts ==
    ASSUME NEW t \in Nat
    PROVE  /\ Bound(t) \in Nat /\ Bound(t) <= t /\ t < Bound(t) + Window
           /\ Bound(Bound(t)) = Bound(t) /\ Bound(0) = 0
           /\ \E k \in Nat : Bound(t) = Window * k
<1> USE Constants
<1>1. PICK k \in Int : k = t \div Window
  BY Division
<1>2. Bound(t) = Window * k
  BY <1>1 DEF Bound, Dynamo!Boundary
<1>3. Window * k <= t /\ t < Window * k + Window
  BY <1>1, Division
<1>4. k >= 0
  <2>1. Window * 0 < Window * k + Window
    BY <1>3
  <2> QED BY <2>1, Multiples
<1>5. Window * k \in Nat
  BY <1>4
<1>6. ASSUME NEW j \in Nat PROVE Bound(Window * j) = Window * j
  <2>1. PICK i \in Int : i = (Window * j) \div Window
    BY Division
  <2>2. Window * i <= Window * j /\ Window * j < Window * i + Window
    BY <2>1, Division
  <2>3. i = j
    <3>1. Window * i < Window * j + Window
      BY <2>2
    <3> QED BY <2>2, <3>1, Multiples
  <2> QED BY <2>1, <2>3 DEF Bound, Dynamo!Boundary
<1>7. Bound(0) = 0
  <2>1. Window * 0 = 0
    OBVIOUS
  <2> QED BY <1>6, <2>1
<1>8. k \in Nat
  BY <1>4
<1> QED BY <1>2, <1>3, <1>5, <1>6, <1>7, <1>8

\* A start of a window is a multiple of it, so that two of them are a window apart.
LEMMA Starts ==
    ASSUME NEW s \in Nat, Bound(s) = s
    PROVE  /\ \A t \in Nat : s <= t => s <= Bound(t)
           /\ \A t \in Nat : s < Bound(t) => s + Window <= Bound(t)
           /\ \A t \in Nat : s <= t /\ t < s + Window => Bound(t) = s
           /\ Bound(s + Window) = s + Window
           /\ s >= Window => Bound(s - Window) = s - Window
<1> USE Constants
<1>1. PICK j \in Nat : s = Window * j
  BY BoundFacts
<1>2. ASSUME NEW t \in Nat
      PROVE  /\ s <= t => s <= Bound(t)
             /\ s < Bound(t) => s + Window <= Bound(t)
             /\ s <= t /\ t < s + Window => Bound(t) = s
  <2>1. PICK k \in Nat : Bound(t) = Window * k
    BY BoundFacts
  <2>2. Bound(t) <= t /\ t < Bound(t) + Window /\ Bound(t) \in Nat
    BY BoundFacts
  <2>3. ASSUME s <= t PROVE s <= Bound(t)
    <3>1. Window * j < Window * k + Window
      BY <1>1, <2>1, <2>2, <2>3
    <3>2. Window * j <= Window * k
      BY <3>1, Multiples
    <3> QED BY <1>1, <2>1, <3>2
  <2>4. ASSUME s < Bound(t) PROVE s + Window <= Bound(t)
    <3>1. Window * j < Window * k /\ Window * j \in Int /\ Window * k \in Int
      BY <1>1, <2>1, <2>4
    <3>2. j < k
      <4>1. ~(k <= j)
        BY <3>1, Multiples
      <4> QED BY <4>1
    <3> QED BY <1>1, <2>1, <3>2, Multiples
  <2> QED BY <2>2, <2>3, <2>4
<1>3. ASSUME NEW i \in Nat PROVE Bound(Window * i) = Window * i
  <2>1. PICK t \in Nat : t = Window * i
    OBVIOUS
  <2>2. PICK k \in Nat : Bound(t) = Window * k
    BY BoundFacts
  <2>3. Bound(t) <= t /\ t < Bound(t) + Window /\ Bound(t) \in Nat
    BY BoundFacts
  <2>4. Window * i < Window * k + Window /\ Window * k <= Window * i
    BY <2>1, <2>2, <2>3
  <2>5. i <= k
    BY <2>4, Multiples
  <2>6. Window * i <= Window * k
    BY <2>5, Multiples
  <2> QED BY <2>1, <2>2, <2>4, <2>6
<1>4. s + Window = Window * (j + 1)
  BY <1>1
<1>5. s >= Window => j >= 1 /\ s - Window = Window * (j - 1)
  <2>1. s - Window = Window * (j - 1)
    BY <1>1
  <2>2. j = 0 => s = 0
    BY <1>1
  <2> QED BY <2>1, <2>2
<1>6. Bound(s + Window) = s + Window
  <2>1. j + 1 \in Nat
    OBVIOUS
  <2> QED BY <1>3, <1>4, <2>1
<1>7. s >= Window => Bound(s - Window) = s - Window
  <2>1. ASSUME s >= Window PROVE Bound(s - Window) = s - Window
    <3>1. j - 1 \in Nat
      BY <1>5, <2>1
    <3> QED BY <1>3, <1>5, <2>1, <3>1
  <2> QED BY <2>1
<1> QED BY <1>2, <1>6, <1>7

\* A refill goes no further than the clock, and to less than an interval from it; a
\* clock that is behind changes nothing.
LEMMA RefillFacts ==
    ASSUME NEW n \in Int, NEW l \in Int, NEW t \in Int
    PROVE  LET b == Refill(n, l, t) IN
           /\ b.tokens \in Int /\ b.last \in Int
           /\ t < b.last + Interval
           /\ \/ b.last = l /\ b.tokens = n
              \/ /\ l + Interval <= b.last /\ b.last <= t
                 /\ b.tokens = Least(BucketSize, n + ((t - l) \div Interval) * TokensPerInterval)
                 /\ (t - l) \div Interval \in Nat /\ (t - l) \div Interval > 0
                 /\ b.last = l + ((t - l) \div Interval) * Interval
           /\ t < l + Interval => b.last = l /\ b.tokens = n
<1> USE Constants
<1>1. PICK k \in Int : k = (t - l) \div Interval
  BY Division
<1>2. Interval * k <= t - l /\ t - l < Interval * k + Interval /\ Interval * k \in Int
  BY <1>1, Division
<1>3. Interval * k = k * Interval /\ k * TokensPerInterval \in Int
  OBVIOUS
<1>4. CASE k > 0
  <2>1. Refill(n, l, t) = [tokens |-> Least(BucketSize, n + k * TokensPerInterval),
                           last |-> l + k * Interval]
    BY <1>1, <1>4 DEF Refill
  <2>2. Interval <= Interval * k
    <3>1. Interval * 1 <= Interval * k
      BY <1>4, Multiples
    <3> QED BY <3>1
  <2>3. ~(t < l + Interval)
    BY <1>2, <2>2
  <2>4. Least(BucketSize, n + k * TokensPerInterval) \in Int
    BY <1>3 DEF Least
  <2> QED BY <1>1, <1>2, <1>3, <1>4, <2>1, <2>2, <2>3, <2>4
<1>5. CASE k <= 0
  <2>1. Refill(n, l, t) = [tokens |-> n, last |-> l]
    BY <1>1, <1>5 DEF Refill
  <2>2. Interval * k <= 0
    <3>1. Interval * k <= Interval * 0
      BY <1>5, Multiples
    <3> QED BY <3>1
  <2> QED BY <1>2, <2>1, <2>2
<1> QED BY <1>4, <1>5

-----------------------------------------------------------------------------
(* Rows and calls that the stores can be in                                *)

\* A row: refilled, hit and opened in the past; only an exact sliding window has hits.
Fine(r) ==
    /\ Sane(r) /\ r.at <= now
    /\ Live(r.hits, now) = 0
    /\ ~ Exact => r.hits = << >>
    /\ backend = "dynamo" /\ strategy # "TOKEN_BUCKET" => r.at \in Nat /\ Bound(r.at) = r.at

\* The legs of an operation in this store.
LegsOf(op) ==
    {"end"} \union
    (IF op = "undo"
     THEN {"start"} \union (IF backend = "dynamo" THEN {"clamp"} ELSE {})
                    \union (IF backend = "postgres" /\ strategy = "TOKEN_BUCKET"
                            THEN {"write"} ELSE {})
     ELSE IF op = "none" THEN {}
     ELSE {"start"} \union
          (IF backend = "postgres" /\ strategy = "TOKEN_BUCKET" THEN {"upsert"}
           ELSE IF backend # "dynamo" THEN {}
           ELSE IF strategy = "TOKEN_BUCKET" THEN {"write"}
           ELSE IF strategy = "FIXED_WINDOW" THEN {"restart"}
           ELSE {"roll", "restart"}))

FineCall(p) ==
    /\ p \in Calls /\ Fine(p.seen) /\ p.at <= now
    /\ p.leg # "end" => p.t <= now /\ now <= p.t + MaxLag
    /\ p.op = "none" => p.answer = "none"
    /\ p.op = "incr" => (p.leg = "end" <=> p.answer # "none")
    /\ p.op = "undo" => \/ p.answer = "allowed"
                        \/ p.answer = "blocked" /\ strategy # "TOKEN_BUCKET"
    /\ p.gone => p.answer # "none"
    /\ p.leg \in LegsOf(p.op)
    /\ p.leg = "clamp" => p.gone

Setting == /\ backend \in {"redis", "postgres", "mongo", "dynamo"}
           /\ strategy \in Strategies /\ now \in Nat

Base ==
    /\ Setting
    /\ lock \in Callers \union {NoCaller}
    /\ admin \in Nat /\ errors \in Nat
    /\ Fine(row)
    /\ call \in [Callers -> Calls]
    /\ \A c \in Callers : FineCall(call[c])

LEMMA NoRowFields ==
    /\ NoRow \in Rows /\ ~ Exists(NoRow)
    /\ NoRow.hits = << >> /\ NoRow.count = 0 /\ NoRow.prev = 0 /\ NoRow.at = 0 /\ NoRow.exp = -1
<1>1. << >> \in Seq(Nat)
  BY EmptyIs
<1> QED BY <1>1 DEF Rows, NoRow, Exists

LEMMA FixedFields ==
    ASSUME NEW n, NEW e
    PROVE  LET r == FixedRow(n, e) IN
           /\ r.hits = << >> /\ r.count = n /\ r.prev = 0 /\ r.at = 0 /\ r.exp = e
           /\ n \in Int /\ e \in Int => r \in Rows
<1>1. PICK z \in Rows : z = NoRow
  BY NoRowFields
<1>2. FixedRow(n, e) = [z EXCEPT !.count = n, !.exp = e]
  BY <1>1 DEF FixedRow
<1>3. n \in Int /\ e \in Int => FixedRow(n, e) \in Rows
  BY <1>2 DEF Rows
<1>4. LET r == FixedRow(n, e) IN r.hits = << >> /\ r.count = n /\ r.prev = 0 /\ r.at = 0 /\ r.exp = e
  BY DEF FixedRow, NoRow
<1> QED BY <1>3, <1>4

LEMMA SlidingFields ==
    ASSUME NEW h, NEW e
    PROVE  LET r == SlidingRow(h, e) IN
           /\ r.hits = h /\ r.count = 0 /\ r.prev = 0 /\ r.at = 0 /\ r.exp = e
           /\ h \in Seq(Nat) /\ e \in Int => r \in Rows
<1>1. PICK z \in Rows : z = NoRow
  BY NoRowFields
<1>2. SlidingRow(h, e) = [z EXCEPT !.hits = h, !.exp = e]
  BY <1>1 DEF SlidingRow
<1>3. h \in Seq(Nat) /\ e \in Int => SlidingRow(h, e) \in Rows
  BY <1>2 DEF Rows
<1>4. LET r == SlidingRow(h, e) IN r.hits = h /\ r.count = 0 /\ r.prev = 0 /\ r.at = 0 /\ r.exp = e
  BY DEF SlidingRow, NoRow
<1> QED BY <1>3, <1>4

LEMMA BucketFields ==
    ASSUME NEW n, NEW l, NEW e
    PROVE  LET r == BucketRow(n, l, e) IN
           /\ r.hits = << >> /\ r.count = n /\ r.prev = 0 /\ r.at = l /\ r.exp = e
           /\ n \in Int /\ l \in Int /\ e \in Int => r \in Rows
<1>1. PICK z \in Rows : z = NoRow
  BY NoRowFields
<1>2. BucketRow(n, l, e) = [z EXCEPT !.count = n, !.at = l, !.exp = e]
  BY <1>1 DEF BucketRow
<1>3. n \in Int /\ l \in Int /\ e \in Int => BucketRow(n, l, e) \in Rows
  BY <1>2 DEF Rows
<1>4. LET r == BucketRow(n, l, e) IN r.hits = << >> /\ r.count = n /\ r.prev = 0 /\ r.at = l /\ r.exp = e
  BY DEF BucketRow, NoRow
<1> QED BY <1>3, <1>4

LEMMA OpenedFields ==
    ASSUME NEW s, NEW n, NEW m, NEW t
    PROVE  LET r == Opened(s, n, m, t) IN
           /\ r.hits = << >> /\ r.count = n /\ r.prev = m /\ r.at = s /\ r.exp = t + 3 * Window
           /\ s \in Int /\ n \in Int /\ m \in Int /\ t \in Int => r \in Rows
<1>1. << >> \in Seq(Nat)
  BY EmptyIs
<1>2. t \in Int => t + 3 * Window \in Int
  BY Constants
<1> QED BY <1>1, <1>2 DEF Rows, NoRow, Opened

LEMMA StepFields ==
    /\ \A r, a : LET s == Ends(r, a) IN
          s.row = r /\ s.leg = "end" /\ s.seen = NoRow /\ s.answer = a
    /\ \A r, l, n, a : LET s == Yield(r, l, n, a) IN
          s.row = r /\ s.leg = l /\ s.seen = n /\ s.answer = a
    /\ \A b : Verdict(b) \in {"allowed", "blocked"} /\ (Verdict(b) = "blocked" <=> b)
BY DEF Ends, Yield, Verdict

\* Fine rows of each kind.
LEMMA FineNoRow == ASSUME Setting PROVE Fine(NoRow)
<1>1. Bound(0) = 0
  BY BoundFacts
<1>2. Live(<< >>, now) = 0
  BY EmptyIs
<1>3. 0 <= now
  BY DEF Setting
<1> QED BY <1>1, <1>2, <1>3, NoRowFields DEF Fine, Sane

LEMMA FineFixed ==
    ASSUME Setting, strategy = "FIXED_WINDOW", NEW n \in Int, NEW e \in Nat
    PROVE  Fine(FixedRow(n, e))
<1>1. Live(<< >>, now) = 0 /\ Bound(0) = 0 /\ 0 <= now
  BY EmptyIs, BoundFacts DEF Setting
<1>2. PICK r : r = FixedRow(n, e)
  OBVIOUS
<1>3. r \in Rows /\ r.hits = << >> /\ r.at = 0 /\ r.exp = e
  BY <1>2, FixedFields
<1>4. Exists(r)
  BY <1>3 DEF Exists
<1> QED BY <1>1, <1>2, <1>3, <1>4 DEF Fine, Sane

LEMMA FineBucket ==
    ASSUME Setting, strategy = "TOKEN_BUCKET", NEW n \in Int, NEW l \in Int, l <= now,
           NEW e \in Nat
    PROVE  Fine(BucketRow(n, l, e))
<1>1. Live(<< >>, now) = 0
  BY EmptyIs
<1>2. PICK r : r = BucketRow(n, l, e)
  OBVIOUS
<1>3. r \in Rows /\ r.hits = << >> /\ r.at = l /\ r.exp = e
  BY <1>2, BucketFields
<1>4. Exists(r)
  BY <1>3 DEF Exists
<1> QED BY <1>1, <1>2, <1>3, <1>4 DEF Fine, Sane

LEMMA FineSliding ==
    ASSUME Setting, Exact, NEW h \in Seq(Nat), Live(h, now) = 0, NEW e \in Nat
    PROVE  Fine(SlidingRow(h, e))
<1>1. Bound(0) = 0 /\ 0 <= now
  BY BoundFacts DEF Setting
<1>2. PICK r : r = SlidingRow(h, e)
  OBVIOUS
<1>3. r \in Rows /\ r.hits = h /\ r.at = 0 /\ r.exp = e
  BY <1>2, SlidingFields
<1>4. Exists(r)
  BY <1>3 DEF Exists
<1> QED BY <1>1, <1>2, <1>3, <1>4 DEF Fine, Sane

LEMMA FineOpened ==
    ASSUME Setting, ~ Exact, NEW s \in Nat, Bound(s) = s, s <= now, NEW n \in Int,
           NEW m \in Int, NEW t \in Nat
    PROVE  Fine(Opened(s, n, m, t))
<1>1. Live(<< >>, now) = 0
  BY EmptyIs
<1>2. PICK r : r = Opened(s, n, m, t)
  OBVIOUS
<1>3. r \in Rows /\ r.hits = << >> /\ r.at = s /\ r.exp = t + 3 * Window
  BY <1>2, OpenedFields, Constants
<1>4. Exists(r)
  BY <1>3, Constants DEF Exists
<1> QED BY <1>1, <1>2, <1>3, <1>4 DEF Fine, Sane

\* A fine row with another count, and possibly a later expiry, or with other hits.
LEMMA FineRecount ==
    ASSUME NEW r, Fine(r), Exists(r), NEW n \in Int, NEW e \in Nat
    PROVE  Fine([r EXCEPT !.count = n]) /\ Fine([r EXCEPT !.count = n, !.exp = e])
<1>1. r \in Rows
  BY DEF Fine, Sane
<1>2. PICK a : a = [r EXCEPT !.count = n]
  OBVIOUS
<1>3. PICK b : b = [r EXCEPT !.count = n, !.exp = e]
  OBVIOUS
<1>4. a \in Rows /\ a.hits = r.hits /\ a.at = r.at /\ a.exp = r.exp
  BY <1>1, <1>2 DEF Rows
<1>5. b \in Rows /\ b.hits = r.hits /\ b.at = r.at /\ b.exp = e
  <2>1. e \in Int
    OBVIOUS
  <2> QED BY <1>1, <1>3, <2>1 DEF Rows
<1>6. Exists(a) /\ Exists(b)
  BY <1>4, <1>5 DEF Exists
<1> QED BY <1>2, <1>3, <1>4, <1>5, <1>6 DEF Fine, Sane

LEMMA FineRehit ==
    ASSUME NEW r, Fine(r), Exists(r), Exact, NEW h \in Seq(Nat), Live(h, now) = 0
    PROVE  Fine([r EXCEPT !.hits = h])
<1>1. r \in Rows
  BY DEF Fine, Sane
<1>2. PICK a : a = [r EXCEPT !.hits = h]
  OBVIOUS
<1>3. a \in Rows /\ a.hits = h /\ a.at = r.at /\ a.exp = r.exp
  BY <1>1, <1>2 DEF Rows
<1>4. Exists(a)
  BY <1>3 DEF Exists
<1> QED BY <1>2, <1>3, <1>4 DEF Fine, Sane

LEMMA FineUnexpired == ASSUME Setting, NEW r, Fine(r) PROVE Fine(Unexpired(r))
BY FineNoRow DEF Unexpired

\* A bucket at the time of a caller.
LEMMA FilledFacts ==
    ASSUME Setting, NEW r, r \in Rows, NEW t \in Nat
    PROVE  LET b == Filled(r, t) IN
           /\ b.tokens \in Int /\ b.last \in Int /\ t < b.last + Interval
           /\ Exists(r) /\ r.at <= now /\ t <= now => b.last <= now
           /\ ~ Exists(r) => b.tokens = BucketSize /\ b.last = t
<1>1. r.count \in Int /\ r.at \in Int /\ t \in Int
  BY DEF Rows
<1>2. CASE Exists(r)
  <2>1. Filled(r, t) = Refill(r.count, r.at, t)
    BY <1>2 DEF Filled
  <2>2. PICK b : b = Refill(r.count, r.at, t)
    OBVIOUS
  <2>3. b.tokens \in Int /\ b.last \in Int /\ t < b.last + Interval /\ (b.last = r.at \/ b.last <= t)
    BY <1>1, <2>2, RefillFacts
  <2>4. ASSUME r.at <= now, t <= now PROVE b.last <= now
    <3>1. now \in Int
      BY DEF Setting
    <3> QED BY <1>1, <2>3, <2>4, <3>1
  <2> QED BY <1>2, <2>1, <2>2, <2>3, <2>4
<1>3. CASE ~ Exists(r)
  BY <1>1, <1>3, Constants DEF Filled
<1> QED BY <1>2, <1>3

LEMMA RewoundFacts ==
    ASSUME NEW r, r \in Rows, NEW t \in Nat
    PROVE  LET b == Rewound(r, t) IN
           /\ b.tokens \in Int /\ b.last \in Int /\ t < b.last + Interval /\ b.last <= t
           /\ t >= r.at => \/ b = Refill(r.count, r.at, t)
                           \/ /\ b.last = r.at /\ b.tokens = Least(BucketSize, r.count)
                              /\ t < r.at + Interval
<1> USE Constants
<1>1. r.count \in Int /\ r.at \in Int
  BY DEF Rows
<1>2. PICK k \in Int : k = (t - r.at) \div Interval
  BY <1>1, Division
<1>3. Interval * k <= t - r.at /\ t - r.at < Interval * k + Interval /\ Interval * k \in Int
  <2>1. PICK d \in Int : d = t - r.at
    BY <1>1
  <2>2. Interval * k <= d /\ d < Interval * k + Interval
    BY <1>2, <2>1, Division
  <2> QED BY <2>1, <2>2
<1>4. Interval * k = k * Interval /\ k * TokensPerInterval \in Int
  OBVIOUS
<1>5. Rewound(r, t) = [tokens |-> Least(BucketSize, r.count + k * TokensPerInterval),
                       last |-> r.at + k * Interval]
  BY <1>2 DEF Rewound
<1>6. Least(BucketSize, r.count + k * TokensPerInterval) \in Int
  BY <1>1, <1>4 DEF Least
<1>7. ASSUME t >= r.at
      PROVE  \/ Rewound(r, t) = Refill(r.count, r.at, t)
             \/ /\ Rewound(r, t).last = r.at /\ Rewound(r, t).tokens = Least(BucketSize, r.count)
                /\ t < r.at + Interval
  <2>1. k >= 0
    <3>1. Interval * 0 < Interval * k + Interval
      BY <1>1, <1>3, <1>7
    <3> QED BY <3>1, Multiples
  <2>2. CASE k > 0
    BY <1>2, <1>5, <2>2 DEF Refill
  <2>3. CASE k = 0
    <3>1. k * TokensPerInterval = 0 /\ k * Interval = 0
      BY <2>3
    <3> QED BY <1>1, <1>3, <1>4, <1>5, <3>1
  <2> QED BY <2>1, <2>2, <2>3
<1> QED BY <1>1, <1>3, <1>4, <1>5, <1>6, <1>7

LEMMA TakesFields ==
    ASSUME NEW b, b.tokens \in Int, b.last \in Int, NEW e \in Int
    PROVE  LET s == TakesFrom(b, e) IN
           /\ s.leg = "end" /\ s.seen = NoRow
           /\ b.tokens >= 1 => s.answer = "allowed" /\ s.row = BucketRow(b.tokens - 1, b.last, e)
           /\ b.tokens < 1 => s.answer = "blocked" /\ s.row = BucketRow(b.tokens, b.last, e)
<1>1. TakeTokens(b, 1).tokens = IF b.tokens >= 1 THEN b.tokens - 1 ELSE b.tokens
  BY DEF TakeTokens
<1>2. TakesFrom(b, e) = Ends(BucketRow(IF b.tokens >= 1 THEN b.tokens - 1 ELSE b.tokens, b.last, e),
                             Verdict(b.tokens < 1))
  BY <1>1 DEF TakesFrom
<1>3. b.tokens >= 1 <=> ~(b.tokens < 1)
  OBVIOUS
<1>4. Verdict(b.tokens < 1) = IF b.tokens < 1 THEN "blocked" ELSE "allowed"
  BY DEF Verdict
<1> QED BY <1>2, <1>3, <1>4, StepFields

-----------------------------------------------------------------------------
(* What the statements do to fine rows                                     *)

StepOk(s, r, p) ==
    /\ Fine(s.row) /\ s.leg \in LegsOf("incr") /\ s.seen \in {NoRow, r}
    /\ s.leg = "end" => s.answer \in {"allowed", "blocked", "threw"}
    /\ s.leg # "end" => s.answer = "none" /\ s.row = r
    /\ s.answer = "threw" => s.row = r /\ backend = "dynamo" /\ p.round >= MaxAttempts
    /\ s.leg = "start" => p.round < MaxAttempts

UndoOk(s) == Fine(s.row) /\ s.leg \in LegsOf("undo") \ {"start"}

LEMMA EndsOk ==
    ASSUME NEW x, Fine(x), NEW b, NEW r, NEW p
    PROVE  StepOk(Ends(x, Verdict(b)), r, p)
<1>1. PICK s : s = Ends(x, Verdict(b))
  OBVIOUS
<1>2. s.row = x /\ s.leg = "end" /\ s.seen = NoRow /\ s.answer \in {"allowed", "blocked"}
  BY <1>1, StepFields
<1>3. "end" \in LegsOf("incr")
  BY DEF LegsOf
<1> QED BY <1>1, <1>2, <1>3 DEF StepOk

LEMMA AgainOk ==
    ASSUME backend = "dynamo", NEW r, Fine(r), NEW p \in Calls
    PROVE  StepOk(Again(r, p), r, p)
<1>1. PICK s : s = Again(r, p)
  OBVIOUS
<1>2. /\ s.row = r /\ s.seen = NoRow
      /\ p.round < MaxAttempts => s.leg = "start" /\ s.answer = "none"
      /\ ~(p.round < MaxAttempts) => s.leg = "end" /\ s.answer = "threw"
  BY <1>1, StepFields DEF Again
<1>3. {"end", "start"} \subseteq LegsOf("incr")
  BY DEF LegsOf
<1>4. p.round \in Nat
  BY Constants DEF Calls
<1> QED BY <1>1, <1>2, <1>3, <1>4, Constants DEF StepOk

LEMMA YieldOk ==
    ASSUME NEW r, Fine(r), NEW leg \in LegsOf("incr") \ {"end", "start"}, NEW seen \in {NoRow, r},
           NEW p
    PROVE  StepOk(Yield(r, leg, seen, "none"), r, p)
BY StepFields DEF StepOk

LEMMA TakesOk ==
    ASSUME Setting, strategy = "TOKEN_BUCKET", NEW b, b.tokens \in Int, b.last \in Int,
           b.last <= now, NEW e \in Nat, NEW r, NEW p
    PROVE  StepOk(TakesFrom(b, e), r, p)
<1>1. PICK n \in Int : n = TakeTokens(b, 1).tokens
  BY DEF TakeTokens
<1>2. Fine(BucketRow(n, b.last, e))
  BY FineBucket
<1>3. PICK v : v = (b.tokens < 1)
  OBVIOUS
<1>4. TakesFrom(b, e) = Ends(BucketRow(n, b.last, e), Verdict(v))
  BY <1>1, <1>3 DEF TakesFrom
<1> QED BY <1>2, <1>4, EndsOk

LEMMA FineCount == ASSUME NEW r, Fine(r), r.count # 0 PROVE Exists(r) /\ r.exp \in Nat
BY NoRowFields DEF Fine, Sane, Rows, Exists

LEMMA FineExists ==
    ASSUME NEW r, Fine(r)
    PROVE  /\ r \in Rows /\ Sane(r) /\ r.hits \in Seq(Nat) /\ r.count \in Int /\ r.prev \in Int
           /\ r.at \in Int /\ r.exp \in Int /\ (Exists(r) <=> r.exp >= 0)
           /\ r.hits # << >> => Exists(r)
BY NoRowFields DEF Fine, Sane, Rows, Exists

\* Hits that are all in the past stay so.
LEMMA PastHits ==
    ASSUME NEW h \in Seq(Nat), NEW x \in Nat, Live(h, x) = 0
    PROVE  /\ \A cut \in Int : cut < x => Prune(h, cut) \in Seq(Nat) /\ Live(Prune(h, cut), x) = 0
           /\ \A t \in Nat : t <= x => /\ Insert(h, t) \in Seq(Nat) /\ Live(Insert(h, t), x) = 0
                                      /\ h \o Copies(1, t) \in Seq(Nat)
                                      /\ h \o Copies(1, t) # << >>
                                      /\ Live(h \o Copies(1, t), x) = 0
           /\ Sorted(h) \in Seq(Nat) /\ Live(Sorted(h), x) = 0
           /\ \A m \in BOOLEAN : /\ DropHits(h, 1, m) \in Seq(Nat) /\ Live(DropHits(h, 1, m), x) = 0
                                 /\ h = << >> => DropHits(h, 1, m) = << >>
<1>1. PICK i \in Int : i = x
  OBVIOUS
<1>2. ASSUME NEW cut \in Int, cut < x
      PROVE  Prune(h, cut) \in Seq(Nat) /\ Live(Prune(h, cut), x) = 0
  <2>1. Live(Prune(h, cut), i) = IF i <= cut THEN Live(h, cut) ELSE Live(h, i)
    BY LivePrune
  <2>2. ~(i <= cut)
    BY <1>1, <1>2
  <2> QED BY <1>1, <2>1, <2>2, LivePrune
<1>3. ASSUME NEW t \in Nat, t <= x
      PROVE  /\ Insert(h, t) \in Seq(Nat) /\ Live(Insert(h, t), x) = 0
             /\ h \o Copies(1, t) \in Seq(Nat) /\ Live(h \o Copies(1, t), x) = 0
             /\ h \o Copies(1, t) # << >>
  <2>1. Live(Insert(h, t), i) = Live(h, i) + IF t > i THEN 1 ELSE 0
    BY LiveInsert
  <2>2. Live(h \o Copies(1, t), i) = Live(h, i) + IF t > i THEN 1 ELSE 0
    BY LiveAppend
  <2>3. ~(t > i) /\ Live(h, i) = 0
    BY <1>1, <1>3
  <2>4. Insert(h, t) \in Seq(Nat)
    BY LiveInsert
  <2>5. h \o Copies(1, t) \in Seq(Nat) /\ Len(h \o Copies(1, t)) = Len(h) + 1
    BY LiveAppend
  <2>6. h \o Copies(1, t) # << >>
    <3>1. Len(h) \in Nat
      OBVIOUS
    <3>2. Len(h \o Copies(1, t)) # 0
      BY <2>5, <3>1
    <3> QED BY <3>2, EmptyIs
  <2> QED BY <1>1, <2>1, <2>2, <2>3, <2>4, <2>5, <2>6
<1>4. Sorted(h) \in Seq(Nat) /\ Live(Sorted(h), x) = 0
  BY LiveSorted
<1>5. ASSUME NEW m \in BOOLEAN
      PROVE  /\ DropHits(h, 1, m) \in Seq(Nat) /\ Live(DropHits(h, 1, m), x) = 0
             /\ h = << >> => DropHits(h, 1, m) = << >>
  <2>1. PICK d : d = DropHits(h, 1, m)
    OBVIOUS
  <2>2. d \in Seq(Nat) /\ (h = << >> => d = << >>)
    BY <2>1, LiveDrop
  <2>3. CASE h = << >>
    BY <2>1, <2>2, <2>3, EmptyIs
  <2>4. CASE h # << >>
    <3>1. PICK y : y = h[IF m THEN Len(h) ELSE 1]
      OBVIOUS
    <3>2. Live(h, i) = Live(d, i) + IF y > i THEN 1 ELSE 0
      BY <2>1, <2>4, <3>1, LiveDrop
    <3>3. Live(d, i) \in Nat
      BY <2>2, LiveType
    <3> QED BY <1>1, <2>1, <2>2, <3>2, <3>3
  <2> QED BY <2>3, <2>4
<1> QED BY <1>2, <1>3, <1>4, <1>5

LEMMA StepRedis ==
    ASSUME Setting, backend = "redis", NEW r, Fine(r), NEW p \in Calls, p.t <= now
    PROVE  StepOk(StepOf(r, p), r, p) /\ UndoOk(UndoOf(r, p))
<1>1. PICK e : e = Unexpired(r)
  OBVIOUS
<1>2. Fine(e) /\ Sane(r) /\ e.count \in Int /\ e.at \in Int /\ e.hits \in Seq(Nat) /\ e \in Rows
  BY <1>1, FineUnexpired, FineExists
<1>3. now \in Nat /\ now + Window \in Nat /\ now + 10 * Interval \in Nat /\ p.t \in Nat
  BY Constants DEF Setting, Calls
<1>4. "end" \in LegsOf("undo") \ {"start"}
  BY DEF LegsOf
<1>5. CASE strategy = "FIXED_WINDOW"
  <2>1. PICK n \in Nat : n = IF e.count = 0 THEN now + Window ELSE e.exp
    BY <1>2, <1>3, FineCount
  <2>2. Fine(FixedRow(e.count + 1, n))
    BY <1>2, <1>5, FineFixed
  <2>3. StepOf(r, p) = Ends(FixedRow(e.count + 1, n), Verdict(e.count + 1 > Limit))
    BY <1>1, <1>2, <1>5, <2>1, RedisFixed
  <2>4. UndoOf(r, p) = Ends(IF e.count <= 0 THEN e ELSE [e EXCEPT !.count = e.count - 1], "done")
    BY <1>1, <1>2, <1>5, RedisFixed
  <2>5. ASSUME ~(e.count <= 0) PROVE Fine([e EXCEPT !.count = e.count - 1])
    <3>1. Exists(e) /\ e.exp \in Nat /\ e.count - 1 \in Int
      BY <1>2, <2>5, FineCount
    <3> QED BY <1>2, <3>1, FineRecount
  <2>6. StepOk(StepOf(r, p), r, p)
    BY <2>2, <2>3, EndsOk
  <2>7. UndoOk(UndoOf(r, p))
    BY <1>2, <1>4, <2>4, <2>5, StepFields DEF UndoOk
  <2> QED BY <2>6, <2>7
<1>6. CASE strategy = "TOKEN_BUCKET"
  <2>1. PICK b : b = Filled(e, p.t)
    OBVIOUS
  <2>2. b.tokens \in Int /\ b.last \in Int /\ b.last <= now
    <3>1. /\ b.tokens \in Int /\ b.last \in Int
          /\ Exists(e) /\ e.at <= now => b.last <= now
          /\ ~ Exists(e) => b.last = p.t
      BY <1>2, <1>3, <2>1, FilledFacts
    <3> QED BY <1>2, <3>1 DEF Fine
  <2>3. StepOf(r, p) = TakesFrom(b, now + 10 * Interval)
    BY <1>1, <1>2, <1>6, <2>1, RedisBucket
  <2>4. StepOk(StepOf(r, p), r, p)
    BY <1>3, <1>6, <2>2, <2>3, TakesOk
  <2>5. UndoOf(r, p) = Ends(IF Exists(e) THEN [e EXCEPT !.count = Least(BucketSize, e.count + 1)] ELSE e,
                            "done")
    BY <1>1, <1>2, <1>6, RedisBucket
  <2>6. ASSUME Exists(e) PROVE Fine([e EXCEPT !.count = Least(BucketSize, e.count + 1)])
    <3>1. Least(BucketSize, e.count + 1) \in Int /\ e.exp \in Nat
      BY <1>2, <2>6, FineExists, Constants DEF Least
    <3> QED BY <1>2, <2>6, <3>1, FineRecount
  <2>7. UndoOk(UndoOf(r, p))
    BY <1>2, <1>4, <2>5, <2>6, StepFields DEF UndoOk
  <2> QED BY <2>4, <2>7
<1>7. CASE strategy = "SLIDING_WINDOW"
  <2>1. Exact
    BY <1>7 DEF Exact, Weighted
  <2>2. PICK cut \in Int : cut = p.t - Window
    BY <1>3, Constants
  <2>3. PICK o : o = Prune(e.hits, cut)
    OBVIOUS
  <2>4. Live(e.hits, now) = 0 /\ cut < now
    BY <1>2, <1>3, <2>2, Constants DEF Fine
  <2>5. PICK h : h = Insert(o, p.t)
    OBVIOUS
  <2>6. h \in Seq(Nat) /\ Live(h, now) = 0
    <3>1. o \in Seq(Nat) /\ Live(o, now) = 0
      BY <1>2, <1>3, <2>3, <2>4, PastHits
    <3> QED BY <1>3, <2>5, <3>1, PastHits
  <2>7. Fine(SlidingRow(h, now + Window))
    BY <1>3, <2>1, <2>6, FineSliding
  <2>8. PICK m \in BOOLEAN : m = p.newest
    BY DEF Calls
  <2>9. PICK d : d = DropHits(e.hits, 1, m)
    OBVIOUS
  <2>10. d \in Seq(Nat) /\ Live(d, now) = 0
    BY <1>2, <1>3, <2>4, <2>9, PastHits
  <2>11. StepOf(r, p) = Ends(SlidingRow(h, now + Window), Verdict(Len(h) > Limit))
    BY <1>1, <1>2, <1>7, <2>2, <2>3, <2>5, RedisSliding
  <2>12. UndoOf(r, p) = Ends(IF d = << >> THEN NoRow ELSE [r EXCEPT !.hits = d], "done")
    BY <1>1, <1>2, <1>7, <2>8, <2>9, RedisSliding
  <2>13. ASSUME d # << >> PROVE Fine([r EXCEPT !.hits = d])
    <3>1. e.hits # << >>
      BY <1>2, <2>9, <2>13, LiveDrop
    <3>2. r = e /\ Exists(r)
      BY <1>1, <3>1, NoRowFields, FineExists DEF Unexpired
    <3> QED BY <2>1, <2>10, <3>2, FineRehit
  <2>14. StepOk(StepOf(r, p), r, p)
    BY <2>7, <2>11, EndsOk
  <2>15. UndoOk(UndoOf(r, p))
    BY <1>4, <2>12, <2>13, FineNoRow, StepFields DEF UndoOk
  <2> QED BY <2>14, <2>15
<1> QED BY <1>5, <1>6, <1>7 DEF Setting, Strategies

LEMMA ServerBucketReturns ==
    ASSUME Setting, backend \in {"postgres", "mongo"}, strategy = "TOKEN_BUCKET",
           NEW r, Fine(r), NEW p \in Calls
    PROVE  UndoOk(UndoOf(r, p))
<1>1. r.count \in Int /\ p.seen.count \in Int /\ (Exists(r) => r.exp \in Nat)
  BY FineExists DEF Calls, Rows
<1>2. UndoOf(r, p) =
        Ends(IF Exists(r) THEN [r EXCEPT !.count = Least(BucketSize, Read(r, p) + 1)] ELSE r, "done")
  BY ServerBucketUndo
<1>3. ASSUME Exists(r) PROVE Fine([r EXCEPT !.count = Least(BucketSize, Read(r, p) + 1)])
  <2>1. Least(BucketSize, Read(r, p) + 1) \in Int
    BY <1>1, Constants DEF Least, Read
  <2> QED BY <1>1, <1>3, <2>1, FineRecount
<1>4. "end" \in LegsOf("undo") \ {"start"}
  BY DEF LegsOf
<1> QED BY <1>2, <1>3, <1>4, StepFields DEF UndoOk

LEMMA StepServer ==
    ASSUME Setting, backend \in {"postgres", "mongo"}, NEW r, Fine(r), NEW p \in Calls,
           p.t <= now, Fine(p.seen), p.leg \in LegsOf("incr") \ {"end"}
    PROVE  StepOk(StepOf(r, p), r, p) /\ UndoOk(UndoOf(r, p))
<1>1. Sane(r) /\ r.count \in Int /\ r.at \in Int /\ r.hits \in Seq(Nat) /\ r \in Rows
  BY FineExists
<1>2. now \in Nat /\ p.t \in Nat /\ p.t + Window \in Nat
  BY Constants DEF Setting, Calls
<1>3. "end" \in LegsOf("undo") \ {"start"}
  BY DEF LegsOf
<1>4. Exists(r) => r.exp \in Nat
  BY FineExists
<1>5. CASE strategy = "FIXED_WINDOW"
  <2>1. StepOf(r, p) =
          IF Exists(r) /\ r.exp > p.t
          THEN Ends([r EXCEPT !.count = r.count + 1], Verdict(r.count + 1 > Limit))
          ELSE Ends(FixedRow(1, p.t + Window), Verdict(1 > Limit))
    BY <1>1, <1>5, ServerFixed
  <2>2. UndoOf(r, p) =
          Ends(IF Exists(r) THEN [r EXCEPT !.count = Greatest(0, r.count - 1)] ELSE r, "done")
    BY <1>1, <1>5, ServerFixed
  <2>3. Fine(FixedRow(1, p.t + Window))
    BY <1>2, <1>5, FineFixed
  <2>4. ASSUME Exists(r)
        PROVE  /\ Fine([r EXCEPT !.count = r.count + 1])
               /\ Fine([r EXCEPT !.count = Greatest(0, r.count - 1)])
    <3>1. r.count + 1 \in Int /\ Greatest(0, r.count - 1) \in Int
      BY <1>1 DEF Greatest
    <3> QED BY <1>4, <2>4, <3>1, FineRecount
  <2>5. StepOk(StepOf(r, p), r, p)
    BY <2>1, <2>3, <2>4, EndsOk
  <2>6. UndoOk(UndoOf(r, p))
    BY <1>3, <2>2, <2>4, StepFields DEF UndoOk
  <2> QED BY <2>5, <2>6
<1>6. CASE strategy = "TOKEN_BUCKET"
  <2>1. UndoOk(UndoOf(r, p))
    BY <1>6, ServerBucketReturns
  <2>2. ASSUME NEW b, b.tokens \in Int, b.last \in Int, b.last <= now, p.t < b.last + Interval
        PROVE  StepOk(TakesFrom(b, b.last + Interval), r, p)
    <3>1. b.last + Interval \in Nat
      BY <1>2, <2>2, Constants
    <3> QED BY <1>6, <2>2, <3>1, TakesOk
  <2>3. ASSUME NEW x, Fine(x), NEW b, b = Filled(x, p.t)
        PROVE  b.tokens \in Int /\ b.last \in Int /\ b.last <= now /\ p.t < b.last + Interval
    <3>1. x \in Rows /\ x.at <= now
      BY <2>3, FineExists DEF Fine
    <3>2. /\ b.tokens \in Int /\ b.last \in Int /\ p.t < b.last + Interval
          /\ Exists(x) /\ x.at <= now => b.last <= now
          /\ ~ Exists(x) => b.last = p.t
      BY <1>2, <2>3, <3>1, FilledFacts
    <3> QED BY <3>1, <3>2
  <2>4. CASE backend = "postgres"
    <3>1. p.leg \in {"start", "upsert"}
      BY <1>6, <2>4 DEF LegsOf
    <3>2. CASE p.leg = "start"
      <4>1. StepOf(r, p) = Yield(r, "upsert", r, "none")
        BY <1>1, <1>6, <2>4, <3>1, <3>2, PgBucket
      <4>2. "upsert" \in LegsOf("incr") \ {"end", "start"}
        BY <1>6, <2>4 DEF LegsOf
      <4> QED BY <2>1, <4>1, <4>2, YieldOk
    <3>3. CASE p.leg = "upsert"
      <4>1. PICK b : b = Filled(p.seen, p.t)
        OBVIOUS
      <4>2. StepOf(r, p) = TakesFrom(b, b.last + Interval)
        BY <1>1, <1>6, <2>4, <3>1, <3>3, <4>1, PgBucket
      <4> QED BY <2>1, <2>2, <2>3, <4>1, <4>2
    <3> QED BY <3>1, <3>2, <3>3
  <2>5. CASE backend = "mongo"
    <3>1. PICK b : b = IF Exists(r) THEN Rewound(r, p.t) ELSE Filled(r, p.t)
      OBVIOUS
    <3>2. b.tokens \in Int /\ b.last \in Int /\ b.last <= now /\ p.t < b.last + Interval
      <4>1. CASE Exists(r)
        <5>1. b.tokens \in Int /\ b.last \in Int /\ b.last <= p.t /\ p.t < b.last + Interval
          BY <1>1, <1>2, <3>1, <4>1, RewoundFacts
        <5> QED BY <1>2, <5>1
      <4>2. CASE ~ Exists(r)
        BY <2>3, <3>1, <4>2
      <4> QED BY <4>1, <4>2
    <3>3. StepOf(r, p) = TakesFrom(b, b.last + Interval)
      BY <1>1, <1>6, <2>5, <3>1, MongoBucket
    <3> QED BY <2>1, <2>2, <3>2, <3>3
  <2> QED BY <2>4, <2>5
<1>7. CASE strategy = "SLIDING_WINDOW"
  <2>1. Exact /\ Live(r.hits, now) = 0
    BY <1>7 DEF Exact, Weighted, Fine
  <2>2. PICK cut \in Int : cut = p.t - Window /\ cut < now
    BY <1>2, Constants
  <2>3. PICK o : o = Prune(r.hits, cut)
    OBVIOUS
  <2>4. o \in Seq(Nat) /\ Live(o, now) = 0
    BY <1>1, <1>2, <2>1, <2>2, <2>3, PastHits
  <2>5. PICK m \in BOOLEAN : m = p.newest
    BY DEF Calls
  <2>6. PICK d : d = DropHits(r.hits, 1, m)
    OBVIOUS
  <2>7. d \in Seq(Nat) /\ Live(d, now) = 0 /\ (r.hits = << >> => d = << >>)
    BY <1>1, <1>2, <2>1, <2>6, PastHits
  <2>8. CASE backend = "postgres"
    <3>1. PICK so : so = Sorted(o)
      OBVIOUS
    <3>2. so \in Seq(Nat) /\ Live(so, now) = 0
      BY <1>2, <2>4, <3>1, PastHits
    <3>3. PICK h : h = so \o Copies(1, p.t)
      OBVIOUS
    <3>4. h \in Seq(Nat) /\ Live(h, now) = 0 /\ h # << >>
      BY <1>2, <3>2, <3>3, PastHits
    <3>5. PICK one : one = Copies(1, p.t)
      OBVIOUS
    <3>6. one \in Seq(Nat) /\ Live(one, now) = 0
      <4>1. Live(one, now) = IF p.t > now THEN 1 ELSE 0
        BY <1>2, <3>5, LiveOne
      <4>2. ~(p.t > now)
        BY <1>2
      <4> QED BY <1>2, <3>5, <4>1, <4>2, LiveOne
    <3>7. /\ StepOf(r, p) =
               IF Exists(r) THEN Ends(SlidingRow(h, Pg!Newest(h)), Verdict(Len(h) > Limit))
               ELSE Ends(SlidingRow(one, p.t + Window), Verdict(1 > Limit))
          /\ UndoOf(r, p) =
               IF ~ Exists(r) THEN Ends(r, "done")
               ELSE IF d = << >> THEN Ends(NoRow, "done")
               ELSE Ends(SlidingRow(d, Pg!Newest(d) + Window), "done")
      BY <1>7, <2>2, <2>3, <2>5, <2>6, <2>8, <3>1, <3>3, <3>5, PgSliding
    <3>8. Pg!Newest(h) \in 0..now
      BY <1>2, <3>4, GreatestStamp
    <3>9. Fine(SlidingRow(h, Pg!Newest(h))) /\ Fine(SlidingRow(one, p.t + Window))
      <4>1. PICK x \in Nat : x = Pg!Newest(h)
        BY <3>8
      <4> QED BY <1>2, <2>1, <3>4, <3>6, <4>1, FineSliding
    <3>10. ASSUME d # << >> PROVE Fine(SlidingRow(d, Pg!Newest(d) + Window))
      <4>1. Pg!Newest(d) \in 0..now
        BY <1>2, <2>7, <3>10, GreatestStamp
      <4>2. PICK x \in Nat : x = Pg!Newest(d) + Window
        BY <1>2, <4>1, Constants
      <4> QED BY <2>1, <2>7, <4>2, FineSliding
    <3>11. StepOk(StepOf(r, p), r, p)
      BY <3>7, <3>9, EndsOk
    <3>12. UndoOk(UndoOf(r, p))
      BY <1>3, <3>7, <3>10, FineNoRow, StepFields DEF UndoOk
    <3> QED BY <3>11, <3>12
  <2>9. CASE backend = "mongo"
    <3>1. PICK h : h = o \o Copies(1, p.t)
      OBVIOUS
    <3>2. h \in Seq(Nat) /\ Live(h, now) = 0
      BY <1>2, <2>4, <3>1, PastHits
    <3>3. /\ StepOf(r, p) = Ends(SlidingRow(h, p.t + Window), Verdict(Len(h) > Limit))
          /\ UndoOf(r, p) = Ends(IF Exists(r) THEN [r EXCEPT !.hits = d] ELSE r, "done")
      BY <1>7, <2>2, <2>3, <2>5, <2>6, <2>9, <3>1, MongoSliding
    <3>4. Fine(SlidingRow(h, p.t + Window))
      BY <1>2, <2>1, <3>2, FineSliding
    <3>5. Exists(r) => Fine([r EXCEPT !.hits = d])
      BY <2>1, <2>7, FineRehit
    <3>6. StepOk(StepOf(r, p), r, p)
      BY <3>3, <3>4, EndsOk
    <3>7. UndoOk(UndoOf(r, p))
      BY <1>3, <3>3, <3>5, StepFields DEF UndoOk
    <3> QED BY <3>6, <3>7
  <2> QED BY <2>8, <2>9
<1> QED BY <1>5, <1>6, <1>7 DEF Setting, Strategies

LEMMA StepDynamo ==
    ASSUME Setting, backend = "dynamo", NEW r, Fine(r), NEW p \in Calls,
           p.t <= now, Fine(p.seen), p.leg \in LegsOf("incr") \ {"end"}
    PROVE  StepOk(StepOf(r, p), r, p)
<1>1. Sane(r) /\ r.count \in Int /\ r.at \in Int /\ r \in Rows
  BY FineExists
<1>2. now \in Nat /\ p.t \in Nat /\ p.t + 3 * Window \in Nat /\ p.t + 3 * Interval \in Nat
  BY Constants DEF Setting, Calls
<1>3. PICK b \in Nat : b = Bound(p.t) /\ Bound(b) = b /\ b <= now
  <2>1. Bound(p.t) \in Nat /\ Bound(p.t) <= p.t /\ Bound(Bound(p.t)) = Bound(p.t)
    BY <1>2, BoundFacts
  <2> QED BY <1>2, <2>1
<1>4. ~ Exact
  BY DEF Exact, Weighted
<1>5. ASSUME NEW n \in Int PROVE Fine(Opened(b, 1, n, p.t))
  <2>1. PICK one \in Int : one = 1
    OBVIOUS
  <2>2. Fine(Opened(b, one, n, p.t))
    BY <1>2, <1>3, <1>4, <1>5, FineOpened
  <2> QED BY <2>1, <2>2
<1>6. Exists(r) => Fine(Raised(r, p.t))
  <2>1. Raised(r, p.t) = [r EXCEPT !.count = r.count + 1, !.exp = p.t + 3 * Window]
    BY DEF Raised
  <2>2. PICK n \in Int : n = r.count + 1
    BY <1>1
  <2>3. PICK e \in Nat : e = p.t + 3 * Window
    BY <1>2
  <2>4. Exists(r) => Fine([r EXCEPT !.count = n, !.exp = e])
    BY FineRecount
  <2> QED BY <2>1, <2>2, <2>3, <2>4
<1>7. StepOk(Again(r, p), r, p)
  BY AgainOk
<1>8. CASE strategy = "FIXED_WINDOW"
  <2>1. p.leg \in {"start", "restart"} /\ "restart" \in LegsOf("incr") \ {"end", "start"}
    BY <1>8 DEF LegsOf
  <2>2. /\ p.leg = "start" => StepOf(r, p) =
             IF Exists(r) /\ r.at = b
             THEN Ends(Raised(r, p.t), Verdict(Greatest(0, r.count + 1) > Limit))
             ELSE Yield(r, "restart", NoRow, "none")
        /\ p.leg = "restart" => StepOf(r, p) =
             IF ~ Exists(r) \/ r.at < b
             THEN Ends(Opened(b, 1, 0, p.t), Verdict(1 > Limit)) ELSE Again(r, p)
    BY <1>1, <1>3, <1>8, DynamoFixed
  <2>3. StepOk(Yield(r, "restart", NoRow, "none"), r, p)
    BY <2>1, YieldOk
  <2>4. StepOk(Ends(Opened(b, 1, 0, p.t), Verdict(1 > Limit)), r, p)
    BY <1>5, EndsOk
  <2>5. Exists(r) => StepOk(Ends(Raised(r, p.t), Verdict(Greatest(0, r.count + 1) > Limit)), r, p)
    BY <1>6, EndsOk
  <2> QED BY <1>7, <2>1, <2>2, <2>3, <2>4, <2>5
<1>9. CASE strategy = "SLIDING_WINDOW"
  <2>1. /\ p.leg \in {"start", "roll", "restart"}
        /\ {"restart", "roll"} \subseteq LegsOf("incr") \ {"end", "start"}
    BY <1>9 DEF LegsOf
  <2>2. /\ p.leg = "start" => StepOf(r, p) =
             IF Exists(r) /\ r.at = b THEN Weighs(Raised(r, p.t), p.t)
             ELSE Yield(r, "roll", NoRow, "none")
        /\ p.leg = "roll" => StepOf(r, p) =
             IF Exists(r) /\ r.at = b - Window THEN Weighs(Opened(b, 1, r.count, p.t), p.t)
             ELSE Yield(r, "restart", NoRow, "none")
        /\ p.leg = "restart" => StepOf(r, p) =
             IF ~ Exists(r) \/ r.at < b
             THEN Weighs(Opened(b, 1, 0, p.t), p.t) ELSE Again(r, p)
    BY <1>3, <1>9, DynamoSliding
  <2>3. StepOk(Yield(r, "restart", NoRow, "none"), r, p) /\ StepOk(Yield(r, "roll", NoRow, "none"), r, p)
    BY <2>1, YieldOk
  <2>4. ASSUME NEW x, Fine(x) PROVE StepOk(Weighs(x, p.t), r, p)
    BY <2>4, EndsOk DEF Weighs
  <2>5. Fine(Opened(b, 1, r.count, p.t)) /\ Fine(Opened(b, 1, 0, p.t))
    BY <1>1, <1>5
  <2> QED BY <1>6, <1>7, <2>1, <2>2, <2>3, <2>4, <2>5
<1>10. CASE strategy = "TOKEN_BUCKET"
  <2>1. p.leg \in {"start", "write"} /\ "write" \in LegsOf("incr") \ {"end", "start"}
    BY <1>10 DEF LegsOf
  <2>2. PICK f : f = Filled(p.seen, p.t)
    OBVIOUS
  <2>3. /\ p.leg = "start" => StepOf(r, p) = Yield(r, "write", r, "none")
        /\ p.leg = "write" => StepOf(r, p) =
             IF Unchanged(r, p.seen) THEN TakesFrom(f, p.t + 3 * Interval) ELSE Again(r, p)
    BY <1>1, <1>10, <2>2, DynamoBucket
  <2>4. f.tokens \in Int /\ f.last \in Int /\ f.last <= now
    <3>1. p.seen \in Rows /\ p.seen.at <= now
      BY FineExists DEF Fine
    <3>2. /\ f.tokens \in Int /\ f.last \in Int
          /\ Exists(p.seen) /\ p.seen.at <= now => f.last <= now
          /\ ~ Exists(p.seen) => f.last = p.t
      BY <1>2, <2>2, <3>1, FilledFacts
    <3> QED BY <3>1, <3>2
  <2>5. StepOk(TakesFrom(f, p.t + 3 * Interval), r, p)
    BY <1>2, <1>10, <2>4, TakesOk
  <2>6. StepOk(Yield(r, "write", r, "none"), r, p)
    BY <2>1, YieldOk
  <2> QED BY <1>7, <2>1, <2>3, <2>5, <2>6
<1> QED BY <1>8, <1>9, <1>10 DEF Setting, Strategies

LEMMA UndoDynamo ==
    ASSUME Setting, backend = "dynamo", NEW r, Fine(r), NEW p \in Calls,
           p.leg \in LegsOf("undo") \ {"end"}
    PROVE  UndoOk(UndoOf(r, p))
<1>1. Sane(r) /\ r.count \in Int /\ r.at \in Int /\ r \in Rows /\ (Exists(r) => r.exp \in Nat)
  BY FineExists
<1>2. p.t \in Nat /\ p.t + 3 * Interval \in Nat
  BY Constants DEF Calls
<1>3. p.leg \in {"start", "clamp"} /\ {"end", "clamp"} \subseteq LegsOf("undo") \ {"start"}
  BY DEF LegsOf
<1>4. ASSUME Exists(r)
      PROVE  /\ Fine([r EXCEPT !.count = r.count - 1])
             /\ Fine([r EXCEPT !.count = 0])
             /\ Fine([r EXCEPT !.count = BucketSize])
             /\ Fine([r EXCEPT !.count = r.count + 1, !.exp = p.t + 3 * Interval])
  <2>1. r.count + 1 \in Int /\ r.count - 1 \in Int /\ BucketSize \in Int /\ 0 \in Int /\ r.exp \in Nat
    BY <1>1, <1>4, Constants
  <2>2. PICK e \in Nat : e = p.t + 3 * Interval
    BY <1>2
  <2>3. \A n \in Int : Fine([r EXCEPT !.count = n]) /\ Fine([r EXCEPT !.count = n, !.exp = e])
    BY <1>4, FineRecount
  <2> QED BY <2>1, <2>2, <2>3
<1>5. CASE strategy # "TOKEN_BUCKET"
  <2>1. PICK d : d = [r EXCEPT !.count = r.count - 1]
    OBVIOUS
  <2>2. /\ p.leg = "start" => UndoOf(r, p) =
             IF ~ (Exists(r) /\ r.at = Bound(p.t)) THEN Ends(r, "done")
             ELSE IF r.count - 1 < 0 THEN Yield(d, "clamp", NoRow, "none")
             ELSE Ends(d, "done")
        /\ p.leg = "clamp" => UndoOf(r, p) =
             Ends(IF Exists(r) /\ r.at = Bound(p.t) /\ r.count < 0 THEN [r EXCEPT !.count = 0] ELSE r,
                  "done")
    BY <1>5, <2>1, DynamoWindowUndo
  <2>3. CASE p.leg = "start"
    BY <1>3, <1>4, <2>1, <2>2, <2>3, StepFields DEF UndoOk
  <2>4. CASE p.leg = "clamp"
    BY <1>3, <1>4, <2>1, <2>2, <2>4, StepFields DEF UndoOk
  <2> QED BY <1>3, <2>3, <2>4
<1>6. CASE strategy = "TOKEN_BUCKET"
  <2>1. PICK d : d = [r EXCEPT !.count = r.count + 1, !.exp = p.t + 3 * Interval]
    OBVIOUS
  <2>2. /\ p.leg = "start" => UndoOf(r, p) =
             IF ~ Exists(r) THEN Ends(r, "done")
             ELSE IF r.count + 1 > BucketSize THEN Yield(d, "clamp", NoRow, "none")
             ELSE Ends(d, "done")
        /\ p.leg = "clamp" => UndoOf(r, p) =
             Ends(IF Exists(r) /\ r.count > BucketSize THEN [r EXCEPT !.count = BucketSize]
                  ELSE r, "done")
    BY <1>1, <1>6, <2>1, DynamoBucketUndo
  <2>3. CASE p.leg = "start"
    BY <1>3, <1>4, <2>1, <2>2, <2>3, StepFields DEF UndoOk
  <2>4. CASE p.leg = "clamp"
    BY <1>3, <1>4, <2>1, <2>2, <2>4, StepFields DEF UndoOk
  <2> QED BY <1>3, <2>3, <2>4
<1> QED BY <1>5, <1>6

\* A statement leaves a fine row, and a caller with a leg of its operation or an answer.
LEMMA StepFine ==
    ASSUME Setting, NEW r, Fine(r), NEW p \in Calls, p.t <= now, Fine(p.seen),
           p.leg \in LegsOf("incr") \ {"end"}
    PROVE  StepOk(StepOf(r, p), r, p)
BY StepRedis, StepServer, StepDynamo DEF Setting

LEMMA UndoFine ==
    ASSUME Setting, NEW r, Fine(r), NEW p \in Calls, p.t <= now, Fine(p.seen),
           p.leg \in LegsOf("undo") \ {"end"}
    PROVE  UndoOk(UndoOf(r, p))
<1>1. CASE backend = "redis"
  BY <1>1, StepRedis
<1>2. CASE backend = "dynamo"
  BY <1>2, UndoDynamo
<1>4. CASE backend \in {"postgres", "mongo"} /\ strategy = "TOKEN_BUCKET"
  BY <1>4, ServerBucketReturns
<1>3. CASE backend \in {"postgres", "mongo"} /\ strategy # "TOKEN_BUCKET"
  <2>1. p.leg = "start"
    BY <1>3 DEF LegsOf
  <2>2. "start" \in LegsOf("incr") \ {"end"}
    BY DEF LegsOf
  <2> QED BY <1>3, <2>1, <2>2, StepServer
<1> QED BY <1>1, <1>2, <1>3, <1>4 DEF Setting

-----------------------------------------------------------------------------
(* The base invariant                                                      *)

\* What set() leaves.
LEMMA SetIs ==
    ASSUME Setting, NEW n \in Nat
    PROVE  /\ strategy = "FIXED_WINDOW" /\ backend # "dynamo" => SetRow(n) = FixedRow(n, now + Window)
           /\ strategy = "TOKEN_BUCKET" => \E e \in Nat : SetRow(n) = BucketRow(TokensAfterSet(n), now, e)
           /\ Exact => \/ SetRow(n) = SlidingRow(Copies(n, now), now + Window)
                       \/ SetRow(n) = NoRow /\ n = 0
           /\ backend = "dynamo" /\ strategy # "TOKEN_BUCKET" => SetRow(n) = Opened(Bound(now), n, 0, now)
<1>1. now \in Nat /\ now + 10 * Interval \in Nat /\ now + 3 * Interval \in Nat /\ now + Interval \in Nat
  BY Constants DEF Setting
<1>2. CASE backend = "redis"
  <2>1. SetRow(n) = Redis!SetRow(strategy, n, now, now)
    BY <1>2 DEF SetRow
  <2> QED BY <1>1, <1>2, <2>1, RedisOps DEF Redis!SetRow, Redis!SlidingSet, Redis!BucketSync,
                                            Exact, Setting, Strategies
<1>3. CASE backend = "postgres"
  <2>1. SetRow(n) = Pg!SetRow(strategy, n, now, now)
    BY <1>3 DEF SetRow
  <2> QED BY <1>1, <1>3, <2>1, PgOps DEF Pg!SetRow, Exact, Setting, Strategies
<1>4. CASE backend = "mongo"
  <2>1. SetRow(n) = Mongo!SetRow(strategy, n, now, now)
    BY <1>4 DEF SetRow
  <2> QED BY <1>1, <1>4, <2>1, MongoOps DEF Mongo!SetRow, Exact, Setting, Strategies
<1>5. CASE backend = "dynamo"
  <2>1. SetRow(n) = Dynamo!SetRow(strategy, n, now, now)
    BY <1>5 DEF SetRow
  <2> QED BY <1>1, <1>5, <2>1, DynamoOps, DynamoWindowOps
             DEF Dynamo!SetRow, Bound, Exact, Weighted, Setting, Strategies
<1> QED BY <1>2, <1>3, <1>4, <1>5 DEF Setting

LEMMA SetFine == ASSUME Setting, NEW n \in Nat PROVE Fine(SetRow(n))
<1>1. now \in Nat /\ now + Window \in Nat /\ n \in Int
  BY Constants DEF Setting
<1>2. CASE strategy = "FIXED_WINDOW" /\ backend # "dynamo"
  BY <1>1, <1>2, SetIs, FineFixed
<1>3. CASE strategy = "TOKEN_BUCKET"
  <2>1. TokensAfterSet(n) \in Int
    BY Constants DEF TokensAfterSet
  <2>2. PICK e \in Nat : SetRow(n) = BucketRow(TokensAfterSet(n), now, e)
    BY <1>3, SetIs
  <2>3. PICK l \in Int : l = now /\ l <= now
    BY <1>1
  <2> QED BY <1>3, <2>1, <2>2, <2>3, FineBucket
<1>4. CASE Exact
  <2>1. Copies(n, now) \in Seq(Nat) /\ Live(Copies(n, now), now) = 0
    BY <1>1, LiveCopies
  <2> QED BY <1>1, <1>4, <2>1, SetIs, FineSliding, FineNoRow
<1>5. CASE backend = "dynamo" /\ strategy # "TOKEN_BUCKET" /\ ~ Exact
  <2>1. Bound(now) \in Nat /\ Bound(now) <= now /\ Bound(Bound(now)) = Bound(now)
    BY <1>1, BoundFacts
  <2>2. PICK z \in Int : z = 0
    OBVIOUS
  <2>3. Fine(Opened(Bound(now), n, z, now))
    BY <1>1, <1>5, <2>1, FineOpened
  <2> QED BY <1>5, <2>2, <2>3, SetIs
<1> QED BY <1>2, <1>3, <1>4, <1>5 DEF Exact, Weighted, Setting, Strategies

LEMMA Steps ==
    /\ \A c : IncrementStep(c) = StepOf(row, call[c])
    /\ \A c : DecrementStep(c) = UndoOf(row, call[c])
BY DEF IncrementStep, DecrementStep, StepOf, UndoOf

\* The call of an increment after one of its statements.
AfterStep(p, s) ==
    [p EXCEPT !.leg = s.leg, !.seen = s.seen,
              !.round = IF s.leg = "end" THEN 1 ELSE IF s.leg = "start" THEN p.round + 1 ELSE p.round,
              !.answer = s.answer,
              !.t = IF s.leg = "end" /\ s.answer # "threw" THEN 0 ELSE p.t,
              !.at = IF s.leg = "end" THEN now ELSE p.at,
              !.filed = IF s.leg = "end" THEN FiledUnder(s.row, p.t) ELSE p.filed]

AfterError(p) ==
    [p EXCEPT !.leg = "end", !.round = 1, !.seen = NoRow, !.t = 0,
              !.at = IF p.op = "incr" THEN now ELSE p.at,
              !.answer = IF p.op = "incr" THEN "failed" ELSE p.answer]

Setup == <<backend, strategy>>

\* The steps of the system, as they change the row and the calls.
Move(c, p) == call' = [call EXCEPT ![c] = p]

LEMMA NextMoves ==
    ASSUME Base, [Next]_vars
    PROVE  /\ UNCHANGED Setup
           /\ \/ UNCHANGED vars
              \/ \E c \in Callers : Increment(c) \/ Decrement(c)
              \/ \E c \in Callers : IncrementStatement(c)
              \/ \E c \in Callers : Snapshot(c)
              \/ \E c \in Callers : DecrementStatement(c)
              \/ \E c \in Callers : StoreError(c)
              \/ Reset
              \/ \E n \in 0..Limit : Set(n)
              \/ Expire
              \/ Tick
<1>1. UNCHANGED vars => UNCHANGED Setup
  BY DEF vars, Setup
<1>2. ASSUME NEW c \in Callers PROVE Increment(c) \/ Decrement(c) => UNCHANGED Setup
  BY DEF Increment, Decrement, Setup
<1>3. ASSUME NEW c \in Callers PROVE IncrementStatement(c) => UNCHANGED Setup
  BY DEF IncrementStatement, Setup
<1>4. ASSUME NEW c \in Callers PROVE Snapshot(c) \/ DecrementStatement(c) => UNCHANGED Setup
  BY DEF Snapshot, DecrementStatement, Setup
<1>5. ASSUME NEW c \in Callers PROVE StoreError(c) => UNCHANGED Setup
  BY DEF StoreError, Setup
<1>6. Reset \/ Expire \/ Tick => UNCHANGED Setup
  BY DEF Reset, Expire, Tick, Setup
<1>7. ASSUME NEW n \in 0..Limit PROVE Set(n) => UNCHANGED Setup
  BY DEF Set, Setup
<1> QED BY <1>1, <1>2, <1>3, <1>4, <1>5, <1>6, <1>7 DEF Next

LEMMA IncrementMoves ==
    ASSUME Base, NEW c \in Callers, IncrementStatement(c)
    PROVE  LET p == call[c]  s == StepOf(row, p) IN
           /\ p.op = "incr" /\ p.leg # "end" /\ p.answer = "none" /\ ~ p.gone
           /\ Unlocked(c) /\ StepOk(s, row, p)
           /\ row' = s.row /\ Move(c, AfterStep(p, s))
           /\ now' = now /\ admin' = admin /\ errors' = errors
           /\ lock' = LockAfter(c, s)
           /\ leaks' = leaks \union (IF InsertRace(c) THEN {"insertRace"} ELSE {})
                             \union (IF BoundaryRace(c) THEN {"boundaryRace"} ELSE {})
                             \union (IF ClockBehind(c) THEN {"clockBehind"} ELSE {})
<1>1. PICK p \in Calls : p = call[c]
  BY DEF Base
<1>2. PICK s : s = StepOf(row, p)
  OBVIOUS
<1>3. IncrementStep(c) = s
  BY <1>1, <1>2, Steps
<1>4. FineCall(p) /\ Setting /\ Fine(row)
  BY <1>1 DEF Base
<1>5. p.op = "incr" /\ p.leg # "end"
  BY <1>1 DEF IncrementStatement, Pending
<1>6. p.answer = "none" /\ ~ p.gone /\ p.leg \in LegsOf("incr") \ {"end"}
  BY <1>4, <1>5 DEF FineCall
<1>7. StepOk(s, row, p)
  BY <1>2, <1>4, <1>5, <1>6, StepFine DEF FineCall
<1>8. call' = [call EXCEPT ![c] = AfterStep(p, s)]
  BY <1>1, <1>3 DEF IncrementStatement, AfterStep, Base
<1>9. /\ row' = s.row /\ lock' = LockAfter(c, s) /\ Unlocked(c)
      /\ now' = now /\ admin' = admin /\ errors' = errors
      /\ leaks' = leaks \union (IF InsertRace(c) THEN {"insertRace"} ELSE {})
                        \union (IF BoundaryRace(c) THEN {"boundaryRace"} ELSE {})
                        \union (IF ClockBehind(c) THEN {"clockBehind"} ELSE {})
  BY <1>3 DEF IncrementStatement
<1> QED BY <1>1, <1>2, <1>5, <1>6, <1>7, <1>8, <1>9 DEF Move

LEMMA UndoMoves ==
    ASSUME Base, NEW c \in Callers, DecrementStatement(c)
    PROVE  LET p == call[c]  s == UndoOf(row, p) IN
           /\ p.op = "undo" /\ p.leg # "end" /\ Unlocked(c) /\ UndoOk(s)
           /\ Snapshots /\ Exists(row) => p.leg = "write"
           /\ row' = s.row
           /\ Move(c, IF s.leg = "end" THEN Undone ELSE [p EXCEPT !.leg = s.leg, !.gone = TRUE])
           /\ now' = now /\ admin' = admin /\ errors' = errors /\ lock' = lock
           /\ leaks' = leaks \union (IF GivesBack(c) /\ LateUndo(c) THEN {"lateUndo"} ELSE {})
                             \union (IF StaleUndo(c) THEN {"staleUndo"} ELSE {})
                             \union (IF ShiftedUndo(c, p.newest) THEN {"shiftedUndo"} ELSE {})
                             \union (IF MissedUndo(c) THEN {"missedUndo"} ELSE {})
<1>1. PICK p \in Calls : p = call[c]
  BY DEF Base
<1>2. PICK s : s = UndoOf(row, p)
  OBVIOUS
<1>3. DecrementStep(c) = s
  BY <1>1, <1>2, Steps
<1>4. FineCall(p) /\ Setting /\ Fine(row)
  BY <1>1 DEF Base
<1>5. p.op = "undo" /\ p.leg # "end"
  BY <1>1 DEF DecrementStatement, Pending
<1>6. p.leg \in LegsOf("undo") \ {"end"}
  BY <1>4, <1>5 DEF FineCall
<1>7. UndoOk(s)
  BY <1>2, <1>4, <1>5, <1>6, UndoFine DEF FineCall
<1>8. call' = [call EXCEPT ![c] = IF s.leg = "end" THEN Undone ELSE [p EXCEPT !.leg = s.leg, !.gone = TRUE]]
  BY <1>1, <1>3 DEF DecrementStatement, Base
<1>9. /\ row' = s.row /\ lock' = lock /\ Unlocked(c)
      /\ Snapshots /\ Exists(row) => p.leg = "write"
      /\ now' = now /\ admin' = admin /\ errors' = errors
      /\ leaks' = leaks \union (IF GivesBack(c) /\ LateUndo(c) THEN {"lateUndo"} ELSE {})
                        \union (IF StaleUndo(c) THEN {"staleUndo"} ELSE {})
                        \union (IF ShiftedUndo(c, p.newest) THEN {"shiftedUndo"} ELSE {})
                        \union (IF MissedUndo(c) THEN {"missedUndo"} ELSE {})
  BY <1>1, <1>3 DEF DecrementStatement
<1> QED BY <1>1, <1>2, <1>5, <1>7, <1>8, <1>9 DEF Move

LEMMA ErrorMoves ==
    ASSUME Base, NEW c \in Callers, StoreError(c)
    PROVE  LET p == call[c]  s == StepOf(row, p) IN
           /\ p.op \in {"incr", "undo"} /\ p.leg # "end" /\ Unlocked(c)
           /\ \/ row' = row
              \/ /\ p.op = "incr" /\ p.answer = "none" /\ ~ p.gone /\ StepOk(s, row, p)
                 /\ s.leg = "end" /\ s.answer # "threw" /\ row' = s.row
           /\ Move(c, AfterError(p))
           /\ now' = now /\ admin' = admin /\ errors' = errors + 1
           /\ lock' = IF lock = c THEN NoCaller ELSE lock
           /\ leaks' = leaks \union
                   (IF /\ p.op = "incr"
                       /\ InsertRace(c) \/ BoundaryRace(c) \/ ClockBehind(c)
                    THEN {"insertRace", "boundaryRace", "clockBehind"} ELSE {})
<1>1. PICK p \in Calls : p = call[c]
  BY DEF Base
<1>2. PICK s : s = StepOf(row, p)
  OBVIOUS
<1>3. IncrementStep(c) = s
  BY <1>1, <1>2, Steps
<1>4. FineCall(p) /\ Setting /\ Fine(row)
  BY <1>1 DEF Base
<1>5. p.leg # "end"
  BY <1>1 DEF StoreError, Pending
<1>6. p.op \in {"incr", "undo"}
  BY <1>4, <1>5 DEF FineCall, LegsOf, Calls
<1>7. ASSUME p.op = "incr"
      PROVE  p.answer = "none" /\ ~ p.gone /\ StepOk(s, row, p)
  <2>1. p.answer = "none" /\ ~ p.gone /\ p.leg \in LegsOf("incr") \ {"end"}
    BY <1>4, <1>5, <1>7 DEF FineCall
  <2> QED BY <1>2, <1>4, <1>5, <2>1, StepFine DEF FineCall
<1>8. call' = [call EXCEPT ![c] = AfterError(p)]
  BY <1>1 DEF StoreError, AfterError, Base
<1>9. /\ \/ row' = row
         \/ p.op = "incr" /\ s.leg = "end" /\ s.answer # "threw" /\ row' = s.row
      /\ lock' = (IF lock = c THEN NoCaller ELSE lock) /\ Unlocked(c)
      /\ now' = now /\ admin' = admin /\ errors' = errors + 1
      /\ leaks' = leaks \union
                   (IF /\ p.op = "incr"
                       /\ InsertRace(c) \/ BoundaryRace(c) \/ ClockBehind(c)
                    THEN {"insertRace", "boundaryRace", "clockBehind"} ELSE {})
  BY <1>1, <1>3 DEF StoreError
<1> QED BY <1>1, <1>2, <1>5, <1>6, <1>7, <1>8, <1>9 DEF Move

LEMMA RemovedIs == ASSUME Setting PROVE Removed = {NoRow}
<1>1. /\ Redis!ResetRow = NoRow /\ Redis!DeleteRow = NoRow /\ Pg!ResetRow = NoRow /\ Pg!DeleteRow = NoRow
      /\ Mongo!ResetRow = NoRow /\ Mongo!DeleteRow = NoRow
      /\ Dynamo!ResetRow = NoRow /\ Dynamo!DeleteRow = NoRow
  BY RedisOps, PgOps, MongoOps, DynamoOps
     DEF Redis!ResetRow, Redis!DeleteRow, Pg!ResetRow, Pg!DeleteRow, Mongo!ResetRow,
         Mongo!DeleteRow, Dynamo!ResetRow, Dynamo!DeleteRow
<1> QED BY <1>1 DEF Removed, Setting

\* A fine row stays fine as the clock goes on.
LEMMA FineLater ==
    ASSUME Setting, UNCHANGED Setup, now' \in Nat, now <= now', NEW r, Fine(r)
    PROVE  Fine(r)'
<1>1. r \in Rows /\ Sane(r) /\ r.hits \in Seq(Nat) /\ r.at \in Int
  BY FineExists
<1>2. r.at <= now'
  BY <1>1 DEF Setting, Fine
<1>3. Live(r.hits, now') = 0
  <2>1. PICK x \in Int : x = now
    BY DEF Setting
  <2>2. PICK y \in Int : y = now' /\ x <= y
    BY <2>1
  <2>3. Live(r.hits, y) <= Live(r.hits, x) /\ Live(r.hits, y) \in Nat
    BY <1>1, <2>1, <2>2, LiveFewer, LiveType
  <2> QED BY <2>1, <2>2, <2>3 DEF Fine
<1>4. backend' = backend /\ strategy' = strategy
  BY DEF Setup
<1>5. (Exact)' <=> Exact
  BY <1>4 DEF Exact, Weighted
<1> QED BY <1>1, <1>2, <1>3, <1>4, <1>5 DEF Fine, Sane, Live

LEMMA RowLater ==
    ASSUME Setting, UNCHANGED Setup, now' \in Nat, now <= now', Fine(row')
    PROVE  Fine(row)'
<1>1. PICK r : r = row'
  OBVIOUS
<1>2. Fine(r)'
  BY <1>1, FineLater
<1>3. backend' = backend /\ strategy' = strategy
  BY DEF Setup
<1> QED BY <1>1, <1>2 DEF Fine, Sane, Live, Exists

LEMMA LegsLater == ASSUME UNCHANGED Setup PROVE \A op : LegsOf(op)' = LegsOf(op)
BY DEF Setup, LegsOf

LEMMA CallLater ==
    ASSUME Setting, UNCHANGED Setup, now' \in Nat, now <= now', NEW p, FineCall(p),
           p.leg # "end" => now' <= p.t + MaxLag
    PROVE  FineCall(p)'
<1>1. Fine(p.seen)'
  BY FineLater DEF FineCall
<1>2. p \in Calls /\ p.at \in Nat /\ p.t \in Nat
  BY DEF FineCall, Calls
<1>3. p.at <= now' /\ (p.leg # "end" => p.t <= now')
  BY <1>2 DEF FineCall, Setting
<1>4. LegsOf(p.op)' = LegsOf(p.op) /\ strategy' = strategy
  BY LegsLater DEF Setup
<1> QED BY <1>1, <1>2, <1>3, <1>4 DEF FineCall

\* The base invariant after a step that moves one call.
LEMMA MoveKeeps ==
    ASSUME Base, UNCHANGED Setup, NEW c \in Callers, NEW q, Move(c, q), FineCall(q),
           UNCHANGED now, Fine(row'),
           lock' \in Callers \union {NoCaller}, admin' \in Nat, errors' \in Nat
    PROVE  Base'
<1>1. Setting /\ Setting' /\ now' \in Nat /\ now <= now'
  BY DEF Base, Setting, Setup
<1>2. Fine(row)'
  BY <1>1, RowLater
<1>3. call \in [Callers -> Calls] /\ q \in Calls
  BY DEF Base, FineCall
<1>4. call' \in [Callers -> Calls] /\ \A d \in Callers : call'[d] = IF d = c THEN q ELSE call[d]
  BY <1>3 DEF Move
<1>5. ASSUME NEW d \in Callers PROVE FineCall(call[d])'
  <2>1. PICK p : p = IF d = c THEN q ELSE call[d]
    OBVIOUS
  <2>2. FineCall(p)
    BY <2>1 DEF Base
  <2>3. p.leg # "end" => now' <= p.t + MaxLag
    BY <2>2 DEF FineCall
  <2>4. FineCall(p)'
    BY <1>1, <2>2, <2>3, CallLater
  <2>5. call'[d] = p
    BY <1>4, <2>1
  <2> QED BY <2>4, <2>5 DEF FineCall, Fine, Sane, Live, Exists
<1> QED BY <1>1, <1>2, <1>4, <1>5 DEF Base

LEMMA BaseInit == Init => Base
<1> SUFFICES ASSUME Init PROVE Base
  OBVIOUS
<1>1. Setting
  BY SharedAssumption DEF Init, Setting
<1>2. Fine(NoRow)
  BY <1>1, FineNoRow
<1>3. Idle \in Calls
  BY NoRowFields, Constants DEF Idle, Calls, Legs, Answers
<1>4. FineCall(Idle)
  BY <1>1, <1>2, <1>3 DEF FineCall, Idle, LegsOf, Setting
<1>5. call = [c \in Callers |-> Idle] /\ row = NoRow /\ lock = NoCaller /\ admin = 0 /\ errors = 0
  BY DEF Init
<1> QED BY <1>1, <1>2, <1>3, <1>4, <1>5 DEF Base

LEMMA CallsKeep ==
    ASSUME Base, UNCHANGED <<Setup, now, call>>, Fine(row'),
           lock' \in Callers \union {NoCaller}, admin' \in Nat, errors' \in Nat
    PROVE  Base'
<1>1. Setting /\ Setting' /\ now' \in Nat /\ now <= now' /\ UNCHANGED Setup
  BY DEF Base, Setting, Setup
<1>2. Fine(row)'
  BY <1>1, RowLater
<1>3. ASSUME NEW d \in Callers PROVE FineCall(call[d])'
  <2>1. PICK p : p = call[d]
    OBVIOUS
  <2>2. FineCall(p)
    BY <2>1 DEF Base
  <2>3. p.leg # "end" => now' <= p.t + MaxLag
    BY <2>2 DEF FineCall
  <2>4. FineCall(p)'
    BY <1>1, <2>2, <2>3, CallLater
  <2>5. call'[d] = p
    BY <2>1
  <2> QED BY <2>4, <2>5 DEF FineCall, Fine, Sane, Live, Exists
<1> QED BY <1>1, <1>2, <1>3 DEF Base

LEMMA TickKeeps == ASSUME Base, UNCHANGED Setup, Tick PROVE Base'
<1>1. Setting /\ Setting' /\ now' \in Nat /\ now <= now' /\ now' = now + 1
  BY DEF Base, Setting, Setup, Tick
<1>2. row' = row /\ call' = call /\ lock' = lock /\ admin' = admin /\ errors' = errors
  BY DEF Tick
<1>3. Fine(row)'
  BY <1>1, <1>2, RowLater DEF Base
<1>4. ASSUME NEW d \in Callers PROVE FineCall(call[d])'
  <2>1. PICK p \in Calls : p = call[d] /\ FineCall(p)
    BY DEF Base
  <2>2. p.leg # "end" => now < p.t + MaxLag
    BY <2>1 DEF Tick, Pending
  <2>3. p.t \in Nat /\ MaxLag \in Nat
    BY Constants DEF Calls
  <2>4. p.leg # "end" => now' <= p.t + MaxLag
    BY <1>1, <2>2, <2>3 DEF Setting
  <2>5. FineCall(p)'
    BY <1>1, <2>1, <2>4, CallLater
  <2>6. call'[d] = p
    BY <1>2, <2>1
  <2> QED BY <2>5, <2>6 DEF FineCall, Fine, Sane, Live, Exists
<1> QED BY <1>1, <1>2, <1>3, <1>4 DEF Base

LEMMA AfterStepFine ==
    ASSUME Setting, NEW p, FineCall(p), p.op = "incr", p.leg # "end", NEW r, Fine(r),
           NEW s, StepOk(s, r, p)
    PROVE  FineCall(AfterStep(p, s))
<1>1. p \in Calls /\ p.t \in Nat /\ p.round \in 1..MaxAttempts /\ p.at \in Nat /\ p.filed \in Int
  BY DEF FineCall, Calls
<1>2. PICK q : q = AfterStep(p, s)
  OBVIOUS
<1>3. /\ q.op = p.op /\ q.leg = s.leg /\ q.seen = s.seen /\ q.cost = p.cost /\ q.newest = p.newest
      /\ q.answer = s.answer /\ q.gone = p.gone
      /\ q.round = (IF s.leg = "end" THEN 1 ELSE IF s.leg = "start" THEN p.round + 1 ELSE p.round)
      /\ q.t = (IF s.leg = "end" /\ s.answer # "threw" THEN 0 ELSE p.t)
      /\ q.at = (IF s.leg = "end" THEN now ELSE p.at)
      /\ q.filed = (IF s.leg = "end" THEN FiledUnder(s.row, p.t) ELSE p.filed)
  BY <1>1, <1>2 DEF AfterStep, Calls
<1>4. q.round \in 1..MaxAttempts
  <2>1. s.leg = "start" => p.round < MaxAttempts
    BY DEF StepOk
  <2>2. 1 \in 1..MaxAttempts /\ (p.round < MaxAttempts => p.round + 1 \in 1..MaxAttempts)
    BY <1>1, Constants
  <2> QED BY <1>1, <1>3, <2>1, <2>2
<1>5. s.row \in Rows /\ Fine(s.row) /\ FiledUnder(s.row, p.t) \in Int
  <2>1. Fine(s.row)
    BY DEF StepOk
  <2>2. s.row.at \in Int /\ s.row.exp \in Int /\ s.row \in Rows
    BY <2>1, FineExists
  <2> QED BY <1>1, <2>1, <2>2 DEF FiledUnder
<1>6. Fine(q.seen) /\ q.seen \in Rows
  <2>1. Fine(q.seen)
    BY <1>3, FineNoRow DEF StepOk
  <2> QED BY <2>1, FineExists
<1>7. s.leg \in Legs /\ s.answer \in Answers
  <2>1. s.leg \in LegsOf("incr")
    BY DEF StepOk
  <2> QED BY <2>1 DEF StepOk, LegsOf, Legs, Answers
<1>8. q.t \in Nat /\ q.at \in Nat /\ q.filed \in Int
  BY <1>1, <1>3, <1>5 DEF Setting
<1>9. q \in Calls
  <2>1. q = [op |-> q.op, t |-> q.t, leg |-> q.leg, round |-> q.round, seen |-> q.seen,
             cost |-> q.cost, newest |-> q.newest, answer |-> q.answer, at |-> q.at,
             filed |-> q.filed, gone |-> q.gone]
    BY <1>1, <1>2 DEF AfterStep, Calls
  <2> QED BY <1>1, <1>3, <1>4, <1>6, <1>7, <1>8, <2>1 DEF Calls
<1>10. q.leg \in LegsOf("incr") /\ q.leg # "clamp"
  BY <1>3 DEF StepOk, LegsOf
<1>11. (q.leg = "end" <=> q.answer # "none")
  BY <1>3 DEF StepOk
<1>12. ~ p.gone /\ p.at <= now /\ p.t <= now /\ now <= p.t + MaxLag
  BY DEF FineCall
<1>13. q.at <= now
  BY <1>3, <1>12 DEF Setting
<1>14. q.leg # "end" => q.t = p.t
  BY <1>3
<1>15. q.gone = FALSE
  BY <1>1, <1>3, <1>12 DEF Calls
<1> QED BY <1>2, <1>3, <1>6, <1>9, <1>10, <1>11, <1>12, <1>13, <1>14, <1>15 DEF FineCall

LEMMA AfterErrorFine ==
    ASSUME Setting, NEW p, FineCall(p), p.op \in {"incr", "undo"}
    PROVE  FineCall(AfterError(p))
<1>1. p \in Calls /\ p.at \in Nat
  BY DEF FineCall, Calls
<1>2. PICK q : q = AfterError(p)
  OBVIOUS
<1>3. /\ q.op = p.op /\ q.leg = "end" /\ q.seen = NoRow /\ q.cost = p.cost /\ q.newest = p.newest
      /\ q.answer = (IF p.op = "incr" THEN "failed" ELSE p.answer)
      /\ q.gone = p.gone /\ q.round = 1 /\ q.t = 0 /\ q.filed = p.filed
      /\ q.at = (IF p.op = "incr" THEN now ELSE p.at)
  BY <1>1, <1>2 DEF AfterError, Calls
<1>4. q = [op |-> q.op, t |-> q.t, leg |-> q.leg, round |-> q.round, seen |-> q.seen,
           cost |-> q.cost, newest |-> q.newest, answer |-> q.answer, at |-> q.at,
           filed |-> q.filed, gone |-> q.gone]
  BY <1>1, <1>2 DEF AfterError, Calls
<1>5. Fine(q.seen) /\ q.seen \in Rows
  BY <1>3, FineNoRow, NoRowFields
<1>6. q.at \in Nat /\ q.at <= now
  BY <1>1, <1>3 DEF FineCall, Setting
<1>7. q \in Calls
  BY <1>1, <1>3, <1>4, <1>5, <1>6, Constants DEF Calls, Legs, Answers
<1>8. q.leg \in LegsOf(q.op)
  BY <1>3 DEF LegsOf
<1> QED BY <1>2, <1>3, <1>5, <1>6, <1>7, <1>8 DEF FineCall

LEMMA UndoneFine == ASSUME Setting PROVE FineCall(Undone)
<1>1. /\ Idle.op = "none" /\ Idle.t = 0 /\ Idle.leg = "end" /\ Idle.round = 1 /\ Idle.seen = NoRow
      /\ Idle.cost = 1 /\ Idle.newest = FALSE /\ Idle.at = 0 /\ Idle.filed = 0
  BY DEF Idle
<1>a. Idle \in Calls
  BY NoRowFields, Constants DEF Idle, Calls, Legs, Answers
<1>2. PICK z \in Calls : z = Idle
  BY <1>a
<1>3. PICK q : q = [z EXCEPT !.op = "undo", !.answer = "allowed", !.gone = TRUE]
  OBVIOUS
<1>4. Undone = q
  BY <1>2, <1>3 DEF Undone
<1>5. /\ q \in Calls /\ q.op = "undo" /\ q.t = 0 /\ q.leg = "end" /\ q.seen = NoRow
      /\ q.answer = "allowed" /\ q.at = 0 /\ q.gone = TRUE
  BY <1>1, <1>2, <1>3 DEF Calls, Answers
<1>6. Fine(NoRow) /\ 0 <= now
  BY FineNoRow DEF Setting
<1> QED BY <1>4, <1>5, <1>6 DEF FineCall, LegsOf

LEMMA StartFine ==
    ASSUME Setting, NEW p, FineCall(p), NEW op \in {"incr", "undo"}, NEW m \in BOOLEAN,
           op = "incr" => p.op = "none",
           op = "undo" => \/ p.answer = "allowed"
                          \/ p.answer = "blocked" /\ strategy # "TOKEN_BUCKET"
    PROVE  FineCall([p EXCEPT !.op = op, !.t = now, !.leg = "start", !.newest = m])
<1>1. p \in Calls /\ p.at \in Nat
  BY DEF FineCall, Calls
<1>2. PICK q : q = [p EXCEPT !.op = op, !.t = now, !.leg = "start", !.newest = m]
  OBVIOUS
<1>3. /\ q.op = op /\ q.leg = "start" /\ q.seen = p.seen /\ q.answer = p.answer
      /\ q.gone = p.gone /\ q.t = now /\ q.at = p.at
      /\ q \in Calls
  BY <1>1, <1>2 DEF Calls, Setting, Legs
<1>4. q.leg \in LegsOf(q.op)
  BY <1>3 DEF LegsOf
<1>5. q.t <= now /\ now <= q.t + MaxLag
  BY <1>3, Constants DEF Setting
<1>6. op = "incr" => p.answer = "none"
  BY DEF FineCall
<1> QED BY <1>2, <1>3, <1>4, <1>5, <1>6 DEF FineCall

\* reset(), delete() and set() mark calls; the deletion of the row ends the undos of
\* Postgres that wait for it.
Marked(p) == IF p.answer # "none" THEN [p EXCEPT !.gone = TRUE] ELSE p
Drops(c) == /\ Snapshots /\ call[c].op = "undo" /\ call[c].leg = "write"
            /\ call[c].answer = "allowed" /\ call'[c] = Undone

LEMMA WriteOffIs ==
    ASSUME Base
    PROVE  /\ call' = WriteOff =>
                 /\ call' = [c \in Callers |-> call'[c]]
                 /\ \A c \in Callers : call'[c] = Marked(call[c])
           /\ call' = Deleted(WriteOff) =>
                 /\ call' = [c \in Callers |-> call'[c]]
                 /\ \A c \in Callers : call'[c] = Marked(call[c]) \/ Drops(c)
           /\ call' = Deleted(call) =>
                 /\ call' = [c \in Callers |-> call'[c]]
                 /\ \A c \in Callers : call'[c] = call[c] \/ Drops(c)
                 /\ ~ Snapshots => call' = call
<1>1. WriteOff = [c \in Callers |-> Marked(call[c])]
  BY DEF WriteOff, Marked
<1>2. ASSUME NEW c \in Callers
      PROVE  /\ Marked(call[c]).op = call[c].op /\ Marked(call[c]).leg = call[c].leg
             /\ call[c].op = "undo" /\ call[c].leg = "write" =>
                    Snapshots /\ call[c].answer = "allowed"
  <2>1. PICK p \in Calls : p = call[c] /\ FineCall(p) /\ Setting
    BY DEF Base
  <2>2. Marked(p).op = p.op /\ Marked(p).leg = p.leg
    BY <2>1 DEF Marked, Calls
  <2>3. p.op = "undo" /\ p.leg = "write" => Snapshots /\ p.answer = "allowed"
    BY <2>1 DEF FineCall, LegsOf, Snapshots
  <2> QED BY <2>1, <2>2, <2>3
<1>3. ASSUME call' = Deleted(WriteOff)
      PROVE  /\ call' = [c \in Callers |-> call'[c]]
             /\ \A c \in Callers : call'[c] = Marked(call[c]) \/ Drops(c)
  <2>1. call' = [c \in Callers |-> IF call[c].op = "undo" /\ call[c].leg = "write" THEN Undone
                                   ELSE Marked(call[c])]
    BY <1>1, <1>2, <1>3 DEF Deleted
  <2> QED BY <1>2, <2>1 DEF Drops
<1>4. ASSUME call' = Deleted(call)
      PROVE  /\ call' = [c \in Callers |-> call'[c]]
             /\ \A c \in Callers : call'[c] = call[c] \/ Drops(c)
             /\ ~ Snapshots => call' = call
  <2>1. call' = [c \in Callers |-> IF call[c].op = "undo" /\ call[c].leg = "write" THEN Undone
                                   ELSE call[c]]
    BY <1>4 DEF Deleted
  <2>2. \A c \in Callers : call'[c] = call[c] \/ Drops(c)
    BY <1>2, <2>1 DEF Drops
  <2>3. ~ Snapshots => \A c \in Callers : call'[c] = call[c]
    BY <2>2 DEF Drops
  <2>4. call = [c \in Callers |-> call[c]]
    BY DEF Base
  <2> QED BY <2>1, <2>2, <2>3, <2>4
<1> QED BY <1>1, <1>3, <1>4

LEMMA WriteOffKeeps ==
    ASSUME Base, UNCHANGED Setup, UNCHANGED now, call' = [c \in Callers |-> call'[c]],
           \A c \in Callers : call'[c] \in {call[c], Marked(call[c]), Undone}, Fine(row'),
           lock' \in Callers \union {NoCaller}, admin' \in Nat, errors' \in Nat
    PROVE  Base'
<1>1. Setting /\ Setting' /\ now' \in Nat /\ now <= now'
  BY DEF Base, Setting, Setup
<1>2. Fine(row)'
  BY <1>1, RowLater
<1>3. ASSUME NEW d \in Callers PROVE call'[d] \in Calls /\ FineCall(call[d])'
  <2>1. PICK p \in Calls : p = call[d] /\ FineCall(p)
    BY DEF Base
  <2>2. PICK q : q = Marked(p)
    OBVIOUS
  <2>3. /\ q \in Calls /\ q.answer = p.answer /\ q.op = p.op /\ q.leg = p.leg /\ q.t = p.t
        /\ q.seen = p.seen /\ q.at = p.at
        /\ q.gone = IF p.answer # "none" THEN TRUE ELSE p.gone
    BY <2>1, <2>2 DEF Marked, Calls
  <2>4. FineCall(q)
    BY <2>1, <2>3 DEF FineCall
  <2>5. PICK u : u = call'[d] /\ u \in {p, q, Undone}
    BY <2>1, <2>2
  <2>6. FineCall(u)
    BY <1>1, <2>1, <2>4, <2>5, UndoneFine
  <2>7. u \in Calls /\ (u.leg # "end" => now' <= u.t + MaxLag)
    BY <2>6 DEF FineCall
  <2>8. FineCall(u)'
    BY <1>1, <2>6, <2>7, CallLater
  <2> QED BY <2>5, <2>7, <2>8 DEF FineCall, Fine, Sane, Live, Exists
<1>4. call' \in [Callers -> Calls]
  <2>1. \A d \in Callers : call'[d] \in Calls
    BY <1>3
  <2> QED BY <2>1
<1> QED BY <1>1, <1>2, <1>3, <1>4 DEF Base

\* The snapshot of an undo.
LEMMA SnapMoves ==
    ASSUME Base, NEW c \in Callers, Snapshot(c)
    PROVE  LET p == call[c]  q == [p EXCEPT !.leg = "write", !.seen = row] IN
           /\ Move(c, q) /\ FineCall(q) /\ Snapshots /\ Exists(row)
           /\ p.op = "undo" /\ p.leg = "start"
           /\ UNCHANGED <<row, now, lock, admin, errors, leaks>>
<1>1. PICK p \in Calls : p = call[c] /\ FineCall(p)
  BY DEF Base
<1>2. PICK q : q = [p EXCEPT !.leg = "write", !.seen = row]
  OBVIOUS
<1>3. Move(c, q)
  BY <1>1, <1>2 DEF Snapshot, Move, Base
<1>4. /\ p.op = "undo" /\ p.leg = "start" /\ Snapshots /\ Exists(row)
      /\ UNCHANGED <<row, now, lock, admin, errors, leaks>>
  BY <1>1 DEF Snapshot
<1>5. Fine(row) /\ row \in Rows
  BY FineExists DEF Base
<1>6. /\ q \in Calls /\ q.op = p.op /\ q.leg = "write" /\ q.seen = row /\ q.t = p.t
      /\ q.answer = p.answer /\ q.gone = p.gone /\ q.at = p.at
  BY <1>1, <1>2, <1>5 DEF Calls, Legs
<1>7. q.leg \in LegsOf("undo")
  BY <1>4, <1>6 DEF LegsOf, Snapshots
<1>8. FineCall(q)
  BY <1>1, <1>4, <1>5, <1>6, <1>7 DEF FineCall
<1> QED BY <1>1, <1>2, <1>3, <1>4, <1>8

LEMMA NextKeeps == ASSUME Base, [Next]_vars PROVE Base'
<1>1. UNCHANGED Setup
  BY NextMoves
<1>2. Setting /\ Fine(row) /\ admin \in Nat /\ errors \in Nat /\ lock \in Callers \union {NoCaller}
  BY DEF Base
<1>3. CASE UNCHANGED vars
  <2>1. UNCHANGED <<Setup, now, call>> /\ row' = row /\ lock' = lock /\ admin' = admin /\ errors' = errors
    BY <1>3 DEF vars, Setup
  <2> QED BY <1>2, <2>1, CallsKeep
<1>4. ASSUME NEW c \in Callers, Increment(c) PROVE Base'
  <2>1. PICK p : p = call[c] /\ FineCall(p) /\ p \in Calls
    BY DEF Base
  <2>2. PICK m \in BOOLEAN : m = p.newest
    BY <2>1 DEF Calls
  <2>3. PICK q : q = [p EXCEPT !.op = "incr", !.t = now, !.leg = "start", !.newest = m]
    OBVIOUS
  <2>4. FineCall(q)
    BY <1>2, <1>4, <2>1, <2>3, StartFine DEF Increment
  <2>5. [p EXCEPT !.op = "incr", !.t = now, !.leg = "start"] = q
    BY <2>1, <2>2, <2>3 DEF Calls
  <2>6. Move(c, q)
    BY <1>4, <2>1, <2>5 DEF Increment, Move, Base
  <2>7. UNCHANGED now /\ row' = row /\ lock' = lock /\ admin' = admin /\ errors' = errors
    BY <1>4 DEF Increment
  <2> QED BY <1>1, <1>2, <2>4, <2>6, <2>7, MoveKeeps
<1>5. ASSUME NEW c \in Callers, Decrement(c) PROVE Base'
  <2>1. PICK p : p = call[c] /\ FineCall(p) /\ p \in Calls
    BY DEF Base
  <2>2. PICK m \in BOOLEAN : m = (p.answer = "blocked")
    OBVIOUS
  <2>3. PICK q : q = [p EXCEPT !.op = "undo", !.t = now, !.leg = "start", !.newest = m]
    OBVIOUS
  <2>4. FineCall(q)
    BY <1>2, <1>5, <2>1, <2>3, StartFine DEF Decrement
  <2>5. Move(c, q)
    BY <1>5, <2>1, <2>2, <2>3 DEF Decrement, Move, Base
  <2>6. UNCHANGED now /\ row' = row /\ lock' = lock /\ admin' = admin /\ errors' = errors
    BY <1>5 DEF Decrement
  <2> QED BY <1>1, <1>2, <2>4, <2>5, <2>6, MoveKeeps
<1>6. ASSUME NEW c \in Callers, IncrementStatement(c) PROVE Base'
  <2>1. PICK p : p = call[c] /\ FineCall(p)
    BY DEF Base
  <2>2. PICK s : s = StepOf(row, p)
    OBVIOUS
  <2>3. /\ p.op = "incr" /\ p.leg # "end" /\ StepOk(s, row, p)
        /\ row' = s.row /\ Move(c, AfterStep(p, s))
        /\ now' = now /\ admin' = admin /\ errors' = errors
        /\ lock' = LockAfter(c, s)
    BY <1>6, <2>1, <2>2, IncrementMoves
  <2>4. FineCall(AfterStep(p, s))
    BY <1>2, <2>1, <2>3, AfterStepFine
  <2>5. lock' \in Callers \union {NoCaller}
    BY <1>2, <2>3 DEF LockAfter
  <2>6. Fine(row')
    BY <2>3 DEF StepOk
  <2> QED BY <1>1, <1>2, <2>3, <2>4, <2>5, <2>6, MoveKeeps
<1>7. ASSUME NEW c \in Callers, DecrementStatement(c) PROVE Base'
  <2>1. PICK p : p = call[c] /\ FineCall(p) /\ p \in Calls
    BY DEF Base
  <2>2. PICK s : s = UndoOf(row, p)
    OBVIOUS
  <2>3. /\ p.op = "undo" /\ p.leg # "end" /\ UndoOk(s) /\ row' = s.row
        /\ Move(c, IF s.leg = "end" THEN Undone ELSE [p EXCEPT !.leg = s.leg, !.gone = TRUE])
        /\ now' = now /\ admin' = admin /\ errors' = errors /\ lock' = lock
    BY <1>7, <2>1, <2>2, UndoMoves
  <2>4. Fine(row')
    BY <2>3 DEF UndoOk
  <2>5. ASSUME s.leg # "end" PROVE FineCall([p EXCEPT !.leg = s.leg, !.gone = TRUE])
    <3>1. s.leg \in LegsOf("undo") /\ s.leg \in Legs /\ s.leg # "end"
      BY <2>3, <2>5 DEF UndoOk, LegsOf, Legs
    <3>2. PICK q : q = [p EXCEPT !.leg = s.leg, !.gone = TRUE]
      OBVIOUS
    <3>3. /\ q \in Calls /\ q.op = p.op /\ q.leg = s.leg /\ q.gone = TRUE /\ q.seen = p.seen
          /\ q.answer = p.answer /\ q.t = p.t /\ q.at = p.at
      BY <2>1, <3>1, <3>2 DEF Calls
    <3>4. p.answer # "none"
      BY <2>1, <2>3 DEF FineCall
    <3> QED BY <2>1, <2>3, <3>1, <3>2, <3>3, <3>4 DEF FineCall
  <2>6. CASE s.leg = "end"
    BY <1>1, <1>2, <2>3, <2>4, <2>6, UndoneFine, MoveKeeps
  <2>7. CASE s.leg # "end"
    BY <1>1, <1>2, <2>3, <2>4, <2>5, <2>7, MoveKeeps
  <2> QED BY <2>6, <2>7
<1>8. ASSUME NEW c \in Callers, StoreError(c) PROVE Base'
  <2>1. PICK p : p = call[c] /\ FineCall(p) /\ p \in Calls
    BY DEF Base
  <2>2. PICK s : s = StepOf(row, p)
    OBVIOUS
  <2>3. /\ p.op \in {"incr", "undo"}
        /\ \/ row' = row
           \/ StepOk(s, row, p) /\ row' = s.row
        /\ Move(c, AfterError(p))
        /\ now' = now /\ admin' = admin /\ errors' = errors + 1
        /\ lock' = IF lock = c THEN NoCaller ELSE lock
    BY <1>8, <2>1, <2>2, ErrorMoves
  <2>4. Fine(row') /\ errors' \in Nat /\ lock' \in Callers \union {NoCaller}
    BY <1>2, <2>3 DEF StepOk
  <2>5. FineCall(AfterError(p))
    BY <1>2, <2>1, <2>3, AfterErrorFine
  <2> QED BY <1>1, <1>2, <2>3, <2>4, <2>5, MoveKeeps
<1>9. CASE Reset
  <2>1. row' = NoRow /\ call' = Deleted(WriteOff) /\ now' = now /\ lock' = lock
        /\ admin' = admin + 1 /\ errors' = errors
    BY <1>2, <1>9, RemovedIs DEF Reset
  <2>2. /\ call' = [c \in Callers |-> call'[c]]
        /\ \A c \in Callers : call'[c] \in {call[c], Marked(call[c]), Undone}
    BY <2>1, WriteOffIs DEF Drops
  <2> QED BY <1>1, <1>2, <2>1, <2>2, FineNoRow, WriteOffKeeps
<1>10. ASSUME NEW n \in 0..Limit, Set(n) PROVE Base'
  <2>1. row' = SetRow(n) /\ call' = WriteOff /\ now' = now /\ lock' = lock /\ admin' = admin + 1
        /\ errors' = errors
    BY <1>10 DEF Set
  <2>2. n \in Nat
    BY Constants
  <2>3. Fine(row')
    BY <1>2, <2>1, <2>2, SetFine
  <2>4. /\ call' = [c \in Callers |-> call'[c]]
        /\ \A c \in Callers : call'[c] \in {call[c], Marked(call[c]), Undone}
    BY <2>1, WriteOffIs
  <2> QED BY <1>1, <1>2, <2>1, <2>3, <2>4, WriteOffKeeps
<1>11. CASE Expire
  <2>1. call' = Deleted(call) /\ now' = now /\ row' = NoRow /\ lock' = lock /\ admin' = admin
        /\ errors' = errors
    BY <1>11 DEF Expire
  <2>2. /\ call' = [c \in Callers |-> call'[c]]
        /\ \A c \in Callers : call'[c] \in {call[c], Marked(call[c]), Undone}
    BY <2>1, WriteOffIs DEF Drops
  <2> QED BY <1>1, <1>2, <2>1, <2>2, FineNoRow, WriteOffKeeps
<1>13. ASSUME NEW c \in Callers, Snapshot(c) PROVE Base'
  <2>1. PICK q : q = [call[c] EXCEPT !.leg = "write", !.seen = row]
    OBVIOUS
  <2>2. Move(c, q) /\ FineCall(q) /\ UNCHANGED <<row, now, lock, admin, errors>>
    BY <1>13, <2>1, SnapMoves
  <2> QED BY <1>1, <1>2, <2>2, MoveKeeps
<1>12. CASE Tick
  BY <1>1, <1>12, TickKeeps
<1> QED BY <1>3, <1>4, <1>5, <1>6, <1>7, <1>8, <1>9, <1>10, <1>11, <1>12, <1>13, NextMoves

LEMMA BaseAlways == Spec => []Base
BY BaseInit, NextKeeps, PTL DEF Spec

-----------------------------------------------------------------------------
(* get() and increment() agree                                             *)

\* Rows are what their fields are.
LEMMA SameRow ==
    ASSUME NEW a \in Rows, NEW b \in Rows, a.hits = b.hits, a.count = b.count,
           a.prev = b.prev, a.at = b.at, a.exp = b.exp
    PROVE  a = b
BY DEF Rows

\* The next leg of an undisturbed increment.
Onward(p, s) == [p EXCEPT !.leg = s.leg, !.seen = s.seen]
Then(p, s) == IF s.leg = "end" THEN s ELSE StepOf(s.row, Onward(p, s))

LEMMA AloneIs ==
    ASSUME Base
    PROVE  \E p \in Calls : /\ p.t = now /\ p.leg = "start"
                            /\ Alone = Then(p, Then(p, StepOf(row, p)))
<1>1. Idle \in Calls
  BY NoRowFields, Constants DEF Idle, Calls, Legs, Answers
<1>2. PICK z \in Calls : z = Idle
  BY <1>1
<1>3. PICK p : p = [z EXCEPT !.t = now, !.leg = "start"]
  OBVIOUS
<1>4. now \in Nat
  BY DEF Base, Setting
<1>5. p \in Calls /\ p.t = now /\ p.leg = "start"
  BY <1>2, <1>3, <1>4 DEF Calls, Legs
<1>6. Alone = Then(p, Then(p, StepOf(row, p)))
  BY <1>2, <1>3 DEF Alone, Then, Onward, StepOf
<1> QED BY <1>5, <1>6

LEMMA OnwardFields ==
    ASSUME NEW p \in Calls, NEW s, s.leg \in Legs, s.seen \in Rows
    PROVE  LET q == Onward(p, s) IN
           /\ q \in Calls /\ q.leg = s.leg /\ q.seen = s.seen /\ q.t = p.t
BY DEF Onward, Calls

\* The preview of each kind of row.
LEMMA RedisPreview ==
    ASSUME backend = "redis", Sane(row)
    PROVE  LET e == Unexpired(row) IN
           /\ strategy = "FIXED_WINDOW" => Preview = e.count
           /\ strategy = "SLIDING_WINDOW" => Preview = Len(Prune(e.hits, now - Window))
           /\ strategy = "TOKEN_BUCKET" =>
                Preview = IF Exists(e) THEN BucketSize - Refill(e.count, e.at, now).tokens ELSE 0
<1>1. Redis!Visible(row, now) = Unexpired(row)
  BY RedisOps DEF Redis!Visible, Unexpired
<1>2. Preview = Redis!Preview(strategy, row, now)
  BY DEF Preview
<1> QED BY <1>1, <1>2, RedisOps DEF Redis!Preview, Redis!SlidingGet, Redis!FixedGet, Redis!BucketGet

LEMMA ServerPreview ==
    ASSUME backend \in {"postgres", "mongo"}
    PROVE  /\ ~ Exists(row) => Preview = 0
           /\ Exists(row) /\ strategy = "FIXED_WINDOW" =>
                Preview = IF row.exp <= now THEN 0 ELSE row.count
           /\ Exists(row) /\ strategy = "SLIDING_WINDOW" =>
                Preview = Len(Prune(row.hits, now - Window))
           /\ Exists(row) /\ strategy = "TOKEN_BUCKET" =>
                Preview = BucketSize - Refill(row.count, row.at, now).tokens
<1>1. CASE backend = "postgres"
  <2>1. Preview = Pg!Preview(strategy, row, now)
    BY <1>1 DEF Preview
  <2> QED BY <2>1, PgOps DEF Pg!Preview
<1>2. CASE backend = "mongo"
  <2>1. Preview = Mongo!Preview(strategy, row, now)
    BY <1>2 DEF Preview
  <2> QED BY <2>1, MongoOps DEF Mongo!Preview
<1> QED BY <1>1, <1>2

LEMMA DynamoPreview ==
    ASSUME backend = "dynamo"
    PROVE  /\ ~ Exists(row) => Preview = 0
           /\ Exists(row) /\ strategy = "FIXED_WINDOW" =>
                Preview = IF now >= row.at + Window THEN 0 ELSE Greatest(0, row.count)
           /\ Exists(row) /\ strategy = "SLIDING_WINDOW" =>
                Preview = IF row.at + 2 * Window <= now THEN 0 ELSE Dynamo!WeightedCount(row, now)
           /\ Exists(row) /\ strategy = "TOKEN_BUCKET" =>
                Preview = BucketSize - Refill(row.count, row.at, now).tokens
<1>1. Preview = Dynamo!Preview(strategy, row, now)
  BY DEF Preview
<1> QED BY <1>1, DynamoOps DEF Dynamo!Preview

\* A bucket's increment is blocked when its preview is the bucket.
LEMMA BucketAgrees ==
    ASSUME NEW r, NEW t \in Nat, r \in Rows, NEW e \in Int
    PROVE  LET b == Filled(r, t)
               preview == IF Exists(r) THEN BucketSize - Refill(r.count, r.at, t).tokens ELSE 0
           IN TakesFrom(b, e).answer = "blocked" <=> preview >= BucketSize
<1>1. PICK b : b = Filled(r, t)
  OBVIOUS
<1>2. r.count \in Int /\ r.at \in Int /\ t \in Int
  BY DEF Rows
<1>3. CASE Exists(r)
  <2>1. b = Refill(r.count, r.at, t) /\ b.tokens \in Int /\ b.last \in Int
    BY <1>1, <1>2, <1>3, RefillFacts DEF Filled
  <2>2. TakesFrom(b, e).answer = "blocked" <=> b.tokens < 1
    BY <2>1, TakesFields
  <2>3. b.tokens < 1 <=> BucketSize - b.tokens >= BucketSize
    BY <2>1, Constants
  <2> QED BY <1>1, <1>3, <2>1, <2>2, <2>3
<1>4. CASE ~ Exists(r)
  <2>1. b.tokens = BucketSize /\ b.last = t
    BY <1>1, <1>4 DEF Filled
  <2>2. TakesFrom(b, e).answer = "allowed"
    BY <1>2, <2>1, TakesFields, Constants
  <2> QED BY <1>1, <1>4, <2>2, Constants
<1> QED BY <1>3, <1>4

LEMMA EndsFull ==
    ASSUME NEW s, NEW x, NEW n \in Int, s = Ends(x, Verdict(n > Limit))
    PROVE  s.leg = "end" /\ s.row = x /\ (s.answer = "blocked" <=> n > Limit)
BY DEF Ends, Yield, Verdict

LEMMA EmptyWindow == ASSUME NEW x \in Int PROVE Len(Prune(<< >>, x)) = 0
<1>1. PICK h \in Seq(Nat) : h = << >>
  BY EmptyIs
<1>2. Len(Prune(h, x)) = Live(h, x) /\ Live(h, x) = 0
  BY <1>1, LivePrune, EmptyIs
<1> QED BY <1>1, <1>2

LEMMA AgreesRedis ==
    ASSUME Base, backend = "redis" PROVE PreviewAgrees
<1>1. PICK p \in Calls : p.t = now /\ p.leg = "start" /\ Alone = Then(p, Then(p, StepOf(row, p)))
  BY AloneIs
<1>2. Sane(row) /\ Setting /\ Fine(Unexpired(row))
  BY FineUnexpired DEF Base, Fine
<1>3. PICK e : e = Unexpired(row)
  OBVIOUS
<1>4. e \in Rows /\ e.count \in Int /\ e.hits \in Seq(Nat)
  BY <1>2, <1>3 DEF Fine, Sane, Rows
<1>5. ~ Weighted /\ now \in Int /\ now \in Nat /\ now - Window \in Int /\ now + 10 * Interval \in Int
  BY <1>2, Constants DEF Weighted, Setting
<1>6. StepOf(row, p).leg = "end" => Alone = StepOf(row, p)
  BY <1>1 DEF Then
<1>7. CASE strategy = "FIXED_WINDOW"
  <2>1. PICK x : x = FixedRow(e.count + 1, IF e.count = 0 THEN now + Window ELSE e.exp)
    OBVIOUS
  <2>2. StepOf(row, p) = Ends(x, Verdict(e.count + 1 > Limit))
    BY <1>2, <1>3, <1>7, <2>1, RedisFixed
  <2>3. Alone.answer = "blocked" <=> e.count + 1 > Limit
    <3>1. e.count + 1 \in Int
      BY <1>4
    <3> QED BY <1>6, <2>2, <3>1, EndsFull
  <2>4. Preview = e.count
    BY <1>2, <1>3, <1>7, RedisPreview
  <2>5. e.count + 1 > Limit <=> e.count >= Limit
    BY <1>4, Constants
  <2> QED BY <1>5, <1>7, <2>3, <2>4, <2>5 DEF PreviewAgrees
<1>8. CASE strategy = "SLIDING_WINDOW"
  <2>1. PICK h : h = Insert(Prune(e.hits, now - Window), now)
    OBVIOUS
  <2>2. StepOf(row, p) = Ends(SlidingRow(h, now + Window), Verdict(Len(h) > Limit))
    BY <1>1, <1>2, <1>3, <1>8, <2>1, RedisSliding
  <2>4. Preview = Len(Prune(e.hits, now - Window))
    BY <1>2, <1>3, <1>8, RedisPreview
  <2>5. Prune(e.hits, now - Window) \in Seq(Nat)
    BY <1>4, <1>5, LivePrune
  <2>6. Len(h) = Len(Prune(e.hits, now - Window)) + 1 /\ Len(Prune(e.hits, now - Window)) \in Nat
    BY <1>5, <2>1, <2>5, LiveInsert
  <2>7. Len(h) > Limit <=> Len(Prune(e.hits, now - Window)) >= Limit
    BY <2>6, Constants
  <2>8. Alone.answer = "blocked" <=> Len(h) > Limit
    BY <1>6, <2>2, <2>6, EndsFull
  <2> QED BY <1>5, <1>8, <2>4, <2>7, <2>8 DEF PreviewAgrees
<1>9. CASE strategy = "TOKEN_BUCKET"
  <2>1. StepOf(row, p) = TakesFrom(Filled(e, now), now + 10 * Interval)
    BY <1>1, <1>2, <1>3, <1>9, RedisBucket
  <2>2. Alone = StepOf(row, p)
    BY <1>6, <2>1, StepFields DEF TakesFrom
  <2>3. Preview = IF Exists(e) THEN BucketSize - Refill(e.count, e.at, now).tokens ELSE 0
    BY <1>2, <1>3, <1>9, RedisPreview
  <2> QED BY <1>4, <1>5, <1>9, <2>1, <2>2, <2>3, BucketAgrees DEF PreviewAgrees
<1> QED BY <1>2, <1>7, <1>8, <1>9 DEF Setting, Strategies

LEMMA AgreesServer ==
    ASSUME Base, backend \in {"postgres", "mongo"} PROVE PreviewAgrees
<1>1. PICK p \in Calls : p.t = now /\ p.leg = "start" /\ Alone = Then(p, Then(p, StepOf(row, p)))
  BY AloneIs
<1>2. Sane(row) /\ Setting /\ Fine(row)
  BY DEF Base, Fine
<1>4. /\ row \in Rows /\ row.count \in Int /\ row.hits \in Seq(Nat) /\ row.exp \in Int
      /\ row.at \in Int /\ row.at <= now
  BY <1>2 DEF Fine, Sane, Rows
<1>5. ~ Weighted /\ now \in Int /\ now \in Nat /\ now - Window \in Int
  BY <1>2, Constants DEF Weighted, Setting
<1>6. StepOf(row, p).leg = "end" => Alone = StepOf(row, p)
  BY <1>1 DEF Then
<1>7. CASE strategy = "FIXED_WINDOW"
  <2>1. CASE Exists(row) /\ row.exp > now
    <3>1. PICK x : x = [row EXCEPT !.count = @ + 1]
      OBVIOUS
    <3>2. StepOf(row, p) = Ends(x, Verdict(row.count + 1 > Limit))
      BY <1>1, <1>2, <1>7, <2>1, <3>1, ServerFixed
    <3>3. Alone.answer = "blocked" <=> row.count + 1 > Limit
      <4>1. row.count + 1 \in Int
        BY <1>4
      <4> QED BY <1>6, <3>2, <4>1, EndsFull
    <3>4. Preview = row.count
      BY <1>4, <1>5, <1>7, <2>1, ServerPreview
    <3>5. row.count + 1 > Limit <=> row.count >= Limit
      BY <1>4, Constants
    <3> QED BY <1>5, <1>7, <3>3, <3>4, <3>5 DEF PreviewAgrees
  <2>2. CASE ~ (Exists(row) /\ row.exp > now)
    <3>1. StepOf(row, p) = Ends(FixedRow(1, now + Window), Verdict(1 > Limit))
      BY <1>1, <1>2, <1>7, <2>2, ServerFixed
    <3>2. Alone.answer = "blocked" <=> 1 > Limit
      BY <1>6, <3>1, EndsFull
    <3>3. Preview = 0
      BY <1>4, <1>5, <1>7, <2>2, ServerPreview
    <3>4. ~(1 > Limit) /\ ~(0 >= Limit)
      BY Constants
    <3> QED BY <1>5, <1>7, <3>2, <3>3, <3>4 DEF PreviewAgrees
  <2> QED BY <2>1, <2>2
<1>8. CASE strategy = "SLIDING_WINDOW"
  <2>1. PICK g : g = Prune(row.hits, now - Window)
    OBVIOUS
  <2>2. g \in Seq(Nat) /\ Len(g) \in Nat
    BY <1>4, <1>5, <2>1, LivePrune
  <2>3. Alone.answer = "blocked" <=> Len(g) + 1 > Limit
    <3>1. CASE backend = "mongo"
      <4>1. StepOf(row, p) = Ends(SlidingRow(g \o Copies(1, now), now + Window),
                                  Verdict(Len(g \o Copies(1, now)) > Limit))
        BY <1>1, <1>8, <2>1, <3>1, MongoSliding
      <4>2. Len(g \o Copies(1, now)) = Len(g) + 1 /\ Len(g \o Copies(1, now)) \in Int
        BY <1>5, <2>2, LiveAppend
      <4>3. Alone.answer = "blocked" <=> Len(g \o Copies(1, now)) > Limit
        BY <1>6, <4>1, <4>2, EndsFull
      <4> QED BY <4>2, <4>3
    <3>2. CASE backend = "postgres" /\ Exists(row)
      <4>1. PICK h : h = Sorted(g) \o Copies(1, now)
        OBVIOUS
      <4>2. StepOf(row, p) = Ends(SlidingRow(h, Pg!Newest(h)), Verdict(Len(h) > Limit))
        BY <1>1, <1>8, <2>1, <3>2, <4>1, PgSliding
      <4>3. Sorted(g) \in Seq(Nat) /\ Len(Sorted(g)) = Len(g)
        BY <2>2, LiveSorted
      <4>4. Len(h) = Len(g) + 1
        BY <1>5, <4>1, <4>3, LiveAppend
      <4>5. Alone.answer = "blocked" <=> Len(h) > Limit
        BY <1>6, <2>2, <4>2, <4>4, EndsFull
      <4> QED BY <4>4, <4>5
    <3>3. CASE backend = "postgres" /\ ~ Exists(row)
      <4>1. StepOf(row, p) = Ends(SlidingRow(Copies(1, now), now + Window), Verdict(1 > Limit))
        BY <1>1, <1>8, <3>3, PgSliding
      <4>2. row.hits = << >>
        BY <1>2, <3>3, NoRowFields DEF Sane
      <4>3. Len(g) + 1 = 1
        BY <1>5, <2>1, <4>2, EmptyWindow
      <4>4. Alone.answer = "blocked" <=> 1 > Limit
        BY <1>6, <4>1, EndsFull
      <4> QED BY <4>3, <4>4
    <3> QED BY <3>1, <3>2, <3>3
  <2>4. Preview = Len(g)
    <3>1. CASE Exists(row)
      BY <1>8, <2>1, <3>1, ServerPreview
    <3>2. CASE ~ Exists(row)
      <4>1. row.hits = << >>
        BY <1>2, <3>2, NoRowFields DEF Sane
      <4>2. Len(g) = 0
        BY <1>5, <2>1, <4>1, EmptyWindow
      <4> QED BY <3>2, <4>2, ServerPreview
    <3> QED BY <3>1, <3>2
  <2>5. Len(g) + 1 > Limit <=> Len(g) >= Limit
    BY <2>2, Constants
  <2> QED BY <1>5, <1>8, <2>3, <2>4, <2>5 DEF PreviewAgrees
<1>9. CASE strategy = "TOKEN_BUCKET"
  <2>1. Preview = IF Exists(row) THEN BucketSize - Refill(row.count, row.at, now).tokens ELSE 0
    BY <1>9, ServerPreview
  <2>2. PICK b : b = Filled(row, now)
    OBVIOUS
  <2>3. b.tokens \in Int /\ b.last \in Int /\ b.last + Interval \in Int
    BY <1>2, <1>4, <1>5, <2>2, FilledFacts, Constants
  <2>4. TakesFrom(b, b.last + Interval).answer = "blocked" <=> Preview >= BucketSize
    BY <1>4, <1>5, <2>1, <2>2, <2>3, BucketAgrees
  <2>5. Alone.answer = "blocked" <=> TakesFrom(b, b.last + Interval).answer = "blocked"
    <3>1. CASE backend = "postgres"
      <4>1. PICK s : s = StepOf(row, p)
        OBVIOUS
      <4>2. s = Yield(row, "upsert", row, "none")
        BY <1>1, <1>2, <1>9, <3>1, <4>1, PgBucket
      <4>3. s.leg = "upsert" /\ s.seen = row /\ s.row = row
        BY <4>2, StepFields
      <4>4. PICK q : q = Onward(p, s)
        OBVIOUS
      <4>5. q \in Calls /\ q.leg = "upsert" /\ q.seen = row /\ q.t = now
        BY <1>1, <1>4, <4>3, <4>4, OnwardFields DEF Legs
      <4>6. StepOf(row, q) = TakesFrom(b, b.last + Interval)
        BY <1>2, <1>9, <2>2, <3>1, <4>5, PgBucket
      <4>7. StepOf(row, q).leg = "end"
        BY <4>6, StepFields DEF TakesFrom
      <4>8. Alone = StepOf(row, q)
        BY <1>1, <4>1, <4>3, <4>4, <4>7 DEF Then
      <4> QED BY <4>6, <4>8
    <3>2. CASE backend = "mongo" /\ ~ Exists(row)
      <4>1. StepOf(row, p) = TakesFrom(b, b.last + Interval)
        BY <1>1, <1>2, <1>9, <2>2, <3>2, MongoBucket
      <4> QED BY <1>6, <4>1, StepFields DEF TakesFrom
    <3>3. CASE backend = "mongo" /\ Exists(row)
      <4>1. PICK d : d = Rewound(row, now)
        OBVIOUS
      <4>2. StepOf(row, p) = TakesFrom(d, d.last + Interval)
        BY <1>1, <1>2, <1>9, <3>3, <4>1, MongoBucket
      <4>3. Alone = StepOf(row, p)
        BY <1>6, <4>2, StepFields DEF TakesFrom
      <4>4. d.tokens \in Int /\ d.last \in Int /\ d.last + Interval \in Int
        BY <1>4, <1>5, <4>1, RewoundFacts, Constants
      <4>5. TakesFrom(d, d.last + Interval).answer = "blocked" <=> d.tokens < 1
        BY <4>4, TakesFields
      <4>6. TakesFrom(b, b.last + Interval).answer = "blocked" <=> b.tokens < 1
        BY <2>3, TakesFields
      <4>7. b = Refill(row.count, row.at, now)
        BY <2>2, <3>3 DEF Filled
      <4>8. \/ d = b
            \/ /\ d.last = row.at /\ d.tokens = Least(BucketSize, row.count)
               /\ now < row.at + Interval
        BY <1>4, <1>5, <4>1, <4>7, RewoundFacts
      <4>9. ASSUME now < row.at + Interval PROVE b.tokens = row.count
        <5>1. \/ b.last = row.at /\ b.tokens = row.count
              \/ row.at + Interval <= b.last /\ b.last <= now
          BY <1>4, <1>5, <4>7, RefillFacts
        <5> QED BY <1>4, <1>5, <2>3, <4>9, <5>1, Constants
      <4>10. Least(BucketSize, row.count) < 1 <=> row.count < 1
        BY <1>4, Constants DEF Least
      <4> QED BY <4>2, <4>3, <4>5, <4>6, <4>8, <4>9, <4>10
    <3> QED BY <3>1, <3>2, <3>3
  <2> QED BY <1>5, <1>9, <2>4, <2>5 DEF PreviewAgrees
<1> QED BY <1>2, <1>7, <1>8, <1>9 DEF Setting, Strategies

LEMMA AgreesDynamoBucket ==
    ASSUME Base, backend = "dynamo", strategy = "TOKEN_BUCKET" PROVE PreviewAgrees
<1>1. PICK p \in Calls : p.t = now /\ p.leg = "start" /\ Alone = Then(p, Then(p, StepOf(row, p)))
  BY AloneIs
<1>2. Sane(row) /\ Setting /\ Fine(row) /\ row \in Rows
  BY DEF Base, Fine, Sane
<1>3. ~ Weighted /\ now \in Nat /\ now + 3 * Interval \in Int
  BY <1>2, Constants DEF Weighted, Setting
<1>4. Preview = IF Exists(row) THEN BucketSize - Refill(row.count, row.at, now).tokens ELSE 0
  BY DynamoPreview
<1>5. PICK s : s = StepOf(row, p)
  OBVIOUS
<1>6. s = Yield(row, "write", row, "none")
  BY <1>1, <1>2, <1>5, DynamoBucket
<1>7. s.leg = "write" /\ s.seen = row /\ s.row = row
  BY <1>6, StepFields
<1>8. PICK q : q = Onward(p, s)
  OBVIOUS
<1>9. q \in Calls /\ q.leg = "write" /\ q.seen = row /\ q.t = now
  BY <1>1, <1>2, <1>7, <1>8, OnwardFields DEF Legs
<1>10. StepOf(row, q) = TakesFrom(Filled(row, now), now + 3 * Interval)
  BY <1>2, <1>9, DynamoBucket DEF Unchanged
<1>11. StepOf(row, q).leg = "end"
  BY <1>10, StepFields DEF TakesFrom
<1>12. Alone = StepOf(row, q)
  BY <1>1, <1>5, <1>7, <1>8, <1>11 DEF Then
<1> QED BY <1>2, <1>3, <1>4, <1>10, <1>12, BucketAgrees DEF PreviewAgrees

LEMMA AgreesDynamoFixed ==
    ASSUME Base, backend = "dynamo", strategy = "FIXED_WINDOW" PROVE PreviewAgrees
<1>1. PICK p \in Calls : p.t = now /\ p.leg = "start" /\ Alone = Then(p, Then(p, StepOf(row, p)))
  BY AloneIs
<1>2. Sane(row) /\ Setting /\ Fine(row) /\ row \in Rows
  BY DEF Base, Fine, Sane
<1>3. ~ Weighted /\ now \in Nat
  BY <1>2 DEF Weighted, Setting
<1>4. PICK b : b = Bound(now)
  OBVIOUS
<1>5. b \in Nat /\ b <= now /\ now < b + Window
  BY <1>3, <1>4, BoundFacts
<1>6. CASE Exists(row) /\ row.at = b
  <2>1. row.count \in Int /\ row.at \in Int
    BY <1>2 DEF Rows
  <2>2. StepOf(row, p) = Ends(Raised(row, now), Verdict(Greatest(0, row.count + 1) > Limit))
    BY <1>1, <1>2, <1>4, <1>6, DynamoFixed
  <2>3. Greatest(0, row.count + 1) \in Int
    BY <2>1 DEF Greatest
  <2>4. PICK x : x = Raised(row, now)
    OBVIOUS
  <2>5. /\ StepOf(row, p).leg = "end"
        /\ StepOf(row, p).answer = "blocked" <=> Greatest(0, row.count + 1) > Limit
    BY <2>2, <2>3, <2>4, EndsFull
  <2>6. Alone = StepOf(row, p)
    BY <1>1, <2>5 DEF Then
  <2>7. Preview = Greatest(0, row.count)
    BY <1>3, <1>5, <1>6, <2>1, Constants, DynamoPreview
  <2>8. Greatest(0, row.count + 1) > Limit <=> Greatest(0, row.count) >= Limit
    BY <2>1, Constants DEF Greatest
  <2> QED BY <1>3, <2>5, <2>6, <2>7, <2>8 DEF PreviewAgrees
<1>7. CASE ~ (Exists(row) /\ row.at = b)
  <2>1. PICK s : s = StepOf(row, p)
    OBVIOUS
  <2>2. s = Yield(row, "restart", NoRow, "none")
    BY <1>1, <1>2, <1>4, <1>7, <2>1, DynamoFixed
  <2>3. s.leg = "restart" /\ s.seen = NoRow /\ s.row = row
    BY <2>2, StepFields
  <2>4. PICK q : q = Onward(p, s)
    OBVIOUS
  <2>5. q \in Calls /\ q.leg = "restart" /\ q.t = now
    BY <1>1, <2>3, <2>4, OnwardFields, NoRowFields DEF Legs
  <2>6. Exists(row) => row.at \in Nat /\ row.at < b /\ row.at + Window <= b
    <3>1. row.at \in Nat /\ Bound(row.at) = row.at /\ row.at <= now
      BY <1>2 DEF Fine
    <3>2. row.at <= b
      BY <1>3, <1>4, <3>1, Starts
    <3> QED BY <1>3, <1>4, <1>5, <1>7, <3>1, <3>2, Starts
  <2>7. StepOf(row, q) = Ends(Opened(b, 1, 0, now), Verdict(1 > Limit))
    BY <1>2, <1>4, <2>5, <2>6, DynamoFixed
  <2>8. PICK x : x = Opened(b, 1, 0, now)
    OBVIOUS
  <2>9. /\ StepOf(row, q).leg = "end"
        /\ StepOf(row, q).answer = "blocked" <=> 1 > Limit
    BY <2>7, <2>8, EndsFull
  <2>10. Alone = StepOf(row, q)
    BY <1>1, <2>1, <2>3, <2>4, <2>9 DEF Then
  <2>11. Preview = 0
    BY <1>3, <1>5, <2>6, Constants, DynamoPreview
  <2>12. ~(1 > Limit) /\ ~(0 >= Limit)
    BY Constants
  <2> QED BY <1>3, <2>9, <2>10, <2>11, <2>12 DEF PreviewAgrees
<1> QED BY <1>6, <1>7

\* The weight of the previous window.
LEMMA WeightFacts ==
    ASSUME NEW t \in Nat, NEW s \in Int
    PROVE  LET w == Dynamo!Weight(t, s) IN
           /\ w \in Nat /\ w <= Window
           /\ t < s + Window => w > 0
           /\ t >= s + Window => w = 0
           /\ s <= t /\ t < s + Window => w = Window - (t - s)
<1> USE Constants
<1>1. CASE t - s <= 0
  BY <1>1 DEF Dynamo!Weight
<1>2. CASE t - s >= Window
  BY <1>2 DEF Dynamo!Weight
<1>3. CASE t - s > 0 /\ t - s < Window
  <2>1. Dynamo!Weight(t, s) = Window - (t - s)
    BY <1>3 DEF Dynamo!Weight
  <2> QED BY <1>3, <2>1
<1> QED BY <1>1, <1>2, <1>3

\* A smaller factor, and a product in the bounds of its terms.
LEMMA Product ==
    ASSUME NEW n \in Int, NEW w \in Nat, NEW W \in Nat, w <= W
    PROVE  /\ n * w \in Int /\ n * W \in Int
           /\ n >= 0 => n * w <= n * W /\ n * w >= 0
           /\ n <= 0 => n * w <= 0
<1>1. n * w \in Int /\ n * W \in Int
  OBVIOUS
<1>2. n >= 0 => n * w <= n * W /\ n * w >= 0
  <2>1. PICK d \in Nat : W = w + d
    <3>1. W - w \in Nat /\ W = w + (W - w)
      OBVIOUS
    <3> QED BY <3>1
  <2>2. n * W = n * w + n * d
    BY <2>1
  <2>3. n >= 0 => n * d >= 0 /\ n * w >= 0
    OBVIOUS
  <2> QED BY <1>1, <2>2, <2>3
<1>3. n <= 0 => n * w <= 0
  OBVIOUS
<1> QED BY <1>1, <1>2, <1>3

LEMMA AgreesWeighted ==
    ASSUME Base, backend = "dynamo", strategy = "SLIDING_WINDOW" PROVE PreviewAgrees
<1>1. PICK p \in Calls : p.t = now /\ p.leg = "start" /\ Alone = Then(p, Then(p, StepOf(row, p)))
  BY AloneIs
<1>2. Sane(row) /\ Setting /\ Fine(row) /\ row \in Rows
  BY DEF Base, Fine, Sane
<1>3. Weighted /\ ~ Exact /\ now \in Nat
  BY <1>2 DEF Weighted, Setting, Exact
<1>4. PICK b \in Nat : b = Bound(now) /\ b <= now /\ now < b + Window
  BY <1>3, BoundFacts
<1>5. row.hits = << >> /\ row.count \in Int /\ row.prev \in Int /\ row.at \in Nat /\ row.at <= b
  <2>1. row.at \in Nat /\ Bound(row.at) = row.at /\ row.at <= now
    BY <1>2 DEF Fine
  <2>2. row.at <= b
    BY <1>3, <1>4, <2>1, Starts
  <2> QED BY <1>2, <1>3, <2>1, <2>2 DEF Fine, Rows
<1>6. PICK y : y = Dynamo!SimulateWeightedIncrement(row, now, 1)
  OBVIOUS
<1>7. y = IF Exists(row) /\ row.at = b THEN Opened(b, row.count + 1, row.prev, now)
          ELSE IF Exists(row) /\ row.at + Window = b THEN Opened(b, 1, row.count, now)
          ELSE Opened(b, 1, 0, now)
  BY <1>4, <1>6, DynamoOps, DynamoWindowOps DEF Dynamo!SimulateWeightedIncrement, Bound
<1>8. SUFFICES /\ Alone.row = y
               /\ Alone.answer = "blocked" => Preview + Window > Limit * Window
  BY <1>2, <1>3, <1>6 DEF PreviewAgrees
<1>9. Limit * Window \in Nat /\ Limit * Window >= Window
  <2>1. PICK k \in Nat : Limit = k + 1
    <3>1. Limit - 1 \in Nat /\ Limit = (Limit - 1) + 1
      BY Constants
    <3> QED BY <3>1
  <2>2. Limit * Window = k * Window + Window /\ k * Window \in Nat
    BY <2>1, Constants
  <2> QED BY <2>2, Constants
<1>10. PICK w \in Nat : w = Dynamo!Weight(now, b) /\ w <= Window /\ w > 0
  BY <1>3, <1>4, WeightFacts
<1>11. ASSUME NEW x \in Rows, NEW q \in Calls, x.at = b, StepOf(row, q) = Weighs(x, now)
       PROVE  /\ StepOf(row, q).leg = "end" /\ StepOf(row, q).row = x
              /\ StepOf(row, q).answer = "blocked" <=> x.prev * w + x.count * Window > Limit * Window
  <2>1. x.prev \in Int /\ x.count \in Int
    BY DEF Rows
  <2>2. Dynamo!WeightedCount(x, now) = x.prev * w + x.count * Window
    BY <1>10, <1>11 DEF Dynamo!WeightedCount
  <2>3. PICK n \in Int : n = x.prev * w + x.count * Window
    BY <2>1, Constants
  <2>4. StepOf(row, q) = Ends(x, Verdict(n > Limit * Window))
    BY <1>11, <2>2, <2>3 DEF Weighs
  <2>5. /\ StepOf(row, q).leg = "end" /\ StepOf(row, q).row = x
        /\ StepOf(row, q).answer = "blocked" <=> n > Limit * Window
    BY <2>4 DEF Ends, Yield, Verdict
  <2> QED BY <2>3, <2>5
<1>12. CASE Exists(row) /\ row.at = b
  <2>1. PICK x : x = Raised(row, now)
    OBVIOUS
  <2>2. /\ x \in Rows /\ x.hits = << >> /\ x.count = row.count + 1 /\ x.prev = row.prev
        /\ x.at = b /\ x.exp = now + 3 * Window
    <3>1. row.count + 1 \in Int /\ now + 3 * Window \in Int
      BY <1>3, <1>5, Constants
    <3> QED BY <1>2, <1>5, <1>12, <2>1, <3>1 DEF Raised, Rows
  <2>3. StepOf(row, p) = Weighs(x, now)
    BY <1>1, <1>4, <1>12, <2>1, DynamoSliding
  <2>4. Alone = StepOf(row, p)
    BY <1>1, <1>11, <2>2, <2>3 DEF Then
  <2>5. y = x
    <3>1. /\ y.hits = << >> /\ y.count = row.count + 1 /\ y.prev = row.prev /\ y.at = b
          /\ y.exp = now + 3 * Window
      BY <1>7, <1>12, OpenedFields
    <3>2. y \in Rows
      <4>1. row.count + 1 \in Int /\ b \in Int /\ now \in Int
        BY <1>3, <1>5
      <4> QED BY <1>5, <1>7, <1>12, <4>1, OpenedFields
    <3> QED BY <2>2, <3>1, <3>2, SameRow
  <2>6. Preview = Dynamo!WeightedCount(row, now)
    BY <1>3, <1>4, <1>5, <1>12, Constants, DynamoPreview
  <2>7. Preview = row.prev * w + row.count * Window
    BY <1>10, <1>12, <2>6 DEF Dynamo!WeightedCount
  <2>8. x.prev * w + x.count * Window = (row.prev * w + row.count * Window) + Window
    <3>1. (row.count + 1) * Window = row.count * Window + Window
      BY <1>5, Constants
    <3>2. row.prev * w \in Int /\ row.count * Window \in Int
      BY <1>5, Constants
    <3> QED BY <2>2, <3>1, <3>2, Constants
  <2> QED BY <1>8, <1>11, <2>2, <2>3, <2>4, <2>5, <2>7, <2>8
<1>13. ASSUME ~ (Exists(row) /\ row.at = b)
       PROVE  \E q \in Calls : /\ q.leg = "roll" /\ q.t = now
                               /\ Alone = Then(p, StepOf(row, q))
  <2>1. PICK s : s = StepOf(row, p)
    OBVIOUS
  <2>2. s = Yield(row, "roll", NoRow, "none")
    BY <1>1, <1>4, <1>13, <2>1, DynamoSliding
  <2>3. s.leg = "roll" /\ s.seen = NoRow /\ s.row = row
    BY <2>2, StepFields
  <2>4. PICK q : q = Onward(p, s)
    OBVIOUS
  <2>5. q \in Calls /\ q.leg = "roll" /\ q.t = now
    BY <1>1, <2>3, <2>4, OnwardFields, NoRowFields DEF Legs
  <2>6. Then(p, s) = StepOf(row, q)
    BY <2>3, <2>4 DEF Then
  <2> QED BY <1>1, <2>1, <2>5, <2>6
<1>14. CASE Exists(row) /\ row.at = b - Window
  <2>1. ~ (Exists(row) /\ row.at = b)
    BY <1>14, Constants
  <2>2. PICK q \in Calls : q.leg = "roll" /\ q.t = now /\ Alone = Then(p, StepOf(row, q))
    BY <1>13, <2>1
  <2>3. y = Opened(b, 1, row.count, now)
    <3>1. row.at # b /\ row.at + Window = b
      BY <1>14, Constants
    <3> QED BY <1>7, <1>14, <3>1
  <2>4. /\ y \in Rows /\ y.count = 1 /\ y.prev = row.count /\ y.at = b
    <3>1. b \in Int /\ now \in Int /\ 1 \in Int
      BY <1>3
    <3> QED BY <1>5, <2>3, <3>1, OpenedFields
  <2>5. StepOf(row, q) = Weighs(y, now)
    BY <1>4, <1>14, <2>2, <2>3, DynamoSliding
  <2>6. Alone = StepOf(row, q)
    BY <1>11, <2>2, <2>4, <2>5 DEF Then
  <2>7. Preview = Dynamo!WeightedCount(row, now)
    <3>1. ~(row.at + 2 * Window <= now)
      BY <1>3, <1>4, <1>14, Constants
    <3> QED BY <1>14, <3>1, DynamoPreview
  <2>8. Dynamo!Weight(now, row.at) = 0
    <3>1. row.at \in Int /\ now >= row.at + Window
      BY <1>3, <1>4, <1>5, <1>14, Constants
    <3> QED BY <1>3, <3>1, WeightFacts
  <2>9. Preview = row.count * Window
    <3>1. row.prev * 0 = 0 /\ row.count * Window \in Int
      BY <1>5, Constants
    <3> QED BY <2>7, <2>8, <3>1 DEF Dynamo!WeightedCount
  <2>10. ASSUME row.count * w + Window > Limit * Window
         PROVE  row.count * Window + Window > Limit * Window
    <3>1. row.count * w \in Int /\ row.count * Window \in Int
      BY <1>5, Constants
    <3>2. row.count * w > 0
      BY <1>9, <2>10, <3>1, Constants
    <3>3. row.count > 0
      BY <1>5, <3>2, <1>10, Constants, Product
    <3>4. row.count * w <= row.count * Window
      BY <1>5, <1>10, <3>3, Constants, Product
    <3> QED BY <1>9, <2>10, <3>1, <3>4, Constants
  <2>11. y.prev * w + y.count * Window = row.count * w + Window
    <3>1. 1 * Window = Window
      BY Constants
    <3> QED BY <2>4, <3>1
  <2> QED BY <1>8, <1>11, <2>2, <2>4, <2>5, <2>6, <2>9, <2>10, <2>11
<1>15. CASE ~ Exists(row) \/ (row.at # b /\ row.at # b - Window)
  <2>1. PICK q \in Calls : q.leg = "roll" /\ q.t = now /\ Alone = Then(p, StepOf(row, q))
    BY <1>13, <1>15
  <2>2. PICK s : s = StepOf(row, q)
    OBVIOUS
  <2>3. s = Yield(row, "restart", NoRow, "none")
    BY <1>4, <1>15, <2>1, <2>2, DynamoSliding
  <2>4. s.leg = "restart" /\ s.seen = NoRow /\ s.row = row
    BY <2>3, StepFields
  <2>5. PICK o : o = Onward(p, s)
    OBVIOUS
  <2>6. o \in Calls /\ o.leg = "restart" /\ o.t = now
    BY <1>1, <2>4, <2>5, OnwardFields, NoRowFields DEF Legs
  <2>7. Exists(row) => row.at < b
    BY <1>4, <1>5, <1>15
  <2>8. y = Opened(b, 1, 0, now)
    <3>1. Exists(row) => row.at # b /\ row.at + Window # b
      BY <1>5, <1>15, Constants
    <3> QED BY <1>7, <3>1
  <2>9. y \in Rows /\ y.count = 1 /\ y.prev = 0 /\ y.at = b
    <3>1. b \in Int /\ now \in Int /\ 1 \in Int /\ 0 \in Int
      BY <1>3
    <3> QED BY <2>8, <3>1, OpenedFields
  <2>10. StepOf(row, o) = Weighs(y, now)
    BY <1>4, <2>6, <2>7, <2>8, DynamoSliding
  <2>11. Alone = StepOf(row, o)
    BY <2>1, <2>2, <2>4, <2>5 DEF Then
  <2>12. ~(y.prev * w + y.count * Window > Limit * Window)
    <3>1. 0 * w = 0 /\ 1 * Window = Window
      BY Constants
    <3> QED BY <1>9, <2>9, <3>1, Constants
  <2> QED BY <1>8, <1>11, <2>6, <2>9, <2>10, <2>11, <2>12
<1> QED BY <1>12, <1>14, <1>15

LEMMA AgreesAlways == Base => PreviewAgrees
<1> SUFFICES ASSUME Base PROVE PreviewAgrees
  OBVIOUS
<1>1. Setting
  BY DEF Base
<1> QED BY <1>1, AgreesRedis, AgreesServer, AgreesDynamoBucket, AgreesDynamoFixed, AgreesWeighted
        DEF Setting, Strategies

\* What get() reports and what an increment answers never disagree, in any store and
\* strategy, whatever other callers have left in the row.
THEOREM PreviewCorrect == Spec => []PreviewAgrees
BY BaseAlways, AgreesAlways, PTL

-----------------------------------------------------------------------------
(* The calls after a step                                                  *)

LEMMA Others ==
    ASSUME Base, NEW c \in Callers, NEW q, Move(c, q)
    PROVE  call'[c] = q /\ \A d \in Callers : d # c => call'[d] = call[d]
BY DEF Base, Move

\* increment() or decrement() begins.
Begins(c, op) ==
    LET p == call[c]  q == call'[c] IN
    /\ p.leg = "end" /\ q.op = op /\ q.leg = "start" /\ q.t = now
    /\ q.round = p.round /\ q.answer = p.answer /\ q.gone = p.gone /\ q.at = p.at
    /\ q.filed = p.filed /\ q.seen = p.seen
    /\ op = "incr" => p.op = "none" /\ p.answer = "none"
    /\ op = "undo" => /\ p.op = "incr" /\ p.answer \in {"allowed", "blocked"}
                      /\ q.newest = (p.answer = "blocked")
    /\ UNCHANGED <<row, now, lock, admin, errors, leaks>>

LEMMA BeginFields ==
    ASSUME Base, NEW c \in Callers
    PROVE  /\ Increment(c) => /\ Begins(c, "incr")
                              /\ \A d \in Callers : d # c => call'[d] = call[d]
           /\ Decrement(c) => /\ Begins(c, "undo")
                              /\ \A d \in Callers : d # c => call'[d] = call[d]
<1>1. PICK p \in Calls : p = call[c] /\ FineCall(p)
  BY DEF Base
<1>2. ASSUME Increment(c)
      PROVE  Begins(c, "incr") /\ \A d \in Callers : d # c => call'[d] = call[d]
  <2>1. PICK q : q = [p EXCEPT !.op = "incr", !.t = now, !.leg = "start"]
    OBVIOUS
  <2>2. Move(c, q)
    BY <1>1, <1>2, <2>1 DEF Increment, Move, Base
  <2>3. call'[c] = q /\ \A d \in Callers : d # c => call'[d] = call[d]
    BY <2>2, Others
  <2>4. /\ q.op = "incr" /\ q.leg = "start" /\ q.t = now /\ q.round = p.round
        /\ q.answer = p.answer /\ q.gone = p.gone /\ q.at = p.at
        /\ q.filed = p.filed /\ q.seen = p.seen
    BY <1>1, <2>1 DEF Calls
  <2>5. p.op = "none" /\ p.answer = "none" /\ p.leg = "end"
    BY <1>1, <1>2 DEF Increment, FineCall, LegsOf
  <2> QED BY <1>1, <1>2, <2>3, <2>4, <2>5 DEF Increment, Begins
<1>3. ASSUME Decrement(c)
      PROVE  Begins(c, "undo") /\ \A d \in Callers : d # c => call'[d] = call[d]
  <2>1. PICK q : q = [p EXCEPT !.op = "undo", !.t = now, !.leg = "start", !.newest = (p.answer = "blocked")]
    OBVIOUS
  <2>2. Move(c, q)
    BY <1>1, <1>3, <2>1 DEF Decrement, Move, Base
  <2>3. call'[c] = q /\ \A d \in Callers : d # c => call'[d] = call[d]
    BY <2>2, Others
  <2>4. /\ q.op = "undo" /\ q.leg = "start" /\ q.t = now /\ q.round = p.round
        /\ q.answer = p.answer /\ q.gone = p.gone /\ q.at = p.at
        /\ q.filed = p.filed /\ q.seen = p.seen /\ q.newest = (p.answer = "blocked")
    BY <1>1, <2>1 DEF Calls
  <2>5. p.op = "incr" /\ p.leg = "end" /\ p.answer \in {"allowed", "blocked"}
    BY <1>1, <1>3 DEF Decrement
  <2> QED BY <1>1, <1>3, <2>3, <2>4, <2>5 DEF Decrement, Begins
<1> QED BY <1>2, <1>3

\* A statement of an increment.
Stepped(c) ==
    LET p == call[c]  q == call'[c]  s == StepOf(row, p) IN
    /\ p.op = "incr" /\ p.leg # "end" /\ p.answer = "none" /\ ~ p.gone
    /\ Unlocked(c) /\ StepOk(s, row, p)
    /\ q.op = "incr" /\ q.leg = s.leg /\ q.seen = s.seen /\ q.answer = s.answer /\ ~ q.gone
    /\ q.round = (IF s.leg = "end" THEN 1 ELSE IF s.leg = "start" THEN p.round + 1 ELSE p.round)
    /\ q.t = (IF s.leg = "end" /\ s.answer # "threw" THEN 0 ELSE p.t)
    /\ q.at = (IF s.leg = "end" THEN now ELSE p.at)
    /\ q.filed = (IF s.leg = "end" THEN FiledUnder(s.row, p.t) ELSE p.filed)
    /\ row' = s.row /\ now' = now /\ admin' = admin /\ lock' = LockAfter(c, s)
    /\ leaks \subseteq leaks'
    /\ InsertRace(c) => "insertRace" \in leaks'
    /\ BoundaryRace(c) => "boundaryRace" \in leaks'
    /\ ClockBehind(c) => "clockBehind" \in leaks'

LEMMA StepMoves ==
    ASSUME Base, NEW c \in Callers, IncrementStatement(c)
    PROVE  Stepped(c) /\ \A d \in Callers : d # c => call'[d] = call[d]
<1>1. PICK p \in Calls : p = call[c] /\ FineCall(p)
  BY DEF Base
<1>2. PICK s : s = StepOf(row, p)
  OBVIOUS
<1>3. PICK q : q = AfterStep(p, s)
  OBVIOUS
<1>4. /\ p.op = "incr" /\ p.leg # "end" /\ p.answer = "none" /\ ~ p.gone
      /\ Unlocked(c) /\ StepOk(s, row, p)
      /\ row' = s.row /\ Move(c, q)
      /\ now' = now /\ admin' = admin /\ lock' = LockAfter(c, s)
      /\ leaks' = leaks \union (IF InsertRace(c) THEN {"insertRace"} ELSE {})
                        \union (IF BoundaryRace(c) THEN {"boundaryRace"} ELSE {})
                        \union (IF ClockBehind(c) THEN {"clockBehind"} ELSE {})
  BY <1>1, <1>2, <1>3, IncrementMoves
<1>5. call'[c] = q /\ \A d \in Callers : d # c => call'[d] = call[d]
  BY <1>4, Others
<1>6. /\ q.op = "incr" /\ q.leg = s.leg /\ q.seen = s.seen /\ q.answer = s.answer /\ ~ q.gone
      /\ q.round = (IF s.leg = "end" THEN 1 ELSE IF s.leg = "start" THEN p.round + 1 ELSE p.round)
      /\ q.t = (IF s.leg = "end" /\ s.answer # "threw" THEN 0 ELSE p.t)
      /\ q.at = (IF s.leg = "end" THEN now ELSE p.at)
      /\ q.filed = (IF s.leg = "end" THEN FiledUnder(s.row, p.t) ELSE p.filed)
  BY <1>1, <1>3, <1>4 DEF AfterStep, Calls
<1>7. /\ leaks \subseteq leaks'
      /\ InsertRace(c) => "insertRace" \in leaks'
      /\ BoundaryRace(c) => "boundaryRace" \in leaks'
      /\ ClockBehind(c) => "clockBehind" \in leaks'
  BY <1>4
<1> QED BY <1>1, <1>2, <1>4, <1>5, <1>6, <1>7 DEF Stepped

\* An undo takes its snapshot.
Snapped(c) ==
    LET p == call[c]  q == call'[c] IN
    /\ Snapshots /\ p.op = "undo" /\ p.leg = "start" /\ q.op = "undo" /\ q.leg = "write"
    /\ q.answer = p.answer /\ q.gone = p.gone /\ q.at = p.at /\ q.filed = p.filed
    /\ UNCHANGED <<row, now, lock, admin, errors, leaks>>

LEMMA SnapStep ==
    ASSUME Base, NEW c \in Callers, Snapshot(c)
    PROVE  Snapped(c) /\ \A d \in Callers : d # c => call'[d] = call[d]
<1>1. PICK p \in Calls : p = call[c]
  BY DEF Base
<1>2. PICK q : q = [p EXCEPT !.leg = "write", !.seen = row]
  OBVIOUS
<1>3. /\ Move(c, q) /\ Snapshots /\ p.op = "undo" /\ p.leg = "start"
      /\ UNCHANGED <<row, now, lock, admin, errors, leaks>>
  BY <1>1, <1>2, SnapMoves
<1>4. call'[c] = q /\ \A d \in Callers : d # c => call'[d] = call[d]
  BY <1>3, Others
<1>5. /\ q.op = p.op /\ q.leg = "write" /\ q.answer = p.answer /\ q.gone = p.gone
      /\ q.at = p.at /\ q.filed = p.filed
  BY <1>1, <1>2 DEF Calls
<1> QED BY <1>1, <1>3, <1>4, <1>5 DEF Snapped

\* A statement of an undo.
Returned(c) ==
    LET p == call[c]  q == call'[c]  s == UndoOf(row, p) IN
    /\ p.op = "undo" /\ p.leg # "end" /\ Unlocked(c) /\ UndoOk(s)
    /\ Snapshots /\ Exists(row) => p.leg = "write"
    /\ q.op = "undo" /\ q.leg = s.leg /\ q.gone
    /\ s.leg = "end" => q.answer = "allowed" /\ q.round = 1 /\ q.at = 0 /\ q.filed = 0
    /\ s.leg # "end" => q.answer = p.answer /\ q.round = p.round /\ q.t = p.t /\ q.at = p.at
                        /\ q.filed = p.filed
    /\ row' = s.row /\ now' = now /\ admin' = admin /\ lock' = lock
    /\ leaks \subseteq leaks'
    /\ GivesBack(c) /\ LateUndo(c) => "lateUndo" \in leaks'
    /\ StaleUndo(c) => "staleUndo" \in leaks'
    /\ ShiftedUndo(c, p.newest) => "shiftedUndo" \in leaks'
    /\ MissedUndo(c) => "missedUndo" \in leaks'

LEMMA ReturnMoves ==
    ASSUME Base, NEW c \in Callers, DecrementStatement(c)
    PROVE  Returned(c) /\ \A d \in Callers : d # c => call'[d] = call[d]
<1>1. PICK p \in Calls : p = call[c] /\ FineCall(p)
  BY DEF Base
<1>2. PICK s : s = UndoOf(row, p)
  OBVIOUS
<1>3. PICK q : q = IF s.leg = "end" THEN Undone ELSE [p EXCEPT !.leg = s.leg, !.gone = TRUE]
  OBVIOUS
<1>4. /\ p.op = "undo" /\ p.leg # "end" /\ Unlocked(c) /\ UndoOk(s)
      /\ Snapshots /\ Exists(row) => p.leg = "write"
      /\ row' = s.row /\ Move(c, q)
      /\ now' = now /\ admin' = admin /\ lock' = lock
      /\ leaks' = leaks \union (IF GivesBack(c) /\ LateUndo(c) THEN {"lateUndo"} ELSE {})
                        \union (IF StaleUndo(c) THEN {"staleUndo"} ELSE {})
                        \union (IF ShiftedUndo(c, p.newest) THEN {"shiftedUndo"} ELSE {})
                        \union (IF MissedUndo(c) THEN {"missedUndo"} ELSE {})
  BY <1>1, <1>2, <1>3, UndoMoves
<1>5. call'[c] = q /\ \A d \in Callers : d # c => call'[d] = call[d]
  BY <1>4, Others
<1>6. s.leg = "end" => /\ q.op = "undo" /\ q.leg = s.leg /\ q.gone
                       /\ q.answer = "allowed" /\ q.round = 1 /\ q.at = 0 /\ q.filed = 0
  BY <1>3 DEF Undone, Idle
<1>7. s.leg # "end" => /\ q.op = "undo" /\ q.leg = s.leg /\ q.gone
                       /\ q.answer = p.answer /\ q.round = p.round /\ q.t = p.t /\ q.at = p.at
                       /\ q.filed = p.filed
  BY <1>1, <1>3, <1>4 DEF Calls
<1>8. /\ leaks \subseteq leaks'
      /\ GivesBack(c) /\ LateUndo(c) => "lateUndo" \in leaks'
      /\ StaleUndo(c) => "staleUndo" \in leaks'
      /\ ShiftedUndo(c, p.newest) => "shiftedUndo" \in leaks'
      /\ MissedUndo(c) => "missedUndo" \in leaks'
  BY <1>4
<1> QED BY <1>1, <1>2, <1>4, <1>5, <1>6, <1>7, <1>8 DEF Returned

\* A failed statement.
Failed(c) ==
    LET p == call[c]  q == call'[c]  s == StepOf(row, p) IN
    /\ p.op \in {"incr", "undo"} /\ p.leg # "end" /\ Unlocked(c)
    /\ \/ row' = row
       \/ /\ p.op = "incr" /\ p.answer = "none" /\ ~ p.gone /\ StepOk(s, row, p)
          /\ s.leg = "end" /\ s.answer # "threw" /\ row' = s.row
    /\ q.op = p.op /\ q.leg = "end" /\ q.round = 1 /\ q.seen = NoRow /\ q.gone = p.gone
    /\ q.filed = p.filed
    /\ p.op = "incr" => p.answer = "none" /\ ~ p.gone /\ q.answer = "failed" /\ q.at = now
    /\ p.op = "undo" => q.answer = p.answer /\ q.at = p.at
    /\ now' = now /\ admin' = admin /\ lock' = (IF lock = c THEN NoCaller ELSE lock)
    /\ leaks \subseteq leaks'
    /\ p.op = "incr" /\ InsertRace(c) => "insertRace" \in leaks'
    /\ p.op = "incr" /\ BoundaryRace(c) => "boundaryRace" \in leaks'
    /\ p.op = "incr" /\ ClockBehind(c) => "clockBehind" \in leaks'

LEMMA FailMoves ==
    ASSUME Base, NEW c \in Callers, StoreError(c)
    PROVE  Failed(c) /\ \A d \in Callers : d # c => call'[d] = call[d]
<1>1. PICK p \in Calls : p = call[c] /\ FineCall(p)
  BY DEF Base
<1>2. PICK s : s = StepOf(row, p)
  OBVIOUS
<1>3. PICK q : q = AfterError(p)
  OBVIOUS
<1>4. /\ p.op \in {"incr", "undo"} /\ p.leg # "end" /\ Unlocked(c)
      /\ \/ row' = row
         \/ /\ p.op = "incr" /\ p.answer = "none" /\ ~ p.gone /\ StepOk(s, row, p)
            /\ s.leg = "end" /\ s.answer # "threw" /\ row' = s.row
      /\ Move(c, q)
      /\ now' = now /\ admin' = admin
      /\ lock' = IF lock = c THEN NoCaller ELSE lock
      /\ leaks' = leaks \union
              (IF /\ p.op = "incr"
                  /\ InsertRace(c) \/ BoundaryRace(c) \/ ClockBehind(c)
               THEN {"insertRace", "boundaryRace", "clockBehind"} ELSE {})
  BY <1>1, <1>2, <1>3, ErrorMoves
<1>5. call'[c] = q /\ \A d \in Callers : d # c => call'[d] = call[d]
  BY <1>4, Others
<1>6. /\ q.op = p.op /\ q.leg = "end" /\ q.round = 1 /\ q.seen = NoRow /\ q.gone = p.gone
      /\ q.filed = p.filed
      /\ q.answer = (IF p.op = "incr" THEN "failed" ELSE p.answer)
      /\ q.at = (IF p.op = "incr" THEN now ELSE p.at)
  BY <1>1, <1>3 DEF AfterError, Calls
<1>7. p.op = "incr" => p.answer = "none" /\ ~ p.gone
  BY <1>1, <1>4 DEF FineCall
<1>8. p.op = "undo" => p.op # "incr"
  OBVIOUS
<1>9. /\ leaks \subseteq leaks'
      /\ p.op = "incr" /\ InsertRace(c) => "insertRace" \in leaks'
      /\ p.op = "incr" /\ BoundaryRace(c) => "boundaryRace" \in leaks'
      /\ p.op = "incr" /\ ClockBehind(c) => "clockBehind" \in leaks'
  BY <1>4
<1> QED BY <1>1, <1>2, <1>4, <1>5, <1>6, <1>7, <1>8, <1>9 DEF Failed

\* reset(), delete() and set().
Wiped == /\ \A c \in Callers : call'[c] = Marked(call[c]) \/ Drops(c)
         /\ lock = NoCaller /\ UNCHANGED <<now, lock>> /\ admin' > 0 /\ leaks \subseteq leaks'
         /\ row' = NoRow \/ \E n \in Nat : /\ row' = SetRow(n)
                                           /\ n > 0 => "set" \in leaks'

LEMMA WipeMoves ==
    ASSUME Base PROVE (Reset \/ \E n \in 0..Limit : Set(n)) => Wiped
<1>2. call' \in {WriteOff, Deleted(WriteOff)} =>
          \A c \in Callers : call'[c] = Marked(call[c]) \/ Drops(c)
  BY WriteOffIs
<1>3. admin \in Nat /\ Removed = {NoRow}
  BY RemovedIs DEF Base
<1>4. Reset => Wiped
  BY <1>2, <1>3 DEF Reset, Wiped
<1>5. ASSUME NEW n \in 0..Limit, Set(n) PROVE Wiped
  <2>1. n \in Nat
    BY Constants
  <2> QED BY <1>2, <1>3, <1>5, <2>1 DEF Set, Wiped
<1> QED BY <1>4, <1>5

LEMMA MarkedFields ==
    ASSUME NEW p \in Calls
    PROVE  LET q == Marked(p) IN
           /\ q.op = p.op /\ q.leg = p.leg /\ q.t = p.t /\ q.round = p.round /\ q.seen = p.seen
           /\ q.answer = p.answer /\ q.at = p.at /\ q.filed = p.filed
           /\ p.answer # "none" => q.gone
           /\ p.answer = "none" => q = p
BY DEF Marked, Calls

Expired == /\ Exists(row) /\ MayExpire /\ lock = NoCaller /\ row' = NoRow
           /\ UNCHANGED <<now, lock, admin>> /\ leaks \subseteq leaks'
           /\ \A c \in Callers : call'[c] = call[c] \/ Drops(c)
           /\ ~ Snapshots => call' = call
           /\ Preview > 0 => "sweptLive" \in leaks'

Ticked == /\ now' = now + 1 /\ UNCHANGED <<row, lock, call, admin, leaks>>
          /\ \A c \in Callers : call[c].leg # "end" => now < call[c].t + MaxLag

\* Every step is one of these.
Onestep(c) == \A d \in Callers : d # c => call'[d] = call[d]
LEMMA Changes ==
    ASSUME Base, [Next]_vars
    PROVE  /\ Base' /\ backend' = backend /\ strategy' = strategy
           /\ \/ UNCHANGED vars
              \/ \E c \in Callers : /\ Onestep(c)
                                    /\ \/ Begins(c, "incr") \/ Begins(c, "undo")
                                       \/ Stepped(c) \/ Snapped(c)
                                       \/ Returned(c) \/ Failed(c)
              \/ Wiped
              \/ Expired
              \/ Ticked
<1>1. Expire => Expired
  <2>1. MayExpire => Exists(row)
    <3>1. Setting
      BY DEF Base
    <3> QED BY <3>1, PgOps, MongoOps, DynamoOps
            DEF MayExpire, Setting, Pg!MayExpire, Mongo!MayExpire, Dynamo!MayExpire
  <2> QED BY <2>1, WriteOffIs DEF Expire, Expired
<1>2. Tick => Ticked
  BY DEF Tick, Ticked, Pending
<1>3. UNCHANGED Setup /\ Base'
  BY NextMoves, NextKeeps
<1>4. ASSUME NEW c \in Callers
      PROVE  /\ Increment(c) => Begins(c, "incr") /\ Onestep(c)
             /\ Decrement(c) => Begins(c, "undo") /\ Onestep(c)
             /\ IncrementStatement(c) => Stepped(c) /\ Onestep(c)
             /\ Snapshot(c) => Snapped(c) /\ Onestep(c)
             /\ DecrementStatement(c) => Returned(c) /\ Onestep(c)
             /\ StoreError(c) => Failed(c) /\ Onestep(c)
  BY BeginFields, StepMoves, SnapStep, ReturnMoves, FailMoves DEF Onestep
<1> QED BY <1>1, <1>2, <1>3, <1>4, WipeMoves, NextMoves DEF Setup

-----------------------------------------------------------------------------
(* DynamoDB's loops: windows                                               *)

Windowed == backend = "dynamo" /\ strategy # "TOKEN_BUCKET"

LEMMA WindowStep ==
    ASSUME Setting, Windowed, NEW r, Fine(r), NEW p, FineCall(p), p.op = "incr", p.leg # "end"
    PROVE  LET s == StepOf(r, p) IN
           /\ s.leg \in {"end", "start", "roll", "restart"}
           /\ Exists(r) => Exists(s.row) /\ s.row.at >= r.at
           /\ s.row = r \/ (Exists(s.row) /\ s.row.exp = p.t + 3 * Window /\ s.row.at = Bound(p.t))
           /\ s.leg = "start" \/ s.answer = "threw" =>
                p.leg = "restart" /\ Exists(r) /\ r.at >= Bound(p.t)
           /\ s.leg \in {"roll", "restart"} =>
                p.leg # "start" \/ ~(Exists(r) /\ r.at = Bound(p.t))
<1>1. Sane(r) /\ r \in Rows /\ r.at \in Nat /\ Bound(r.at) = r.at /\ r.count \in Int
  BY FineExists DEF Fine, Windowed
<1>2. p \in Calls /\ p.t \in Nat /\ p.t <= now
  BY DEF FineCall, Calls
<1>3. PICK b \in Nat : b = Bound(p.t)
  BY <1>2, BoundFacts
<1>4. PICK s : s = StepOf(r, p)
  OBVIOUS
<1>5. PICK x : x = Raised(r, p.t)
  OBVIOUS
<1>6. x.at = r.at /\ x.exp = p.t + 3 * Window /\ Exists(x)
  <2>1. r \in Rows
    BY <1>1
  <2>2. x = [r EXCEPT !.count = r.count + 1, !.exp = p.t + 3 * Window]
    BY <1>5, Zenon DEF Raised
  <2>3. x.at = r.at /\ x.exp = p.t + 3 * Window
    BY <2>1, <2>2 DEF Rows
  <2>4. p.t + 3 * Window >= 0
    BY <1>2, Constants
  <2> QED BY <2>3, <2>4 DEF Exists
<1>7. PICK y, z : y = Opened(b, 1, 0, p.t) /\ z = Opened(b, 1, r.count, p.t)
  OBVIOUS
<1>8. /\ y.at = b /\ y.exp = p.t + 3 * Window /\ Exists(y)
      /\ z.at = b /\ z.exp = p.t + 3 * Window /\ Exists(z)
  <2>1. p.t + 3 * Window >= 0
    BY <1>2, Constants
  <2> QED BY <1>7, <2>1, OpenedFields DEF Exists
<1>9. CASE strategy = "FIXED_WINDOW"
  <2>1. p.leg \in {"start", "restart"}
    BY <1>9 DEF FineCall, LegsOf, Windowed
  <2>2. /\ p.leg = "start" => s =
             IF Exists(r) /\ r.at = b
             THEN Ends(x, Verdict(Greatest(0, r.count + 1) > Limit))
             ELSE Yield(r, "restart", NoRow, "none")
        /\ p.leg = "restart" => s =
             IF ~ Exists(r) \/ r.at < b
             THEN Ends(y, Verdict(1 > Limit)) ELSE Again(r, p)
    BY <1>1, <1>2, <1>3, <1>4, <1>5, <1>7, <1>9, DynamoFixed DEF Windowed
  <2>3. CASE p.leg = "start" /\ Exists(r) /\ r.at = b
    <3>1. s.row = x /\ s.leg = "end" /\ s.answer # "threw"
      BY <2>2, <2>3 DEF Ends, Yield, Verdict
    <3> QED BY <1>1, <1>3, <1>4, <1>6, <2>3, <3>1
  <2>4. CASE p.leg = "start" /\ ~(Exists(r) /\ r.at = b)
    <3>1. s.row = r /\ s.leg = "restart" /\ s.answer = "none"
      BY <2>2, <2>4 DEF Yield
    <3> QED BY <1>1, <1>3, <1>4, <2>4, <3>1
  <2>5. CASE p.leg = "restart" /\ (~ Exists(r) \/ r.at < b)
    <3>1. s.row = y /\ s.leg = "end" /\ s.answer # "threw"
      BY <2>2, <2>5 DEF Ends, Yield, Verdict
    <3> QED BY <1>1, <1>3, <1>4, <1>8, <2>5, <3>1
  <2>6. CASE p.leg = "restart" /\ ~(~ Exists(r) \/ r.at < b)
    <3>1. s.row = r /\ s.leg \in {"start", "end"}
      BY <2>2, <2>6 DEF Again, Ends, Yield
    <3> QED BY <1>1, <1>3, <1>4, <2>6, <3>1
  <2> QED BY <2>1, <2>3, <2>4, <2>5, <2>6
<1>10. CASE strategy = "SLIDING_WINDOW"
  <2>1. p.leg \in {"start", "roll", "restart"}
    BY <1>10 DEF FineCall, LegsOf, Windowed
  <2>2. /\ p.leg = "start" => s =
             IF Exists(r) /\ r.at = b THEN Weighs(x, p.t)
             ELSE Yield(r, "roll", NoRow, "none")
        /\ p.leg = "roll" => s =
             IF Exists(r) /\ r.at = b - Window THEN Weighs(z, p.t)
             ELSE Yield(r, "restart", NoRow, "none")
        /\ p.leg = "restart" => s =
             IF ~ Exists(r) \/ r.at < b
             THEN Weighs(y, p.t) ELSE Again(r, p)
    BY <1>2, <1>3, <1>4, <1>5, <1>7, <1>10, DynamoSliding DEF Windowed
  <2>3. CASE p.leg = "start" /\ Exists(r) /\ r.at = b
    <3>1. s.row = x /\ s.leg = "end" /\ s.answer # "threw"
      BY <2>2, <2>3 DEF Weighs, Ends, Yield, Verdict
    <3> QED BY <1>1, <1>3, <1>4, <1>6, <2>3, <3>1
  <2>4. CASE p.leg = "start" /\ ~(Exists(r) /\ r.at = b)
    <3>1. s.row = r /\ s.leg = "roll" /\ s.answer = "none"
      BY <2>2, <2>4 DEF Yield
    <3> QED BY <1>1, <1>3, <1>4, <2>4, <3>1
  <2>5. CASE p.leg = "roll" /\ Exists(r) /\ r.at = b - Window
    <3>1. s.row = z /\ s.leg = "end" /\ s.answer # "threw"
      BY <2>2, <2>5 DEF Weighs, Ends, Yield, Verdict
    <3> QED BY <1>1, <1>3, <1>4, <1>8, <2>5, <3>1, Constants
  <2>6. CASE p.leg = "roll" /\ ~(Exists(r) /\ r.at = b - Window)
    <3>1. s.row = r /\ s.leg = "restart" /\ s.answer = "none"
      BY <2>2, <2>6 DEF Yield
    <3> QED BY <1>1, <1>3, <1>4, <2>6, <3>1
  <2>7. CASE p.leg = "restart" /\ (~ Exists(r) \/ r.at < b)
    <3>1. s.row = y /\ s.leg = "end" /\ s.answer # "threw"
      BY <2>2, <2>7 DEF Weighs, Ends, Yield, Verdict
    <3> QED BY <1>1, <1>3, <1>4, <1>8, <2>7, <3>1
  <2>8. CASE p.leg = "restart" /\ ~(~ Exists(r) \/ r.at < b)
    <3>1. s.row = r /\ s.leg \in {"start", "end"}
      BY <2>2, <2>8 DEF Again, Ends, Yield
    <3> QED BY <1>1, <1>3, <1>4, <2>8, <3>1
  <2> QED BY <2>1, <2>3, <2>4, <2>5, <2>6, <2>7, <2>8
<1> QED BY <1>9, <1>10 DEF Windowed, Setting, Strategies

LEMMA WindowUndo ==
    ASSUME Setting, Windowed, NEW r, Fine(r), NEW p, FineCall(p), p.op = "undo", p.leg # "end"
    PROVE  LET x == UndoOf(r, p).row IN
           /\ (Exists(x) <=> Exists(r)) /\ x.at = r.at /\ x.exp = r.exp
<1>1. r \in Rows /\ p \in Calls /\ p.leg \in {"start", "clamp"}
  BY FineExists DEF FineCall, LegsOf, Windowed
<1>2. PICK d : d = [r EXCEPT !.count = r.count - 1]
  OBVIOUS
<1>a. /\ p.leg = "start" => UndoOf(r, p) =
             IF ~ (Exists(r) /\ r.at = Bound(p.t)) THEN Ends(r, "done")
             ELSE IF r.count - 1 < 0 THEN Yield(d, "clamp", NoRow, "none")
             ELSE Ends(d, "done")
      /\ p.leg = "clamp" => UndoOf(r, p) =
             Ends(IF Exists(r) /\ r.at = Bound(p.t) /\ r.count < 0 THEN [r EXCEPT !.count = 0] ELSE r,
                  "done")
  BY <1>1, <1>2, DynamoWindowUndo DEF Windowed
<1>b. UndoOf(r, p).row \in {r, d, [r EXCEPT !.count = 0]}
  BY <1>1, <1>a DEF Ends, Yield
<1>3. /\ [r EXCEPT !.count = r.count - 1].at = r.at /\ [r EXCEPT !.count = r.count - 1].exp = r.exp
      /\ [r EXCEPT !.count = 0].at = r.at /\ [r EXCEPT !.count = 0].exp = r.exp
  BY <1>1 DEF Rows
<1> QED BY <1>2, <1>b, <1>3 DEF Exists

\* An item outlives its window by two; a caller whose round has failed has seen a
\* later window, but for those that begin another round, and gives up only then.
WindowRounds ==
    Windowed =>
      /\ Exists(row) => row.exp >= row.at + 3 * Window
      /\ \A c \in Callers :
            /\ call[c].op = "incr" /\ call[c].leg # "end" /\ call[c].round > 1 /\ admin = 0 =>
                 /\ Exists(row) /\ row.at >= Bound(call[c].t)
                 /\ call[c].leg # "start" => row.at > Bound(call[c].t)
            /\ call[c].answer = "threw" /\ admin = 0 => call[c].at >= Bound(call[c].t) + Window
            /\ call[c].op = "none" => call[c].round = 1

\* As the row's window only moves on.
LEMMA RoundsLater ==
    ASSUME Base, Windowed, WindowRounds, Base', backend' = backend, strategy' = strategy,
           admin' = admin, Exists(row) => Exists(row') /\ row'.at >= row.at,
           Exists(row') => row'.exp >= row'.at + 3 * Window,
           NEW c \in Callers, \A d \in Callers : d # c => call'[d] = call[d],
           LET q == call'[c] IN
           /\ q.op = "incr" /\ q.leg # "end" /\ q.round > 1 /\ admin = 0 =>
                 /\ Exists(row') /\ row'.at >= Bound(q.t)
                 /\ q.leg # "start" => row'.at > Bound(q.t)
           /\ q.answer = "threw" /\ admin = 0 => q.at >= Bound(q.t) + Window
           /\ q.op # "none"
    PROVE  WindowRounds'
<1>1. Windowed' <=> Windowed
  BY DEF Windowed
<1>2. ASSUME NEW d \in Callers, d # c, call[d].op = "incr", call[d].leg # "end",
             call[d].round > 1, admin = 0
      PROVE  /\ Exists(row') /\ row'.at >= Bound(call[d].t)
             /\ call[d].leg # "start" => row'.at > Bound(call[d].t)
  <2>1. /\ Exists(row) /\ row.at >= Bound(call[d].t)
        /\ call[d].leg # "start" => row.at > Bound(call[d].t)
    BY <1>2 DEF WindowRounds
  <2>2. row.at \in Int /\ row'.at \in Int
    BY FineExists DEF Base, Fine, Sane, Rows
  <2>3. Bound(call[d].t) \in Nat
    <3>1. call[d].t \in Nat
      BY DEF Base, Calls
    <3> QED BY <3>1, BoundFacts
  <2> QED BY <2>1, <2>2, <2>3
<1>3. \A t : Bound(t)' = Bound(t)
  BY DEF Bound
<1> QED BY <1>1, <1>2, <1>3 DEF WindowRounds, Exists, Bound

LEMMA WindowRoundsKeep == ASSUME Base, WindowRounds, [Next]_vars PROVE WindowRounds'
<1>1. Base' /\ backend' = backend /\ strategy' = strategy
  BY Changes
<1>2. CASE ~ Windowed
  BY <1>1, <1>2 DEF WindowRounds, Windowed
<1>3. SUFFICES ASSUME Windowed PROVE WindowRounds'
  BY <1>2
<1>4. Setting /\ Fine(row) /\ row \in Rows /\ row.at \in Nat /\ row.exp \in Int /\ now \in Nat
  BY <1>3, FineExists DEF Base, Setting, Fine, Windowed
<1>5. Exists(row) => row.exp >= row.at + 3 * Window
  BY <1>3 DEF WindowRounds
<1>6. ASSUME NEW c \in Callers, Onestep(c), Begins(c, "incr") \/ Begins(c, "undo")
      PROVE  WindowRounds'
  <2>1. PICK p \in Calls : p = call[c] /\ FineCall(p)
    BY DEF Base
  <2>2. PICK q : q = call'[c]
    OBVIOUS
  <2>3. /\ row' = row /\ admin' = admin /\ q.answer = p.answer /\ q.at = p.at
        /\ p.leg = "end" /\ q.round = p.round
        /\ q.op = "incr" => p.op = "none" /\ p.answer = "none"
        /\ q.op = "undo" => p.answer \in {"allowed", "blocked"}
        /\ q.op \in {"incr", "undo"}
    BY <1>6, <2>1, <2>2 DEF Begins
  <2>4. q.answer # "threw"
    BY <2>3
  <2>5. ~(q.op = "incr" /\ q.round > 1)
    BY <1>3, <2>1, <2>3 DEF WindowRounds
  <2> QED BY <1>1, <1>3, <1>4, <1>5, <1>6, <2>2, <2>3, <2>4, <2>5, RoundsLater DEF Onestep
<1>7. ASSUME NEW c \in Callers, Onestep(c), Stepped(c) PROVE WindowRounds'
  <2>1. PICK p \in Calls : p = call[c] /\ FineCall(p)
    BY DEF Base
  <2>2. PICK q : q = call'[c]
    OBVIOUS
  <2>3. PICK s : s = StepOf(row, p)
    OBVIOUS
  <2>4. /\ p.op = "incr" /\ p.leg # "end" /\ row' = s.row /\ admin' = admin
        /\ q.op = "incr" /\ q.leg = s.leg /\ q.answer = s.answer
        /\ q.round = (IF s.leg = "end" THEN 1 ELSE IF s.leg = "start" THEN p.round + 1 ELSE p.round)
        /\ q.t = (IF s.leg = "end" /\ s.answer # "threw" THEN 0 ELSE p.t)
        /\ q.at = (IF s.leg = "end" THEN now ELSE p.at)
        /\ StepOk(s, row, p)
    BY <1>7, <2>1, <2>2, <2>3 DEF Stepped
  <2>5. /\ s.leg \in {"end", "start", "roll", "restart"}
        /\ Exists(row) => Exists(s.row) /\ s.row.at >= row.at
        /\ s.row = row \/ (Exists(s.row) /\ s.row.exp = p.t + 3 * Window /\ s.row.at = Bound(p.t))
        /\ s.leg = "start" \/ s.answer = "threw" =>
             p.leg = "restart" /\ Exists(row) /\ row.at >= Bound(p.t)
        /\ s.leg \in {"roll", "restart"} => p.leg # "start" \/ ~(Exists(row) /\ row.at = Bound(p.t))
    BY <1>3, <1>4, <2>1, <2>3, <2>4, WindowStep
  <2>6. /\ s.answer = "threw" => p.round > 1 /\ s.row = row /\ s.leg = "end"
        /\ s.leg # "end" => s.answer = "none" /\ s.row = row
    <3>1. p.round \in Nat
      BY <2>1, Constants DEF Calls
    <3>2. s.answer = "threw" => p.round >= MaxAttempts /\ s.row = row
      BY <2>4 DEF StepOk
    <3> QED BY <2>4, <3>1, <3>2, Constants DEF StepOk
  <2>7. PICK b \in Nat : b = Bound(p.t) /\ b <= p.t
    <3>1. p.t \in Nat
      BY <2>1 DEF Calls
    <3> QED BY <3>1, BoundFacts
  <2>8. Exists(row') => row'.exp >= row'.at + 3 * Window
    <3>1. p.t \in Nat
      BY <2>1 DEF Calls
    <3> QED BY <1>5, <2>4, <2>5, <2>7, <3>1, Constants
  <2>9. p.round > 1 /\ admin = 0 =>
          (Exists(row) /\ row.at >= b /\ (p.leg # "start" => row.at > b))
    BY <1>3, <2>1, <2>4, <2>7 DEF WindowRounds
  <2>10. ASSUME q.leg # "end", q.round > 1, admin = 0
         PROVE  Exists(row') /\ row'.at >= b /\ (q.leg # "start" => row'.at > b)
    <3>1. s.leg # "end" /\ row' = row
      BY <2>4, <2>6, <2>10
    <3>2. CASE s.leg = "start"
      BY <2>4, <2>5, <2>7, <3>1, <3>2
    <3>3. CASE s.leg # "start"
      <4>1. p.round > 1 /\ s.leg \in {"roll", "restart"}
        BY <2>4, <2>5, <2>10, <3>1, <3>3
      <4>2. p.leg # "start" \/ row.at # b
        BY <2>5, <2>7, <2>9, <2>10, <4>1
      <4>3. row.at > b
        BY <1>4, <2>7, <2>9, <2>10, <4>1, <4>2
      <4> QED BY <2>9, <2>10, <3>1, <4>1, <4>3
    <3> QED BY <3>2, <3>3
  <2>11. q.leg # "end" => q.t = p.t
    BY <2>4
  <2>12. ASSUME q.answer = "threw", admin = 0 PROVE q.at >= Bound(q.t) + Window
    <3>1. s.leg = "end" /\ p.leg = "restart" /\ p.round > 1 /\ q.t = p.t /\ q.at = now
      BY <2>4, <2>5, <2>6, <2>12
    <3>2. row.at > b
      BY <2>9, <2>12, <3>1
    <3>3. Bound(b) = b /\ Bound(row.at) = row.at /\ row.at <= now
      <4>1. p.t \in Nat
        BY <2>1 DEF Calls
      <4> QED BY <1>3, <1>4, <2>7, <4>1, BoundFacts DEF Fine, Windowed
    <3>4. b + Window <= row.at
      BY <1>4, <2>7, <3>2, <3>3, Starts
    <3> QED BY <1>4, <2>7, <3>1, <3>3, <3>4, Constants
  <2>13. Exists(row) => Exists(row') /\ row'.at >= row.at
    BY <2>4, <2>5
  <2>14. q.op # "none"
    BY <2>4
  <2> QED BY <1>1, <1>3, <1>7, <2>2, <2>4, <2>7, <2>8, <2>10, <2>11, <2>12, <2>13, <2>14,
             RoundsLater DEF Onestep
<1>8. ASSUME NEW c \in Callers, Onestep(c), Returned(c) PROVE WindowRounds'
  <2>1. PICK p \in Calls : p = call[c] /\ FineCall(p)
    BY DEF Base
  <2>2. PICK q : q = call'[c]
    OBVIOUS
  <2>3. PICK s : s = UndoOf(row, p)
    OBVIOUS
  <2>4. /\ p.op = "undo" /\ p.leg # "end" /\ row' = s.row /\ admin' = admin /\ q.op = "undo"
        /\ q.answer = "allowed" \/ q.answer = p.answer
    BY <1>8, <2>1, <2>2, <2>3 DEF Returned
  <2>5. (Exists(s.row) <=> Exists(row)) /\ s.row.at = row.at /\ s.row.exp = row.exp
    BY <1>3, <1>4, <2>1, <2>3, <2>4, WindowUndo
  <2>6. q.answer # "threw"
    BY <2>1, <2>4 DEF FineCall
  <2>7. Exists(row) => Exists(row') /\ row'.at >= row.at
    BY <1>4, <2>4, <2>5
  <2>8. Exists(row') => row'.exp >= row'.at + 3 * Window
    BY <1>5, <2>4, <2>5
  <2>9. q.op # "incr" /\ q.op # "none"
    BY <2>4
  <2> QED BY <1>1, <1>3, <1>8, <2>2, <2>4, <2>6, <2>7, <2>8, <2>9, RoundsLater DEF Onestep
<1>9. ASSUME NEW c \in Callers, Onestep(c), Failed(c) PROVE WindowRounds'
  <2>1. PICK p \in Calls : p = call[c] /\ FineCall(p)
    BY DEF Base
  <2>2. PICK q : q = call'[c]
    OBVIOUS
  <2>3. PICK s : s = StepOf(row, p)
    OBVIOUS
  <2>4. /\ p.op \in {"incr", "undo"} /\ p.leg # "end" /\ admin' = admin
        /\ q.op = p.op /\ q.leg = "end"
        /\ row' = row \/ (p.op = "incr" /\ row' = s.row)
        /\ p.op = "incr" => q.answer = "failed"
        /\ p.op = "undo" => q.answer = p.answer
    BY <1>9, <2>1, <2>2, <2>3 DEF Failed
  <2>5. p.op = "incr" =>
          /\ Exists(row) => Exists(s.row) /\ s.row.at >= row.at
          /\ s.row = row \/ (Exists(s.row) /\ s.row.exp = p.t + 3 * Window /\ s.row.at = Bound(p.t))
    BY <1>3, <1>4, <2>1, <2>3, <2>4, WindowStep
  <2>6. q.answer # "threw"
    BY <2>1, <2>4 DEF FineCall
  <2>7. Exists(row) => Exists(row') /\ row'.at >= row.at
    BY <1>4, <2>4, <2>5
  <2>8. Exists(row') => row'.exp >= row'.at + 3 * Window
    <3>1. p.t \in Nat /\ Bound(p.t) \in Nat /\ Bound(p.t) <= p.t
      BY <2>1, BoundFacts DEF Calls
    <3> QED BY <1>5, <2>4, <2>5, <3>1, Constants
  <2>9. q.op # "none"
    BY <2>4
  <2> QED BY <1>1, <1>3, <1>9, <2>2, <2>4, <2>6, <2>7, <2>8, <2>9, RoundsLater DEF Onestep
<1>10. CASE Wiped
  <2>1. admin' # 0
    BY <1>1, <1>10 DEF Wiped, Base
  <2>2. Exists(row') => row'.exp >= row'.at + 3 * Window
    <3>1. CASE row' = NoRow
      BY <3>1, NoRowFields
    <3>2. ASSUME NEW n \in Nat, row' = SetRow(n) PROVE row'.exp >= row'.at + 3 * Window
      <4>1. CASE Exact
        BY <1>3, <4>1 DEF Exact, Weighted, Windowed
      <4>2. row' = Opened(Bound(now), n, 0, now)
        BY <1>3, <1>4, <3>2, SetIs DEF Windowed
      <4>3. row'.at = Bound(now) /\ row'.exp = now + 3 * Window
        BY <4>2, OpenedFields
      <4> QED BY <1>4, <4>3, BoundFacts, Constants
    <3> QED BY <1>10, <3>1, <3>2 DEF Wiped
  <2>3. ASSUME NEW c \in Callers, call'[c].op = "none" PROVE call'[c].round = 1
    <3>1. PICK p \in Calls : p = call[c] /\ call'[c] = Marked(p)
      BY <1>3, <1>10 DEF Base, Wiped, Drops, Snapshots, Windowed
    <3> QED BY <1>3, <2>3, <3>1, MarkedFields DEF WindowRounds
  <2> QED BY <1>1, <2>1, <2>2, <2>3 DEF WindowRounds, Exists, Windowed
<1>11. CASE Expired
  <2>1. row' = NoRow /\ call' = call /\ admin' = admin /\ ~ Exists(row')
    BY <1>3, <1>11, NoRowFields DEF Expired, Snapshots, Windowed
  <2>2. row.exp < now /\ Exists(row)
    BY <1>3, <1>11, DynamoOps DEF Expired, MayExpire, Dynamo!MayExpire, Windowed
  <2>3. ASSUME NEW c \in Callers, call[c].op = "incr", call[c].leg # "end", call[c].round > 1,
               admin = 0
        PROVE  FALSE
    <3>1. PICK p \in Calls : p = call[c] /\ FineCall(p)
      BY DEF Base
    <3>2. row.at >= Bound(p.t) /\ now <= p.t + MaxLag
      BY <1>3, <2>3, <3>1 DEF WindowRounds, FineCall
    <3>3. p.t \in Nat
      BY <3>1 DEF Calls
    <3>4. Bound(p.t) \in Nat /\ p.t < Bound(p.t) + Window
      BY <3>3, BoundFacts
    <3> QED BY <1>4, <1>5, <2>2, <3>2, <3>3, <3>4, Constants
  <2> QED BY <1>1, <1>3, <2>1, <2>3 DEF WindowRounds, Exists, Windowed, Bound
<1>12. CASE Ticked \/ UNCHANGED vars
  <2>1. row' = row /\ call' = call /\ admin' = admin
    BY <1>12 DEF Ticked, vars
  <2> QED BY <1>1, <1>3, <2>1 DEF WindowRounds, Exists, Windowed, Bound
<1>13. ~ Snapshots
  BY <1>3 DEF Snapshots, Windowed
<1> QED BY <1>6, <1>7, <1>8, <1>9, <1>10, <1>11, <1>12, <1>13, Changes DEF Snapped

-----------------------------------------------------------------------------
(* DynamoDB's loops: buckets                                               *)

\* A set that gains or loses one element.
LEMMA Moved ==
    ASSUME NEW S, NEW T, NEW d, IsFiniteSet(S), T \ {d} = S \ {d}
    PROVE  /\ IsFiniteSet(T) /\ Cardinality(S) \in Nat /\ Cardinality(T) \in Nat
           /\ Cardinality(T) + (IF d \in S THEN 1 ELSE 0) = Cardinality(S) + (IF d \in T THEN 1 ELSE 0)
<1>1. PICK U : U = S \ {d}
  OBVIOUS
<1>2. /\ IsFiniteSet(U) /\ Cardinality(U) \in Nat /\ Cardinality(S) \in Nat
      /\ Cardinality(U) = IF d \in S THEN Cardinality(S) - 1 ELSE Cardinality(S)
  BY <1>1, FS_RemoveElement, FS_CardinalityType
<1>3. CASE d \in T
  <2>1. T = U \cup {d} /\ d \notin U
    BY <1>1, <1>3
  <2>2. IsFiniteSet(T) /\ Cardinality(T) = Cardinality(U) + 1
    BY <1>2, <2>1, FS_AddElement
  <2> QED BY <1>2, <1>3, <2>2
<1>4. CASE d \notin T
  <2>1. T = U
    BY <1>1, <1>4
  <2> QED BY <1>2, <1>4, <2>1
<1> QED BY <1>3, <1>4

Bucketed == backend = "dynamo" /\ strategy = "TOKEN_BUCKET"

\* Rounds of a call that failed or will fail, as row r stands.
Tried(r, p) == (p.round - 1) + (IF p.leg = "write" /\ ~ Unchanged(r, p.seen) THEN 1 ELSE 0)

\* Writes that the other callers have made, or still can make by a second update.
Answered(c) == {d \in Callers \ {c} : call[d].answer # "none"}
Taken(c) == {d \in Callers \ {c} : call[d].gone}
Clamping(c) == {d \in Callers \ {c} : call[d].leg = "clamp"}
Writes(c) == Cardinality(Answered(c)) + 2 * Cardinality(Taken(c)) - Cardinality(Clamping(c))
Worth(p) == (IF p.answer # "none" THEN 1 ELSE 0) + (IF p.gone THEN 2 ELSE 0)
            - (IF p.leg = "clamp" THEN 1 ELSE 0)

LEMMA WritesType ==
    ASSUME Base, NEW c \in Callers
    PROVE  /\ IsFiniteSet(Answered(c)) /\ IsFiniteSet(Taken(c)) /\ IsFiniteSet(Clamping(c))
           /\ Cardinality(Answered(c)) \in Nat /\ Cardinality(Taken(c)) \in Nat
           /\ Cardinality(Clamping(c)) \in Nat /\ Writes(c) \in Nat
           /\ Writes(c) <= Cardinality(Answered(c)) + 2 * Cardinality(Taken(c))
           /\ \A d \in Callers : d # c /\ call[d].answer # "none" => Writes(c) >= 1
<1>1. IsFiniteSet(Callers)
  BY Constants
<1>2. Answered(c) \subseteq Callers /\ Taken(c) \subseteq Callers /\ Clamping(c) \subseteq Callers
  BY DEF Answered, Taken, Clamping
<1>3. IsFiniteSet(Answered(c)) /\ IsFiniteSet(Taken(c)) /\ IsFiniteSet(Clamping(c))
  BY <1>1, <1>2, FS_Subset
<1>4. Clamping(c) \subseteq Taken(c) /\ Taken(c) \subseteq Answered(c)
  BY DEF Base, FineCall, Clamping, Taken, Answered
<1>5. /\ Cardinality(Clamping(c)) <= Cardinality(Taken(c))
      /\ Cardinality(Taken(c)) <= Cardinality(Answered(c))
  BY <1>3, <1>4, FS_Subset
<1>6. /\ Cardinality(Answered(c)) \in Nat /\ Cardinality(Taken(c)) \in Nat
      /\ Cardinality(Clamping(c)) \in Nat
  BY <1>3, FS_CardinalityType
<1>7. ASSUME NEW d \in Callers, d # c, call[d].answer # "none" PROVE Writes(c) >= 1
  <2>1. d \in Answered(c)
    BY <1>7 DEF Answered
  <2>2. Cardinality(Answered(c)) # 0
    BY <1>3, <2>1, FS_EmptySet
  <2> QED BY <1>5, <1>6, <2>2 DEF Writes
<1> QED BY <1>3, <1>5, <1>6, <1>7 DEF Writes

LEMMA WritesMove ==
    ASSUME Base, Base', NEW c \in Callers, NEW d \in Callers, Onestep(d)
    PROVE  IF c = d THEN /\ Writes(c)' = Writes(c)
                         /\ Cardinality(Answered(c))' = Cardinality(Answered(c))
                         /\ Cardinality(Taken(c))' = Cardinality(Taken(c))
           ELSE /\ Writes(c)' + Worth(call[d]) = Writes(c) + Worth(call'[d])
                /\ call'[c] = call[c]
<1>1. CASE c = d
  <2>1. \A e \in Callers \ {c} : call'[e] = call[e]
    BY <1>1 DEF Onestep
  <2>2. Answered(c)' = Answered(c) /\ Taken(c)' = Taken(c) /\ Clamping(c)' = Clamping(c)
    BY <2>1 DEF Answered, Taken, Clamping
  <2> QED BY <1>1, <2>2 DEF Writes
<1>2. CASE c # d
  <2>1. call'[c] = call[c] /\ \A e \in Callers : e # d => call'[e] = call[e]
    BY <1>2 DEF Onestep
  <2>2. PICK A, G, L, AA, GG, LL :
          /\ A = Answered(c) /\ G = Taken(c) /\ L = Clamping(c)
          /\ AA = Answered(c)' /\ GG = Taken(c)' /\ LL = Clamping(c)'
    OBVIOUS
  <2>3. A \ {d} = AA \ {d} /\ G \ {d} = GG \ {d} /\ L \ {d} = LL \ {d}
    BY <2>1, <2>2 DEF Answered, Taken, Clamping
  <2>4. IsFiniteSet(A) /\ IsFiniteSet(G) /\ IsFiniteSet(L)
    BY <2>2, WritesType
  <2>5. /\ d \in A <=> call[d].answer # "none"
        /\ d \in G <=> call[d].gone
        /\ d \in L <=> call[d].leg = "clamp"
        /\ d \in AA <=> call'[d].answer # "none"
        /\ d \in GG <=> call'[d].gone
        /\ d \in LL <=> call'[d].leg = "clamp"
    BY <1>2, <2>2 DEF Answered, Taken, Clamping
  <2>6. /\ Cardinality(A) \in Nat /\ Cardinality(AA) \in Nat
        /\ Cardinality(AA) + (IF d \in A THEN 1 ELSE 0) = Cardinality(A) + (IF d \in AA THEN 1 ELSE 0)
    BY <2>3, <2>4, Moved
  <2>7. /\ Cardinality(G) \in Nat /\ Cardinality(GG) \in Nat
        /\ Cardinality(GG) + (IF d \in G THEN 1 ELSE 0) = Cardinality(G) + (IF d \in GG THEN 1 ELSE 0)
    BY <2>3, <2>4, Moved
  <2>8. /\ Cardinality(L) \in Nat /\ Cardinality(LL) \in Nat
        /\ Cardinality(LL) + (IF d \in L THEN 1 ELSE 0) = Cardinality(L) + (IF d \in LL THEN 1 ELSE 0)
    BY <2>3, <2>4, Moved
  <2>9. /\ Writes(c) = Cardinality(A) + 2 * Cardinality(G) - Cardinality(L)
        /\ Writes(c)' = Cardinality(AA) + 2 * Cardinality(GG) - Cardinality(LL)
    BY <2>2 DEF Writes
  <2>10. /\ Worth(call[d]) = (IF d \in A THEN 1 ELSE 0) + (IF d \in G THEN 2 ELSE 0)
                             - (IF d \in L THEN 1 ELSE 0)
         /\ Worth(call'[d]) = (IF d \in AA THEN 1 ELSE 0) + (IF d \in GG THEN 2 ELSE 0)
                             - (IF d \in LL THEN 1 ELSE 0)
    BY <2>5 DEF Worth
  <2>11. Writes(c)' + Worth(call[d]) = Writes(c) + Worth(call'[d])
    BY <2>6, <2>7, <2>8, <2>9, <2>10
  <2> QED BY <1>2, <2>1, <2>11
<1> QED BY <1>1, <1>2

\* The rounds a caller has lost, others have written in; the item does not expire while
\* a caller is in its loop that has seen it change.
BucketRounds ==
    Bucketed /\ admin = 0 =>
      /\ Exists(row) => \E d \in Callers : call[d].answer # "none"
      /\ \A c \in Callers :
            /\ call[c].op = "none" => call[c].round = 1
            /\ call[c].gone => call[c].op = "undo" /\ call[c].leg \in {"clamp", "end"}
            /\ call[c].leg = "clamp" /\ Exists(row) => row.exp + MaxLag >= call[c].t + 3 * Interval
            /\ call[c].op = "incr" /\ call[c].leg # "end" =>
                 /\ Tried(row, call[c]) >= 1 /\ Exists(row) => row.exp > call[c].t + MaxLag
                 /\ Tried(row, call[c]) <= Writes(c)
            /\ call[c].answer = "threw" =>
                 MaxAttempts <= Cardinality(Answered(c)) + 2 * Cardinality(Taken(c))

LEMMA TriedType ==
    ASSUME NEW p \in Calls, NEW r PROVE Tried(r, p) \in Nat
<1>1. p.round \in Nat /\ p.round >= 1
  BY Constants DEF Calls
<1> QED BY <1>1 DEF Tried

LEMMA TriedLater ==
    ASSUME NEW p \in Calls, NEW r, NEW s
    PROVE  Tried(s, p) <= Tried(r, p) + 1
<1>1. p.round \in Nat
  BY Constants DEF Calls
<1> QED BY <1>1 DEF Tried

LEMMA BucketRoundsMove ==
    ASSUME Base, Base', Bucketed, BucketRounds, admin' = admin, now' = now,
           backend' = backend, strategy' = strategy,
           NEW d \in Callers, Onestep(d),
           LET p == call[d]  q == call'[d] IN
           /\ Worth(q) >= Worth(p)
           /\ \/ row' = row
              \/ /\ Exists(row') /\ Worth(q) >= Worth(p) + 1 /\ q.answer # "none"
                 /\ \/ row'.exp + MaxLag >= now + 3 * Interval
                    \/ p.leg = "clamp" /\ Exists(row) /\ row'.exp = row.exp
           /\ p.answer # "none" => q.answer # "none"
           /\ q.op # "none"
           /\ q.gone => q.op = "undo" /\ q.leg \in {"clamp", "end"}
           /\ q.leg = "clamp" => row'.exp + MaxLag >= q.t + 3 * Interval
           /\ q.op = "incr" /\ q.leg # "end" =>
                /\ row' = row
                /\ \/ Tried(row, q) = 0
                   \/ /\ p.op = "incr" /\ p.leg # "end" /\ q.t = p.t
                      /\ Tried(row, q) <= Tried(row, p)
           /\ q.answer = "threw" =>
                \/ p.answer = "threw"
                \/ p.op = "incr" /\ p.leg # "end" /\ Tried(row, p) >= MaxAttempts
    PROVE  BucketRounds'
<1> USE Constants
<1>1. PICK p \in Calls : p = call[d] /\ FineCall(p)
  BY DEF Base
<1>2. PICK q \in Calls : q = call'[d]
  BY DEF Base
<1>3. row.exp \in Int /\ row'.exp \in Int /\ now \in Nat
  BY FineExists DEF Base, Fine, Sane, Rows, Setting
<1>4. SUFFICES ASSUME admin = 0 PROVE BucketRounds'
  BY DEF BucketRounds
<1>5. Worth(p) \in Int /\ Worth(q) \in Int
  BY DEF Worth
<1>6. Exists(row') => \E e \in Callers : call'[e].answer # "none"
  <2>1. CASE row' = row
    <3>1. ASSUME Exists(row) PROVE \E e \in Callers : call'[e].answer # "none"
      <4>1. PICK e \in Callers : call[e].answer # "none"
        BY <1>4, <3>1 DEF BucketRounds
      <4>2. call'[e].answer # "none"
        BY <4>1 DEF Onestep
      <4> QED BY <4>2
    <3> QED BY <2>1, <3>1
  <2>2. CASE row' # row
    BY <2>2
  <2> QED BY <2>1, <2>2
<1>7. p.leg = "clamp" /\ Exists(row) => row.exp + MaxLag >= p.t + 3 * Interval /\ now <= p.t + MaxLag
  BY <1>1, <1>4 DEF BucketRounds, FineCall
<1>8. row' # row => row'.exp + 2 * MaxLag >= now + 3 * Interval
  <2>1. p.t \in Nat
    BY <1>1 DEF Calls
  <2> QED BY <1>1, <1>3, <1>7, <2>1
<1>9. ASSUME NEW c \in Callers, c # d
      PROVE  LET x == call'[c] IN
             /\ x.op = "none" => x.round = 1
             /\ x.gone => x.op = "undo" /\ x.leg \in {"clamp", "end"}
             /\ x.leg = "clamp" /\ Exists(row') => row'.exp + MaxLag >= x.t + 3 * Interval
             /\ x.op = "incr" /\ x.leg # "end" =>
                  /\ Tried(row', x) >= 1 /\ Exists(row') => row'.exp > x.t + MaxLag
                  /\ Tried(row', x) <= Writes(c)'
             /\ x.answer = "threw" =>
                  MaxAttempts <= Cardinality(Answered(c))' + 2 * Cardinality(Taken(c))'
  <2>1. PICK x \in Calls : x = call[c] /\ FineCall(x) /\ call'[c] = x
    BY <1>9 DEF Base, Onestep
  <2>2. /\ x.op = "none" => x.round = 1
        /\ x.gone => x.op = "undo" /\ x.leg \in {"clamp", "end"}
        /\ x.leg = "clamp" /\ Exists(row) => row.exp + MaxLag >= x.t + 3 * Interval
        /\ x.op = "incr" /\ x.leg # "end" =>
             /\ Tried(row, x) >= 1 /\ Exists(row) => row.exp > x.t + MaxLag
             /\ Tried(row, x) <= Writes(c)
        /\ x.answer = "threw" =>
             MaxAttempts <= Cardinality(Answered(c)) + 2 * Cardinality(Taken(c))
    BY <1>4, <2>1 DEF BucketRounds
  <2>3. x.leg # "end" => x.t <= now
    BY <2>1 DEF FineCall
  <2>4. x.t \in Nat /\ Tried(row, x) \in Nat /\ Tried(row', x) \in Nat
        /\ Tried(row', x) <= Tried(row, x) + 1
    BY <2>1, TriedType, TriedLater DEF Calls
  <2>5. Writes(c)' + Worth(p) = Writes(c) + Worth(q)
    BY <1>1, <1>2, <1>9, WritesMove
  <2>6. Writes(c) \in Nat /\ Writes(c)' \in Nat
    <3>1. ASSUME TRUE PROVE Writes(c)' \in Nat
      <4>1. Writes(c)' + Worth(p) = Writes(c) + Worth(q)
        BY <2>5
      <4>2. IsFiniteSet(Callers)
        OBVIOUS
      <4>3. PICK A, G, L : A = Answered(c)' /\ G = Taken(c)' /\ L = Clamping(c)'
        OBVIOUS
      <4>4. A \subseteq Callers /\ G \subseteq Callers /\ L \subseteq Callers
        BY <4>3 DEF Answered, Taken, Clamping
      <4>5. /\ Cardinality(A) \in Nat /\ Cardinality(G) \in Nat /\ Cardinality(L) \in Nat
            /\ Writes(c)' = Cardinality(A) + 2 * Cardinality(G) - Cardinality(L)
        BY <4>2, <4>3, <4>4, FS_Subset, FS_CardinalityType DEF Writes
      <4>6. Writes(c) \in Nat
        BY WritesType
      <4> QED BY <1>1, <1>2, <1>5, <4>1, <4>5, <4>6
    <3> QED BY <3>1, WritesType
  <2>7. x.leg = "clamp" /\ Exists(row') => row'.exp + MaxLag >= x.t + 3 * Interval
    BY <1>1, <1>3, <2>2, <2>3, <2>4
  <2>8. ASSUME x.op = "incr", x.leg # "end"
        PROVE  /\ Tried(row', x) >= 1 /\ Exists(row') => row'.exp > x.t + MaxLag
               /\ Tried(row', x) <= Writes(c)'
    <3>1. CASE row' = row
      BY <1>1, <1>2, <1>5, <2>2, <2>4, <2>5, <2>6, <2>8, <3>1
    <3>2. CASE row' # row
      <4>1. Worth(q) >= Worth(p) + 1
        BY <1>1, <1>2, <3>2
      <4>2. Tried(row', x) <= Writes(c)'
        BY <1>5, <2>2, <2>4, <2>5, <2>6, <2>8, <4>1
      <4>3. row'.exp > x.t + MaxLag
        BY <1>3, <1>8, <2>3, <2>4, <2>8, <3>2
      <4> QED BY <4>2, <4>3
    <3> QED BY <3>1, <3>2
  <2>9. ASSUME x.answer = "threw"
        PROVE  MaxAttempts <= Cardinality(Answered(c))' + 2 * Cardinality(Taken(c))'
    <3>1. PICK A, G, AA, GG : /\ A = Answered(c) /\ G = Taken(c)
                              /\ AA = Answered(c)' /\ GG = Taken(c)'
      OBVIOUS
    <3>2. IsFiniteSet(AA) /\ IsFiniteSet(GG)
      <4>1. AA \subseteq Callers /\ GG \subseteq Callers /\ IsFiniteSet(Callers)
        BY <3>1 DEF Answered, Taken
      <4> QED BY <4>1, FS_Subset
    <3>3. A \subseteq AA
      BY <3>1 DEF Answered, Onestep
    <3>4. Cardinality(A) <= Cardinality(AA) /\ Cardinality(A) \in Nat /\ Cardinality(AA) \in Nat
      BY <3>2, <3>3, FS_Subset, FS_CardinalityType
    <3>5. G \subseteq GG
      <4>1. p.gone => q.gone
        <5>1. p.gone => Worth(p) >= 2
          BY <1>1 DEF Worth, FineCall
        <5>2. ~ q.gone => Worth(q) <= 1
          BY DEF Worth
        <5> QED BY <1>1, <1>2, <1>5, <5>1, <5>2
      <4> QED BY <1>1, <1>2, <3>1, <4>1 DEF Taken, Onestep
    <3>6. Cardinality(G) <= Cardinality(GG) /\ Cardinality(G) \in Nat /\ Cardinality(GG) \in Nat
      BY <3>2, <3>5, FS_Subset, FS_CardinalityType
    <3> QED BY <2>2, <2>9, <3>1, <3>4, <3>6
  <2> QED BY <2>1, <2>2, <2>7, <2>8, <2>9
<1>10. /\ q.op = "none" => q.round = 1
       /\ q.gone => q.op = "undo" /\ q.leg \in {"clamp", "end"}
       /\ q.leg = "clamp" /\ Exists(row') => row'.exp + MaxLag >= q.t + 3 * Interval
       /\ q.op = "incr" /\ q.leg # "end" =>
            /\ Tried(row', q) >= 1 /\ Exists(row') => row'.exp > q.t + MaxLag
            /\ Tried(row', q) <= Writes(d)'
       /\ q.answer = "threw" =>
            MaxAttempts <= Cardinality(Answered(d))' + 2 * Cardinality(Taken(d))'
  <2>1. /\ Writes(d)' = Writes(d)
        /\ Cardinality(Answered(d))' = Cardinality(Answered(d))
        /\ Cardinality(Taken(d))' = Cardinality(Taken(d))
    BY WritesMove
  <2>2. /\ p.op = "incr" /\ p.leg # "end" =>
             /\ Tried(row, p) >= 1 /\ Exists(row) => row.exp > p.t + MaxLag
             /\ Tried(row, p) <= Writes(d)
        /\ p.answer = "threw" =>
             MaxAttempts <= Cardinality(Answered(d)) + 2 * Cardinality(Taken(d))
    BY <1>1, <1>4 DEF BucketRounds
  <2>3. /\ Writes(d) \in Nat /\ Tried(row, q) \in Nat /\ Tried(row, p) \in Nat
        /\ Writes(d) <= Cardinality(Answered(d)) + 2 * Cardinality(Taken(d))
        /\ Cardinality(Answered(d)) \in Nat /\ Cardinality(Taken(d)) \in Nat
    BY WritesType, TriedType
  <2>4. ASSUME q.op = "incr", q.leg # "end"
        PROVE  /\ Tried(row', q) >= 1 /\ Exists(row') => row'.exp > q.t + MaxLag
               /\ Tried(row', q) <= Writes(d)'
    BY <1>1, <1>2, <2>1, <2>2, <2>3, <2>4
  <2>5. ASSUME q.answer = "threw"
        PROVE  MaxAttempts <= Cardinality(Answered(d))' + 2 * Cardinality(Taken(d))'
    BY <1>1, <1>2, <2>1, <2>2, <2>3, <2>5
  <2> QED BY <1>2, <2>4, <2>5
<1> QED BY <1>2, <1>6, <1>9, <1>10 DEF BucketRounds, Exists, Tried, Unchanged

LEMMA BucketStep ==
    ASSUME Setting, Bucketed, NEW r, Fine(r), NEW p, FineCall(p), p.op = "incr", p.leg # "end"
    PROVE  LET s == StepOf(r, p) IN
           \/ p.leg = "start" /\ s.leg = "write" /\ s.row = r /\ s.seen = r /\ s.answer = "none"
           \/ /\ p.leg = "write" /\ Unchanged(r, p.seen) /\ s.leg = "end"
              /\ s.answer \in {"allowed", "blocked"}
              /\ Exists(s.row) /\ s.row.exp = p.t + 3 * Interval
           \/ /\ p.leg = "write" /\ ~ Unchanged(r, p.seen) /\ s.row = r /\ s.seen = NoRow
              /\ \/ p.round < MaxAttempts /\ s.leg = "start" /\ s.answer = "none"
                 \/ p.round >= MaxAttempts /\ s.leg = "end" /\ s.answer = "threw"
<1>1. Sane(r) /\ p \in Calls /\ p.t \in Nat /\ p.leg \in {"start", "write"} /\ p.round \in Nat
      /\ p.seen \in Rows
  BY FineExists, Constants DEF FineCall, LegsOf, Bucketed, Calls
<1>2. PICK b : b = Filled(p.seen, p.t)
  OBVIOUS
<1>3. PICK s : s = StepOf(r, p)
  OBVIOUS
<1>4. /\ p.leg = "start" => s = Yield(r, "write", r, "none")
      /\ p.leg = "write" => s = IF Unchanged(r, p.seen)
                                THEN TakesFrom(b, p.t + 3 * Interval) ELSE Again(r, p)
  BY <1>1, <1>2, <1>3, DynamoBucket DEF Bucketed
<1>5. CASE p.leg = "start"
  BY <1>3, <1>4, <1>5 DEF Yield
<1>6. CASE p.leg = "write" /\ ~ Unchanged(r, p.seen)
  <2>1. CASE p.round < MaxAttempts
    BY <1>3, <1>4, <1>6, <2>1 DEF Again, Yield
  <2>2. CASE ~(p.round < MaxAttempts)
    BY <1>1, <1>3, <1>4, <1>6, <2>2, Constants DEF Again, Yield, Ends
  <2> QED BY <2>1, <2>2
<1>7. CASE p.leg = "write" /\ Unchanged(r, p.seen)
  <2>1. b.tokens \in Int /\ b.last \in Int
    BY <1>1, <1>2, FilledFacts
  <2>2. p.t + 3 * Interval \in Int /\ p.t + 3 * Interval >= 0
    BY <1>1, Constants
  <2>3. PICK m : m = IF b.tokens >= 1 THEN b.tokens - 1 ELSE b.tokens
    OBVIOUS
  <2>4. s.leg = "end" /\ s.answer \in {"allowed", "blocked"}
        /\ s.row = BucketRow(m, b.last, p.t + 3 * Interval)
    BY <1>4, <1>7, <2>1, <2>2, <2>3, TakesFields
  <2>5. s.row.exp = p.t + 3 * Interval
    BY <2>4, BucketFields
  <2> QED BY <1>3, <1>7, <2>2, <2>4, <2>5 DEF Exists
<1> QED BY <1>1, <1>5, <1>6, <1>7

LEMMA BucketUndo ==
    ASSUME Setting, Bucketed, NEW r, Fine(r), NEW p, FineCall(p), p.op = "undo", p.leg # "end"
    PROVE  LET s == UndoOf(r, p) IN
           /\ s.leg \in {"end", "clamp"}
           /\ s.leg = "clamp" => p.leg = "start"
           /\ \/ s.row = r /\ s.leg = "end"
              \/ /\ Exists(r) /\ Exists(s.row)
                 /\ p.leg = "start" => s.row.exp = p.t + 3 * Interval
                 /\ p.leg = "clamp" => s.row.exp = r.exp
<1>1. /\ Sane(r) /\ p \in Calls /\ p.t \in Nat /\ p.leg \in {"start", "clamp"}
      /\ r \in Rows /\ r.exp \in Int
  BY FineExists DEF FineCall, LegsOf, Bucketed, Calls
<1>2. PICK d : d = [r EXCEPT !.count = @ + 1, !.exp = p.t + 3 * Interval]
  OBVIOUS
<1>3. PICK e : e = [r EXCEPT !.count = BucketSize]
  OBVIOUS
<1>4. d.exp = p.t + 3 * Interval /\ e.exp = r.exp
  BY <1>1, <1>2, <1>3 DEF Rows
<1>5. d.exp >= 0
  BY <1>1, <1>4, Constants
<1>6. PICK s : s = UndoOf(r, p)
  OBVIOUS
<1>7. /\ p.leg = "start" => s =
            IF ~ Exists(r) THEN Ends(r, "done")
            ELSE IF r.count + 1 > BucketSize THEN Yield(d, "clamp", NoRow, "none")
            ELSE Ends(d, "done")
      /\ p.leg = "clamp" => s =
            Ends(IF Exists(r) /\ r.count > BucketSize THEN e ELSE r, "done")
  BY <1>1, <1>2, <1>3, <1>6, DynamoBucketUndo DEF Bucketed
<1> QED BY <1>1, <1>4, <1>5, <1>6, <1>7 DEF Ends, Yield, Exists

LEMMA BucketRoundsKeep == ASSUME Base, BucketRounds, [Next]_vars PROVE BucketRounds'
<1> USE Constants
<1>1. Base' /\ backend' = backend /\ strategy' = strategy
  BY Changes
<1>2. CASE ~ Bucketed
  BY <1>1, <1>2 DEF BucketRounds, Bucketed
<1>3. SUFFICES ASSUME Bucketed PROVE BucketRounds'
  BY <1>2
<1>4. Setting /\ Fine(row) /\ row \in Rows /\ row.exp \in Int /\ now \in Nat
  BY FineExists DEF Base, Setting
<1>5. ASSUME NEW c \in Callers, Onestep(c), Begins(c, "incr") \/ Begins(c, "undo"), admin = 0
      PROVE  BucketRounds'
  <2>1. PICK p \in Calls : p = call[c] /\ FineCall(p)
    BY DEF Base
  <2>2. PICK q \in Calls : q = call'[c] /\ FineCall(q)'
    BY <1>1 DEF Base, FineCall, Fine, Sane, Live, Exists
  <2>3. /\ row' = row /\ now' = now /\ admin' = admin /\ q.answer = p.answer
        /\ p.leg = "end" /\ q.leg = "start" /\ q.round = p.round /\ q.gone = p.gone
        /\ q.op = "incr" => p.op = "none" /\ p.answer = "none"
        /\ q.op = "undo" => p.op = "incr" /\ p.answer \in {"allowed", "blocked"}
        /\ q.op \in {"incr", "undo"}
    BY <1>5, <2>1, <2>2 DEF Begins
  <2>4. /\ p.op = "none" => p.round = 1
        /\ p.gone => p.op = "undo"
    BY <1>3, <1>5, <2>1 DEF BucketRounds
  <2>5. Worth(q) = Worth(p)
    BY <2>3 DEF Worth
  <2>6. q.op = "incr" => Tried(row, q) = 0
    BY <2>3, <2>4 DEF Tried
  <2>7. Worth(p) \in Int
    BY DEF Worth
  <2>8. ~ q.gone
    BY <2>1, <2>3, <2>4
  <2> QED BY <1>1, <1>3, <1>5, <2>1, <2>2, <2>3, <2>5, <2>6, <2>7, <2>8, BucketRoundsMove
<1>6. ASSUME NEW c \in Callers, Onestep(c), Stepped(c), admin = 0 PROVE BucketRounds'
  <2>1. PICK p \in Calls : p = call[c] /\ FineCall(p)
    BY DEF Base
  <2>2. PICK q \in Calls : q = call'[c]
    BY <1>1 DEF Base
  <2>3. PICK s : s = StepOf(row, p)
    OBVIOUS
  <2>4. /\ p.op = "incr" /\ p.leg # "end" /\ p.answer = "none" /\ ~ p.gone
        /\ row' = s.row /\ now' = now /\ admin' = admin
        /\ q.op = "incr" /\ q.leg = s.leg /\ q.answer = s.answer /\ ~ q.gone /\ q.seen = s.seen
        /\ q.round = (IF s.leg = "end" THEN 1 ELSE IF s.leg = "start" THEN p.round + 1 ELSE p.round)
        /\ q.t = (IF s.leg = "end" /\ s.answer # "threw" THEN 0 ELSE p.t)
    BY <1>6, <2>1, <2>2, <2>3 DEF Stepped
  <2>5. p.t \in Nat /\ p.round \in Nat /\ now <= p.t + MaxLag /\ p.leg # "clamp"
    BY <2>1, <2>4 DEF Calls, FineCall
  <2>6. \/ p.leg = "start" /\ s.leg = "write" /\ s.row = row /\ s.seen = row /\ s.answer = "none"
        \/ /\ p.leg = "write" /\ Unchanged(row, p.seen) /\ s.leg = "end"
           /\ s.answer \in {"allowed", "blocked"}
           /\ Exists(s.row) /\ s.row.exp = p.t + 3 * Interval
        \/ /\ p.leg = "write" /\ ~ Unchanged(row, p.seen) /\ s.row = row /\ s.seen = NoRow
           /\ \/ p.round < MaxAttempts /\ s.leg = "start" /\ s.answer = "none"
              \/ p.round >= MaxAttempts /\ s.leg = "end" /\ s.answer = "threw"
    BY <1>3, <1>4, <2>1, <2>3, <2>4, BucketStep
  <2>7. Worth(p) = 0
    BY <2>4, <2>5 DEF Worth
  <2>8. CASE p.leg = "start"
    <3>1. /\ q.leg = "write" /\ q.answer = "none" /\ row' = row /\ q.seen = row /\ q.t = p.t
          /\ q.round = p.round
      BY <2>4, <2>6, <2>8
    <3>2. Worth(q) = 0
      BY <2>4, <3>1 DEF Worth
    <3>3. Tried(row, q) <= Tried(row, p)
      BY <2>5, <2>8, <3>1 DEF Tried, Unchanged
    <3> QED BY <1>1, <1>3, <1>6, <2>1, <2>2, <2>4, <2>7, <3>1, <3>2, <3>3, BucketRoundsMove
  <2>9. CASE p.leg = "write" /\ Unchanged(row, p.seen)
    <3>1. /\ q.leg = "end" /\ q.answer \in {"allowed", "blocked"}
          /\ Exists(row') /\ row'.exp = p.t + 3 * Interval
      BY <2>4, <2>6, <2>9
    <3>2. Worth(q) = 1
      BY <2>4, <3>1 DEF Worth
    <3>3. row'.exp + MaxLag >= now + 3 * Interval
      BY <1>4, <2>5, <3>1
    <3> QED BY <1>1, <1>3, <1>6, <2>1, <2>2, <2>4, <2>7, <3>1, <3>2, <3>3, BucketRoundsMove
  <2>10. CASE p.leg = "write" /\ ~ Unchanged(row, p.seen) /\ s.leg = "start"
    <3>1. /\ q.leg = "start" /\ q.answer = "none" /\ row' = row /\ q.t = p.t
          /\ q.round = p.round + 1
      BY <2>4, <2>6, <2>10
    <3>2. Worth(q) = 0
      BY <2>4, <3>1 DEF Worth
    <3>3. Tried(row, q) <= Tried(row, p)
      BY <2>5, <2>10, <3>1 DEF Tried
    <3> QED BY <1>1, <1>3, <1>6, <2>1, <2>2, <2>4, <2>7, <3>1, <3>2, <3>3, BucketRoundsMove
  <2>11. CASE p.leg = "write" /\ ~ Unchanged(row, p.seen) /\ s.leg = "end"
    <3>1. /\ q.leg = "end" /\ q.answer = "threw" /\ row' = row /\ p.round >= MaxAttempts
      BY <2>4, <2>6, <2>11
    <3>2. Worth(q) = 1
      BY <2>4, <3>1 DEF Worth
    <3>3. Tried(row, p) >= MaxAttempts
      BY <2>5, <2>11, <3>1 DEF Tried
    <3> QED BY <1>1, <1>3, <1>6, <2>1, <2>2, <2>4, <2>7, <3>1, <3>2, <3>3, BucketRoundsMove
  <2> QED BY <2>6, <2>8, <2>9, <2>10, <2>11
<1>7. ASSUME NEW c \in Callers, Onestep(c), Returned(c), admin = 0 PROVE BucketRounds'
  <2>1. PICK p \in Calls : p = call[c] /\ FineCall(p)
    BY DEF Base
  <2>2. PICK q \in Calls : q = call'[c]
    BY <1>1 DEF Base
  <2>3. PICK s : s = UndoOf(row, p)
    OBVIOUS
  <2>4. /\ p.op = "undo" /\ p.leg # "end" /\ row' = s.row /\ now' = now /\ admin' = admin
        /\ q.op = "undo" /\ q.leg = s.leg /\ q.gone
        /\ s.leg = "end" => q.answer = "allowed"
        /\ s.leg # "end" => q.answer = p.answer /\ q.t = p.t
    BY <1>7, <2>1, <2>2, <2>3 DEF Returned
  <2>5. p.t \in Nat /\ now <= p.t + MaxLag /\ p.answer \in {"allowed", "blocked"}
        /\ p.leg \in {"start", "clamp"} /\ (p.leg = "clamp" => p.gone)
    <3>1. p.leg \in {"start", "clamp"}
      BY <1>3, <2>1, <2>4 DEF FineCall, LegsOf, Bucketed
    <3> QED BY <2>1, <2>4, <3>1 DEF Calls, FineCall
  <2>6. /\ s.leg \in {"end", "clamp"}
        /\ s.leg = "clamp" => p.leg = "start"
        /\ \/ s.row = row /\ s.leg = "end"
           \/ /\ Exists(row) /\ Exists(s.row)
              /\ p.leg = "start" => s.row.exp = p.t + 3 * Interval
              /\ p.leg = "clamp" => s.row.exp = row.exp
    BY <1>3, <1>4, <2>1, <2>3, <2>4, BucketUndo
  <2>7. p.leg = "start" => ~ p.gone
    BY <1>3, <1>7, <2>1 DEF BucketRounds
  <2>8. q.answer \in {"allowed", "blocked"}
    BY <2>4, <2>5
  <2>9. Worth(p) = IF p.leg = "clamp" THEN 2 ELSE 1
    BY <2>5, <2>7 DEF Worth
  <2>10. Worth(q) = IF s.leg = "clamp" THEN 2 ELSE 3
    BY <2>4, <2>8 DEF Worth
  <2>11. Worth(q) >= Worth(p) + 1
    BY <2>5, <2>6, <2>9, <2>10
  <2>12. Worth(p) \in Int /\ Worth(q) \in Int
    BY DEF Worth
  <2>13. row' # row => /\ Exists(row')
                       /\ \/ row'.exp + MaxLag >= now + 3 * Interval
                          \/ p.leg = "clamp" /\ Exists(row) /\ row'.exp = row.exp
    BY <1>4, <2>4, <2>5, <2>6
  <2>14. q.leg = "clamp" => row'.exp + MaxLag >= q.t + 3 * Interval
    BY <2>4, <2>5, <2>6
  <2>15. Worth(q) >= Worth(p)
    BY <2>11, <2>12
  <2>16. q.leg \in {"clamp", "end"} /\ q.answer # "none" /\ q.answer # "threw" /\ q.op # "none"
         /\ q.op # "incr"
    BY <2>4, <2>6, <2>8
  <2> QED BY <1>1, <1>3, <1>7, <2>1, <2>2, <2>4, <2>11, <2>13, <2>14, <2>15, <2>16, BucketRoundsMove
<1>8. ASSUME NEW c \in Callers, Onestep(c), Failed(c), admin = 0 PROVE BucketRounds'
  <2>1. PICK p \in Calls : p = call[c] /\ FineCall(p)
    BY DEF Base
  <2>2. PICK q \in Calls : q = call'[c]
    BY <1>1 DEF Base
  <2>3. PICK s : s = StepOf(row, p)
    OBVIOUS
  <2>4. /\ p.op \in {"incr", "undo"} /\ p.leg # "end" /\ now' = now /\ admin' = admin
        /\ q.op = p.op /\ q.leg = "end" /\ q.gone = p.gone
        /\ \/ row' = row
           \/ p.op = "incr" /\ row' = s.row /\ s.leg = "end" /\ s.answer # "threw"
        /\ p.op = "incr" => p.answer = "none" /\ ~ p.gone /\ q.answer = "failed"
        /\ p.op = "undo" => q.answer = p.answer
    BY <1>8, <2>1, <2>2, <2>3 DEF Failed
  <2>5. p.t \in Nat /\ now <= p.t + MaxLag
        /\ (p.op = "undo" => p.answer \in {"allowed", "blocked"})
        /\ (p.op = "incr" => p.leg # "clamp")
    BY <2>1, <2>4 DEF Calls, FineCall, LegsOf
  <2>6. p.op = "incr" /\ row' = s.row /\ s.leg = "end" /\ s.answer # "threw" =>
          Exists(s.row) /\ s.row.exp = p.t + 3 * Interval
    BY <1>3, <1>4, <2>1, <2>3, <2>4, BucketStep
  <2>7. p.gone => p.op = "undo"
    BY <1>3, <1>8, <2>1 DEF BucketRounds
  <2>8. Worth(p) \in Int /\ Worth(q) \in Int
    BY DEF Worth
  <2>9. p.op = "undo" => Worth(q) >= Worth(p)
    BY <2>4 DEF Worth
  <2>10. p.op = "incr" => Worth(p) = 0 /\ Worth(q) = 1
    BY <2>4, <2>5 DEF Worth
  <2>11. row' # row => /\ Exists(row') /\ p.op = "incr"
                       /\ row'.exp + MaxLag >= now + 3 * Interval
    BY <1>4, <2>4, <2>5, <2>6
  <2>12. Worth(q) >= Worth(p) /\ (row' # row => Worth(q) >= Worth(p) + 1)
    BY <2>4, <2>8, <2>9, <2>10, <2>11
  <2>13. q.answer # "none" /\ q.answer # "threw" /\ q.op # "none" /\ q.leg # "clamp"
    BY <2>4, <2>5
  <2> QED BY <1>1, <1>3, <1>8, <2>1, <2>2, <2>4, <2>7, <2>11, <2>12, <2>13, BucketRoundsMove
<1>9. CASE Expired /\ admin = 0
  <2>1. row' = NoRow /\ call' = call /\ admin' = admin /\ ~ Exists(row') /\ Exists(row)
    BY <1>3, <1>9, NoRowFields DEF Expired, Snapshots, Bucketed
  <2>2. row.exp < now
    BY <1>3, <1>9, DynamoOps DEF Expired, MayExpire, Dynamo!MayExpire, Bucketed
  <2>3. PICK d \in Callers : call[d].answer # "none"
    BY <1>3, <1>9, <2>1 DEF BucketRounds
  <2>4. ASSUME NEW c \in Callers, call[c].op = "incr", call[c].leg # "end"
        PROVE  Tried(row', call[c]) <= Writes(c)
    <3>1. PICK p \in Calls : p = call[c] /\ FineCall(p)
      BY DEF Base
    <3>2. p.answer = "none" /\ now <= p.t + MaxLag /\ p.t \in Nat
      BY <2>4, <3>1 DEF FineCall, Calls
    <3>3. Writes(c) >= 1 /\ Writes(c) \in Nat
      <4>1. d # c
        BY <2>3, <3>1, <3>2
      <4> QED BY <2>3, <4>1, WritesType
    <3>4. ~(Tried(row, p) >= 1)
      BY <1>3, <1>4, <1>9, <2>1, <2>2, <2>4, <3>1, <3>2 DEF BucketRounds
    <3>5. Tried(row, p) \in Nat /\ Tried(row', p) \in Nat /\ Tried(row', p) <= Tried(row, p) + 1
      BY TriedType, TriedLater
    <3> QED BY <3>1, <3>3, <3>4, <3>5
  <2>5. \A c \in Callers : Writes(c)' = Writes(c)
    BY <2>1 DEF Writes, Answered, Taken, Clamping
  <2>6. \A c \in Callers : Answered(c)' = Answered(c) /\ Taken(c)' = Taken(c)
    BY <2>1 DEF Answered, Taken
  <2> QED BY <1>1, <1>3, <1>9, <2>1, <2>4, <2>5, <2>6 DEF BucketRounds, Tried, Unchanged, Exists, Bucketed
<1>10. CASE Ticked \/ UNCHANGED vars
  <2>1. row' = row /\ call' = call /\ admin' = admin
    BY <1>10 DEF Ticked, vars
  <2> QED BY <1>1, <1>3, <2>1 DEF BucketRounds, Tried, Unchanged, Exists, Bucketed, Writes,
             Answered, Taken, Clamping
<1>11. CASE Wiped \/ admin # 0
  <2>1. admin' # 0
    BY <1>1, <1>11, Changes
       DEF Wiped, Base, Begins, Stepped, Snapped, Returned, Failed, Expired, Ticked, vars
  <2> QED BY <2>1 DEF BucketRounds
<1>12. ~ Snapshots
  BY <1>3 DEF Snapshots, Bucketed
<1> QED BY <1>5, <1>6, <1>7, <1>8, <1>9, <1>10, <1>11, <1>12, Changes DEF Snapped

\* Only DynamoDB's loops give up.
OnlyLoopsThrow == \A c \in Callers : call[c].answer = "threw" => backend = "dynamo"

LEMMA OnlyLoopsThrowKeep ==
    ASSUME Base, OnlyLoopsThrow, [Next]_vars PROVE OnlyLoopsThrow'
<1>1. backend' = backend
  BY Changes
<1>2. ASSUME NEW c \in Callers, Onestep(c),
             \/ Begins(c, "incr") \/ Begins(c, "undo")
             \/ Stepped(c) \/ Snapped(c) \/ Returned(c) \/ Failed(c)
      PROVE  OnlyLoopsThrow'
  <2>1. call'[c].answer = "threw" => backend = "dynamo"
    BY <1>2 DEF OnlyLoopsThrow, Begins, Stepped, Snapped, Returned, Failed, StepOk
  <2> QED BY <1>1, <1>2, <2>1 DEF OnlyLoopsThrow, Onestep
<1>3. CASE Wiped
  <2>1. ASSUME NEW c \in Callers PROVE call'[c].answer = call[c].answer
    <3>1. call[c] \in Calls
      BY DEF Base
    <3>2. Marked(call[c]).answer = call[c].answer
      BY <3>1, MarkedFields
    <3> QED BY <1>3, <3>2 DEF Wiped, Drops, Undone, Idle
  <2> QED BY <1>1, <2>1 DEF OnlyLoopsThrow
<1>5. CASE Expired
  <2>1. \A c \in Callers : call'[c].answer = call[c].answer
    BY <1>5 DEF Expired, Drops, Undone, Idle
  <2> QED BY <1>1, <2>1 DEF OnlyLoopsThrow
<1>4. CASE Ticked \/ UNCHANGED vars
  BY <1>1, <1>4 DEF OnlyLoopsThrow, Ticked, vars
<1> QED BY <1>2, <1>3, <1>4, <1>5, Changes

LEMMA RoundsInit == Init => WindowRounds /\ BucketRounds /\ OnlyLoopsThrow
<1> SUFFICES ASSUME Init PROVE WindowRounds /\ BucketRounds /\ OnlyLoopsThrow
  OBVIOUS
<1>1. ~ Exists(row)
  BY NoRowFields DEF Init
<1>2. \A c \in Callers : /\ call[c].op = "none" /\ call[c].round = 1 /\ call[c].answer = "none"
                         /\ ~ call[c].gone /\ call[c].leg = "end"
  BY DEF Init, Idle
<1> QED BY <1>1, <1>2 DEF WindowRounds, BucketRounds, OnlyLoopsThrow

LEMMA RoundsGiveUp ==
    Base /\ WindowRounds /\ BucketRounds /\ OnlyLoopsThrow => GivesUpOnlyWhenStale
<1> SUFFICES ASSUME Base, WindowRounds, BucketRounds, OnlyLoopsThrow,
                    NEW c \in Callers, call[c].answer = "threw"
             PROVE  \/ /\ strategy # "TOKEN_BUCKET"
                       /\ call[c].at >= Dynamo!Boundary(call[c].t) + Window
                    \/ admin > 0
                    \/ /\ strategy = "TOKEN_BUCKET"
                       /\ Cardinality(Answered(c)) + 2 * Cardinality(Taken(c)) >= MaxAttempts
  BY DEF GivesUpOnlyWhenStale, Answered, Taken
<1>1. backend = "dynamo" /\ admin \in Nat
  BY DEF OnlyLoopsThrow, Base
<1>2. CASE admin > 0
  BY <1>2
<1>3. CASE admin = 0 /\ strategy # "TOKEN_BUCKET"
  <2>1. call[c].at >= Bound(call[c].t) + Window
    BY <1>1, <1>3 DEF WindowRounds, Windowed
  <2> QED BY <1>3, <2>1, DynamoOps DEF Dynamo!Boundary, Bound
<1>4. CASE admin = 0 /\ strategy = "TOKEN_BUCKET"
  <2>1. MaxAttempts <= Cardinality(Answered(c)) + 2 * Cardinality(Taken(c))
    BY <1>1, <1>4 DEF BucketRounds, Bucketed
  <2>2. Cardinality(Answered(c)) \in Nat /\ Cardinality(Taken(c)) \in Nat /\ MaxAttempts \in Nat
    BY WritesType, Constants
  <2>3. PICK x \in Nat : x = Cardinality(Answered(c)) + 2 * Cardinality(Taken(c))
    BY <2>2
  <2> QED BY <1>4, <2>1, <2>2, <2>3
<1> QED BY <1>1, <1>2, <1>3, <1>4

\* An increment of DynamoDB gives up only when a later window has begun, an operator has
\* interfered, or other callers have written as often as its loop has rounds; no
\* increment of another store gives up at all.
THEOREM GivesUpCorrect == Spec => []GivesUpOnlyWhenStale
<1>1. Init => Base /\ WindowRounds /\ BucketRounds /\ OnlyLoopsThrow
  BY BaseInit, RoundsInit
<1>2. Base /\ WindowRounds /\ BucketRounds /\ OnlyLoopsThrow /\ [Next]_vars
      => (Base /\ WindowRounds /\ BucketRounds /\ OnlyLoopsThrow)'
  BY NextKeeps, WindowRoundsKeep, BucketRoundsKeep, OnlyLoopsThrowKeep
<1> QED BY <1>1, <1>2, RoundsGiveUp, PTL DEF Spec

-----------------------------------------------------------------------------
(* Hits that count                                                         *)

IsHit(p) == p.answer \in {"allowed", "blocked"} /\ ~ p.gone
IsWon(p) == p.answer = "allowed" /\ ~ p.gone
HitsIn(f) == {d \in Callers : IsHit(call[d]) /\ call[d].filed = f}
HitsAfter(x) == {d \in Callers : IsHit(call[d]) /\ call[d].filed > x}
WonIn(f) == {d \in Callers : IsWon(call[d]) /\ call[d].filed = f}
WonSince(y) == {d \in Callers : IsWon(call[d]) /\ call[d].at >= y}
Clean == leaks \subseteq {"clockBehind", "set", "missedUndo"}

\* A step that leaves the row and the hits as they are, an increment that writes, an
\* undo that writes.
SameHit(p, q) == /\ IsHit(q) <=> IsHit(p)
                 /\ IsWon(q) <=> IsWon(p)
                 /\ IsHit(p) => q.at = p.at /\ q.filed = p.filed
Quiet == /\ row' = row /\ now' \in {now, now + 1} /\ leaks \subseteq leaks'
         /\ \A d \in Callers : SameHit(call[d], call'[d])
Adds(c) ==
    LET p == call[c]  q == call'[c]  s == StepOf(row, p) IN
    /\ Onestep(c) /\ Unlocked(c)
    /\ p.op = "incr" /\ p.leg # "end" /\ p.answer = "none" /\ now' = now
    /\ row' = s.row /\ s.leg = "end" /\ s.answer \in {"allowed", "blocked"}
    /\ q.answer \in {s.answer, "failed"} /\ ~ q.gone
    /\ q.answer # "failed" => q.at = now /\ q.filed = FiledUnder(s.row, p.t)
    /\ leaks \subseteq leaks'
    /\ InsertRace(c) => "insertRace" \in leaks'
    /\ BoundaryRace(c) => "boundaryRace" \in leaks'
    /\ ClockBehind(c) => "clockBehind" \in leaks'
Removes(c) ==
    LET p == call[c] IN
    /\ Onestep(c) /\ Unlocked(c) /\ p.op = "undo" /\ p.leg # "end" /\ now' = now
    /\ Snapshots /\ Exists(row) => p.leg = "write"
    /\ row' = UndoOf(row, p).row /\ call'[c].gone
    /\ leaks \subseteq leaks'
    /\ GivesBack(c) /\ LateUndo(c) => "lateUndo" \in leaks'
    /\ StaleUndo(c) => "staleUndo" \in leaks'
    /\ ShiftedUndo(c, p.newest) => "shiftedUndo" \in leaks'
    /\ MissedUndo(c) => "missedUndo" \in leaks'

LEMMA Forms ==
    ASSUME Base, [Next]_vars
    PROVE  /\ Base' /\ backend' = backend /\ strategy' = strategy /\ leaks \subseteq leaks'
           /\ Quiet \/ (\E c \in Callers : Adds(c) \/ Removes(c)) \/ Wiped \/ Expired
<1>1. ASSUME NEW c \in Callers, Onestep(c), SameHit(call[c], call'[c]), row' = row, now' = now,
             leaks \subseteq leaks'
      PROVE  Quiet
  <2>1. \A d \in Callers : SameHit(call[d], call'[d])
    BY <1>1 DEF Onestep, SameHit
  <2> QED BY <1>1, <2>1 DEF Quiet
<1>2. ASSUME NEW c \in Callers, Onestep(c), Begins(c, "incr") \/ Begins(c, "undo") PROVE Quiet
  BY <1>1, <1>2 DEF Begins, SameHit, IsHit, IsWon
<1>3. ASSUME NEW c \in Callers, Onestep(c), Stepped(c) PROVE Quiet \/ Adds(c)
  <2>1. PICK s : s = StepOf(row, call[c])
    OBVIOUS
  <2>2. CASE s.leg = "end" /\ s.answer # "threw"
    BY <1>3, <2>1, <2>2 DEF Stepped, Adds, StepOk
  <2>3. CASE s.leg # "end" \/ s.answer = "threw"
    <3>1. row' = row /\ call'[c].answer \in {"none", "threw"} /\ call[c].answer = "none"
      BY <1>3, <2>1, <2>3 DEF Stepped, StepOk
    <3> QED BY <1>1, <1>3, <3>1 DEF Stepped, SameHit, IsHit, IsWon
  <2> QED BY <2>2, <2>3
<1>4. ASSUME NEW c \in Callers, Onestep(c), Returned(c) PROVE Removes(c)
  BY <1>4 DEF Returned, Removes
<1>5. ASSUME NEW c \in Callers, Onestep(c), Failed(c) PROVE Quiet \/ Adds(c)
  <2>1. PICK s : s = StepOf(row, call[c])
    OBVIOUS
  <2>2. CASE call[c].op = "incr" /\ row' = s.row /\ s.leg = "end" /\ s.answer # "threw"
             /\ StepOk(s, row, call[c])
    BY <1>5, <2>1, <2>2 DEF Failed, Adds, StepOk
  <2>3. CASE row' = row
    BY <1>1, <1>5, <2>3 DEF Failed, SameHit, IsHit, IsWon
  <2> QED BY <1>5, <2>1, <2>2, <2>3 DEF Failed
<1>8. ASSUME NEW c \in Callers, Onestep(c), Snapped(c) PROVE Quiet
  BY <1>1, <1>8 DEF Snapped, SameHit, IsHit, IsWon
<1>6. Ticked \/ UNCHANGED vars => Quiet
  BY DEF Ticked, vars, Quiet, SameHit
<1>7. leaks \subseteq leaks'
  BY Changes DEF Begins, Stepped, Snapped, Returned, Failed, Wiped, Expired, Ticked, vars
<1> QED BY <1>2, <1>3, <1>4, <1>5, <1>6, <1>7, <1>8, Changes

\* What the steps make of the numbers of hits.
LEMMA HitsType ==
    ASSUME Base, NEW x
    PROVE  /\ IsFiniteSet(HitsIn(x)) /\ Cardinality(HitsIn(x)) \in Nat
           /\ IsFiniteSet(HitsAfter(x)) /\ Cardinality(HitsAfter(x)) \in Nat
           /\ IsFiniteSet(WonIn(x)) /\ Cardinality(WonIn(x)) \in Nat
           /\ IsFiniteSet(WonSince(x)) /\ Cardinality(WonSince(x)) \in Nat
           /\ Cardinality(WonIn(x)) <= Cardinality(HitsIn(x))
<1>1. WonIn(x) \subseteq HitsIn(x) /\ HitsIn(x) \subseteq Callers
  BY DEF WonIn, HitsIn, IsWon, IsHit
<1>2. HitsAfter(x) \subseteq Callers /\ WonIn(x) \subseteq Callers /\ WonSince(x) \subseteq Callers
  BY DEF WonIn, HitsAfter, WonSince
<1>3. IsFiniteSet(Callers)
  BY Constants
<1> QED BY <1>1, <1>2, <1>3, FS_Subset, FS_CardinalityType

LEMMA HitsMove ==
    ASSUME Base, Base', NEW c \in Callers, Onestep(c), NEW x
    PROVE  LET p == call[c]  q == call'[c] IN
           /\ Cardinality(HitsIn(x)') + (IF IsHit(p) /\ p.filed = x THEN 1 ELSE 0)
              = Cardinality(HitsIn(x)) + (IF IsHit(q) /\ q.filed = x THEN 1 ELSE 0)
           /\ Cardinality(HitsAfter(x)') + (IF IsHit(p) /\ p.filed > x THEN 1 ELSE 0)
              = Cardinality(HitsAfter(x)) + (IF IsHit(q) /\ q.filed > x THEN 1 ELSE 0)
           /\ Cardinality(WonIn(x)') + (IF IsWon(p) /\ p.filed = x THEN 1 ELSE 0)
              = Cardinality(WonIn(x)) + (IF IsWon(q) /\ q.filed = x THEN 1 ELSE 0)
           /\ Cardinality(WonSince(x)') + (IF IsWon(p) /\ p.at >= x THEN 1 ELSE 0)
              = Cardinality(WonSince(x)) + (IF IsWon(q) /\ q.at >= x THEN 1 ELSE 0)
<1>1. PICK p, q : p = call[c] /\ q = call'[c]
  OBVIOUS
<1>2. PICK A, B, C, D : A = HitsIn(x) /\ B = HitsAfter(x) /\ C = WonIn(x) /\ D = WonSince(x)
  OBVIOUS
<1>3. PICK AA, BB, CC, DD : AA = HitsIn(x)' /\ BB = HitsAfter(x)' /\ CC = WonIn(x)' /\ DD = WonSince(x)'
  OBVIOUS
<1>4. IsFiniteSet(A) /\ IsFiniteSet(B) /\ IsFiniteSet(C) /\ IsFiniteSet(D)
  BY <1>2, HitsType
<1>5. AA \ {c} = A \ {c} /\ BB \ {c} = B \ {c} /\ CC \ {c} = C \ {c} /\ DD \ {c} = D \ {c}
  BY <1>2, <1>3 DEF HitsIn, HitsAfter, WonIn, WonSince, Onestep
<1>6. /\ c \in A <=> IsHit(p) /\ p.filed = x
      /\ c \in B <=> IsHit(p) /\ p.filed > x
      /\ c \in C <=> IsWon(p) /\ p.filed = x
      /\ c \in D <=> IsWon(p) /\ p.at >= x
  BY <1>1, <1>2 DEF HitsIn, HitsAfter, WonIn, WonSince
<1>7. /\ c \in AA <=> IsHit(q) /\ q.filed = x
      /\ c \in BB <=> IsHit(q) /\ q.filed > x
      /\ c \in CC <=> IsWon(q) /\ q.filed = x
      /\ c \in DD <=> IsWon(q) /\ q.at >= x
  BY <1>1, <1>3 DEF HitsIn, HitsAfter, WonIn, WonSince
<1>8. Cardinality(AA) + (IF c \in A THEN 1 ELSE 0) = Cardinality(A) + (IF c \in AA THEN 1 ELSE 0)
  BY <1>4, <1>5, Moved
<1>9. Cardinality(BB) + (IF c \in B THEN 1 ELSE 0) = Cardinality(B) + (IF c \in BB THEN 1 ELSE 0)
  BY <1>4, <1>5, Moved
<1>10. Cardinality(CC) + (IF c \in C THEN 1 ELSE 0) = Cardinality(C) + (IF c \in CC THEN 1 ELSE 0)
  BY <1>4, <1>5, Moved
<1>11. Cardinality(DD) + (IF c \in D THEN 1 ELSE 0) = Cardinality(D) + (IF c \in DD THEN 1 ELSE 0)
  BY <1>4, <1>5, Moved
<1> QED BY <1>1, <1>2, <1>3, <1>6, <1>7, <1>8, <1>9, <1>10, <1>11

LEMMA HitsStay ==
    ASSUME Base, \A d \in Callers : SameHit(call[d], call'[d]), NEW x
    PROVE  /\ HitsIn(x)' = HitsIn(x) /\ HitsAfter(x)' = HitsAfter(x)
           /\ WonIn(x)' = WonIn(x) /\ WonSince(x)' = WonSince(x)
<1>1. \A d \in Callers : IsWon(call[d]) => IsHit(call[d])
  BY DEF IsWon, IsHit
<1> QED BY <1>1 DEF HitsIn, HitsAfter, WonIn, WonSince, SameHit

LEMMA UndoneGone == Undone.gone /\ Undone.op = "undo"
BY DEF Undone, Idle

LEMMA HitsWiped ==
    ASSUME Base, Wiped
    PROVE  \A d \in Callers : ~ IsHit(call'[d]) /\ ~ IsWon(call'[d])
<1>1. ASSUME NEW d \in Callers PROVE ~ IsHit(call'[d]) /\ ~ IsWon(call'[d])
  <2>1. CASE call'[d] = Marked(call[d])
    BY <2>1, MarkedFields DEF Base, IsHit, IsWon
  <2>2. CASE Drops(d)
    BY <2>2, UndoneGone DEF Drops, IsHit, IsWon
  <2> QED BY <2>1, <2>2 DEF Wiped
<1> QED BY <1>1

\* The undos that the deletion of the row ends count no longer, the others as before.
LEMMA HitsExpired ==
    ASSUME Base, Expired
    PROVE  \A d \in Callers : IsWon(call'[d]) => call'[d] = call[d]
BY UndoneGone DEF Expired, Drops, IsWon

LEMMA QuotaLess ==
    ASSUME Setting, NEW n \in Nat, NEW m \in Nat, n <= m, Quota(m) PROVE Quota(n)
<1>1. n * Window <= m * Window /\ n * Window \in Int /\ m * Window \in Int
  <2>1. Window * n <= Window * m /\ Window * n \in Int /\ Window * m \in Int
    BY Constants, Multiples
  <2>2. Window * n = n * Window /\ Window * m = m * Window
    BY Constants
  <2> QED BY <2>1, <2>2
<1>2. PICK z \in Int : z = Limit * Greatest(Window, 2 * Window - 2)
  BY Constants DEF Greatest
<1>3. CASE strategy = "TOKEN_BUCKET"
  BY <1>3, Constants DEF Quota, Weighted
<1>4. CASE strategy = "FIXED_WINDOW"
  BY <1>4, Constants DEF Quota, Weighted
<1>5. CASE Weighted
  <2>1. PICK a, b \in Int : a = n * Window /\ b = m * Window
    BY <1>1
  <2>2. Quota(m) <=> b <= z
    BY <1>2, <1>5, <2>1 DEF Quota, Weighted
  <2>3. Quota(n) <=> a <= z
    BY <1>2, <1>5, <2>1 DEF Quota, Weighted
  <2>4. a <= b
    BY <1>1, <2>1
  <2> QED BY <1>2, <2>1, <2>2, <2>3, <2>4
<1>6. CASE strategy = "SLIDING_WINDOW" /\ ~ Weighted
  BY <1>6, Constants DEF Quota
<1> QED BY <1>3, <1>4, <1>5, <1>6 DEF Setting, Strategies

LEMMA SpanIs == ASSUME Setting PROVE Span \in Nat /\ Span >= 1
BY Constants DEF Span, Setting

\* The quota is kept if an increment is only admitted while there is room in it.
LEMMA QuotaKeeps ==
    ASSUME Base, [Next]_vars, AdmissionBounded,
           \A c \in Callers : Adds(c) /\ call'[c].answer = "allowed" /\ Clean' =>
               Quota(Cardinality(WonSince(now - Span + 1)) + 1)
    PROVE  AdmissionBounded'
<1>1. Base' /\ backend' = backend /\ strategy' = strategy /\ leaks \subseteq leaks'
      /\ (Quiet \/ (\E c \in Callers : Adds(c) \/ Removes(c)) \/ Wiped \/ Expired)
  BY Forms
<1>2. Setting /\ now \in Nat /\ Span \in Nat /\ Span >= 1
  BY SpanIs DEF Base, Setting
<1>3. Span' = Span /\ \A n : Quota(n)' <=> Quota(n)
  <2>1. Span' = Span
    BY <1>1 DEF Span
  <2>2. \A n : Quota(n)' <=> Quota(n)
    BY <1>1 DEF Quota, Weighted
  <2> QED BY <2>1, <2>2
<1>4. SUFFICES ASSUME Clean', NEW x \in 0..now' PROVE Quota(Cardinality(Admitted(x)'))
  BY <1>3 DEF AdmissionBounded, Clean
<1>5. Clean /\ \A y \in 0..now : Quota(Cardinality(Admitted(y)))
  <2>1. Clean
    BY <1>1, <1>4 DEF Clean
  <2> QED BY <2>1 DEF AdmissionBounded, Clean
<1>6. \A y : /\ Admitted(y) = {c \in Callers : IsWon(call[c]) /\ call[c].at \in (y - Span + 1)..y}
             /\ Admitted(y)' = {c \in Callers : IsWon(call'[c]) /\ call'[c].at \in (y - Span + 1)..y}
             /\ IsFiniteSet(Admitted(y)) /\ IsFiniteSet(Admitted(y)')
  <2>1. \A y : /\ Admitted(y) = {c \in Callers : IsWon(call[c]) /\ call[c].at \in (y - Span + 1)..y}
               /\ Admitted(y)' = {c \in Callers : IsWon(call'[c]) /\ call'[c].at \in (y - Span + 1)..y}
    BY <1>3 DEF Admitted, IsWon
  <2>2. \A y : Admitted(y) \subseteq Callers /\ Admitted(y)' \subseteq Callers
    BY <2>1
  <2>3. IsFiniteSet(Callers)
    BY Constants
  <2> QED BY <2>1, <2>2, <2>3, FS_Subset
<1>7. ASSUME NEW y \in 0..now, Admitted(x)' \subseteq Admitted(y)
      PROVE  Quota(Cardinality(Admitted(x)'))
  <2>1. PICK A, AA : A = Admitted(y) /\ AA = Admitted(x)'
    OBVIOUS
  <2>2. IsFiniteSet(A) /\ IsFiniteSet(AA) /\ AA \subseteq A /\ Quota(Cardinality(A))
    BY <1>5, <1>6, <1>7, <2>1
  <2>3. Cardinality(AA) \in Nat /\ Cardinality(A) \in Nat /\ Cardinality(AA) <= Cardinality(A)
    BY <2>2, FS_Subset, FS_CardinalityType
  <2> QED BY <1>2, <2>1, <2>2, <2>3, QuotaLess
<1>8. \A c \in Callers : call[c].at \in Nat /\ call[c].at <= now
  BY DEF Base, FineCall, Calls
<1>9. CASE Quiet
  <2>1. \A c \in Callers : IsWon(call'[c]) => IsWon(call[c]) /\ call'[c].at = call[c].at
    BY <1>9 DEF Quiet, SameHit, IsWon, IsHit
  <2>2. CASE x <= now
    <3>1. Admitted(x)' \subseteq Admitted(x)
      BY <1>6, <2>1
    <3> QED BY <1>2, <1>4, <1>7, <2>2, <3>1
  <2>3. CASE x = now + 1
    <3>1. Admitted(x)' \subseteq Admitted(now)
      BY <1>2, <1>6, <1>8, <2>1, <2>3
    <3> QED BY <1>2, <1>7, <3>1
  <2>4. x <= now \/ x = now + 1
    BY <1>2, <1>4, <1>9 DEF Quiet
  <2> QED BY <2>2, <2>3, <2>4
<1>10. ASSUME NEW c \in Callers, Onestep(c), now' = now, ~ IsWon(call'[c])
       PROVE  Quota(Cardinality(Admitted(x)'))
  <2>1. Admitted(x)' \subseteq Admitted(x)
    BY <1>6, <1>10 DEF Onestep
  <2> QED BY <1>4, <1>7, <1>10, <2>1
<1>11. ASSUME NEW c \in Callers, Adds(c), IsWon(call'[c])
       PROVE  Quota(Cardinality(Admitted(x)'))
  <2>1. call'[c].answer = "allowed" /\ call'[c].at = now /\ now' = now /\ Onestep(c)
        /\ ~ IsWon(call[c])
    BY <1>11 DEF Adds, IsWon
  <2>2. CASE x < now
    <3>1. Admitted(x)' \subseteq Admitted(x)
      BY <1>2, <1>6, <2>1, <2>2 DEF Onestep
    <3> QED BY <1>4, <1>7, <2>1, <3>1
  <2>3. CASE x = now
    <3>1. PICK W : W = WonSince(now - Span + 1)
      OBVIOUS
    <3>2. PICK AA : AA = Admitted(x)'
      OBVIOUS
    <3>3. \A d \in Callers : d # c /\ IsWon(call'[d]) /\ call'[d].at \in (x - Span + 1)..x =>
                               IsWon(call[d]) /\ call[d].at >= now - Span + 1
      BY <1>2, <1>8, <2>1, <2>3 DEF Onestep
    <3>4. AA \subseteq W \cup {c}
      BY <1>6, <3>1, <3>2, <3>3 DEF WonSince
    <3>5. IsFiniteSet(W) /\ Cardinality(W) \in Nat
      BY <3>1, HitsType
    <3>6. c \notin W
      BY <2>1, <3>1 DEF WonSince
    <3>7. IsFiniteSet(W \cup {c}) /\ Cardinality(W \cup {c}) = Cardinality(W) + 1
      BY <3>5, <3>6, FS_AddElement
    <3>8. IsFiniteSet(AA) /\ Cardinality(AA) \in Nat /\ Cardinality(AA) <= Cardinality(W) + 1
      BY <3>4, <3>7, FS_Subset, FS_CardinalityType
    <3>9. Quota(Cardinality(W) + 1)
      BY <1>4, <1>11, <2>1, <3>1
    <3> QED BY <1>2, <3>2, <3>5, <3>8, <3>9, QuotaLess
  <2> QED BY <1>2, <1>4, <2>1, <2>2, <2>3
<1>12. CASE Wiped \/ Expired
  <2>1. \A c \in Callers : IsWon(call'[c]) => IsWon(call[c]) /\ call'[c].at = call[c].at
    BY <1>12, HitsWiped, HitsExpired
  <2>2. now' = now
    BY <1>12 DEF Wiped, Expired
  <2>3. Admitted(x)' \subseteq Admitted(x)
    BY <1>6, <2>1
  <2> QED BY <1>4, <1>7, <2>2, <2>3
<1>13. ASSUME NEW c \in Callers, Removes(c) PROVE Quota(Cardinality(Admitted(x)'))
  BY <1>10, <1>13 DEF Removes, IsWon
<1>14. ASSUME NEW c \in Callers, Adds(c) PROVE Quota(Cardinality(Admitted(x)'))
  BY <1>10, <1>11, <1>14 DEF Adds
<1> QED BY <1>1, <1>9, <1>12, <1>13, <1>14

-----------------------------------------------------------------------------
(* Admission in a sliding window                                           *)

\* Redis keeps no hit beyond the life of its key.
KeyLives(r) == backend = "redis" /\ Exists(r) => Live(r.hits, r.exp - Window) = 0

LEMMA KeyGone ==
    ASSUME Setting, Exact, NEW r, Fine(r), KeyLives(r), NEW x \in Int, x >= now - Window
    PROVE  backend = "redis" => /\ Unexpired(r).hits \in Seq(Nat)
                                /\ Live(Unexpired(r).hits, x) = Live(r.hits, x)
<1>1. r \in Rows /\ r.hits \in Seq(Nat) /\ r.exp \in Int /\ now \in Int /\ Window \in Int
  BY Constants DEF Fine, Sane, Rows, Setting
<1>2. CASE Exists(r) /\ now >= r.exp /\ backend = "redis"
  <2>1. Unexpired(r).hits = << >>
    BY <1>2, NoRowFields DEF Unexpired
  <2>2. PICK y \in Int : y = r.exp - Window
    BY <1>1
  <2>3. Live(r.hits, y) = 0 /\ y <= x
    BY <1>1, <1>2, <2>2 DEF KeyLives
  <2>4. Live(r.hits, x) <= 0 /\ Live(r.hits, x) \in Nat
    BY <1>1, <2>3, LiveFewer, LiveType
  <2>5. Live(r.hits, x) = 0
    BY <2>4
  <2> QED BY <2>1, <2>5, EmptyIs
<1>3. CASE ~(Exists(r) /\ now >= r.exp)
  BY <1>1, <1>3 DEF Unexpired
<1> QED BY <1>2, <1>3

\* An increment adds its hit, and is admitted only if the live hits are within the limit.
LEMMA SlidingStep ==
    ASSUME Setting, Exact, NEW r, Fine(r), KeyLives(r), NEW p, FineCall(p),
           p.op = "incr", p.leg # "end"
    PROVE  LET s == StepOf(r, p) IN
           /\ \A x \in Int : x >= now - Window =>
                Live(s.row.hits, x) = Live(r.hits, x) + (IF p.t > x THEN 1 ELSE 0)
           /\ KeyLives(s.row) /\ s.row.hits \in Seq(Nat)
           /\ s.answer = "allowed" => Len(s.row.hits) <= Limit
<1>1. /\ p \in Calls /\ p.t \in Nat /\ p.t <= now /\ now <= p.t + MaxLag /\ now \in Nat
      /\ Sane(r) /\ r \in Rows /\ r.hits \in Seq(Nat) /\ Window \in Nat /\ strategy = "SLIDING_WINDOW"
  BY Constants DEF FineCall, Fine, Sane, Calls, Rows, Setting, Exact
<1>2. PICK s : s = StepOf(r, p)
  OBVIOUS
<1>3. Fine(s.row) /\ s.row \in Rows /\ s.row.hits \in Seq(Nat)
  <2>1. p.leg \in LegsOf("incr") \ {"end"} /\ Fine(p.seen)
    BY DEF FineCall
  <2>2. StepOk(s, r, p)
    BY <1>1, <1>2, <2>1, StepFine
  <2> QED BY <2>2, FineExists DEF StepOk
<1>4. PICK cut \in Int : cut = p.t - Window
  BY <1>1
<1>5. \A x \in Int : x >= now - Window => x >= cut
  BY <1>1, <1>4
<1>6. ASSUME NEW g \in Seq(Nat)
      PROVE  /\ Prune(g, cut) \in Seq(Nat)
             /\ \A x \in Int : x >= now - Window => Live(Prune(g, cut), x) = Live(g, x)
  <2>1. ASSUME NEW x \in Int, x >= now - Window PROVE Live(Prune(g, cut), x) = Live(g, x)
    <3>1. Live(Prune(g, cut), x) = IF x <= cut THEN Live(g, cut) ELSE Live(g, x)
      BY LivePrune
    <3>2. x >= cut
      BY <1>5, <2>1
    <3> QED BY <3>1, <3>2
  <2>2. Prune(g, cut) \in Seq(Nat)
    BY LivePrune
  <2> QED BY <2>1, <2>2
<1>7. CASE backend = "redis"
  <2>1. PICK g : g = Unexpired(r).hits
    OBVIOUS
  <2>2. g \in Seq(Nat) /\ \A x \in Int : x >= now - Window => Live(g, x) = Live(r.hits, x)
    <3>1. now \in Int /\ now >= now - Window
      BY <1>1
    <3> QED BY <1>7, <2>1, <3>1, KeyGone
  <2>3. PICK h : h = Prune(g, cut)
    OBVIOUS
  <2>4. h \in Seq(Nat) /\ \A x \in Int : x >= now - Window => Live(h, x) = Live(g, x)
    BY <1>6, <2>2, <2>3
  <2>5. PICK i : i = Insert(h, p.t)
    OBVIOUS
  <2>6. s = Ends(SlidingRow(i, now + Window), Verdict(Len(i) > Limit))
    BY <1>1, <1>2, <1>4, <1>7, <2>1, <2>3, <2>5, RedisSliding
  <2>7. i \in Seq(Nat) /\ \A x \in Int : Live(i, x) = Live(h, x) + (IF p.t > x THEN 1 ELSE 0)
    BY <1>1, <2>4, <2>5, LiveInsert
  <2>8. s.row.hits = i /\ s.row.exp = now + Window /\ s.answer = Verdict(Len(i) > Limit)
    BY <2>6, StepFields, SlidingFields
  <2>9. s.row.exp - Window = now
    BY <1>1, <2>8
  <2>10. KeyLives(s.row)
    BY <1>3, <2>9 DEF KeyLives, Fine
  <2>11. s.answer = "allowed" => Len(i) <= Limit
    BY <2>7, <2>8, Constants DEF Verdict
  <2> QED BY <1>2, <1>3, <2>2, <2>4, <2>7, <2>8, <2>10, <2>11
<1>8. ASSUME backend \in {"postgres", "mongo"},
             NEW h \in Seq(Nat), \A x \in Int : x >= now - Window => Live(h, x) = Live(r.hits, x),
             NEW e, s = Ends(SlidingRow(h \o Copies(1, p.t), e), Verdict(Len(h \o Copies(1, p.t)) > Limit))
      PROVE  /\ \A x \in Int : x >= now - Window =>
                  Live(s.row.hits, x) = Live(r.hits, x) + (IF p.t > x THEN 1 ELSE 0)
             /\ KeyLives(s.row) /\ s.row.hits \in Seq(Nat)
             /\ s.answer = "allowed" => Len(s.row.hits) <= Limit
  <2>1. PICK i : i = h \o Copies(1, p.t)
    OBVIOUS
  <2>2. i \in Seq(Nat) /\ \A x \in Int : Live(i, x) = Live(h, x) + (IF p.t > x THEN 1 ELSE 0)
    BY <1>1, <2>1, LiveAppend
  <2>3. s.row.hits = i /\ s.answer = Verdict(Len(i) > Limit)
    <3>1. PICK v : v = SlidingRow(i, e)
      OBVIOUS
    <3>2. v.hits = i
      BY <3>1, SlidingFields
    <3>3. s = Ends(v, Verdict(Len(i) > Limit))
      BY <1>8, <2>1, <3>1
    <3> QED BY <3>2, <3>3, StepFields
  <2>4. s.answer = "allowed" => Len(i) <= Limit
    BY <2>2, <2>3, Constants DEF Verdict
  <2>5. KeyLives(s.row)
    BY <1>8 DEF KeyLives
  <2> QED BY <1>8, <2>2, <2>3, <2>4, <2>5
<1>9. CASE backend = "postgres" /\ Exists(r)
  <2>1. PICK g : g = Prune(r.hits, cut)
    OBVIOUS
  <2>2. g \in Seq(Nat) /\ \A x \in Int : x >= now - Window => Live(g, x) = Live(r.hits, x)
    BY <1>1, <1>6, <2>1
  <2>3. PICK h : h = Sorted(g)
    OBVIOUS
  <2>4. h \in Seq(Nat) /\ \A x \in Int : x >= now - Window => Live(h, x) = Live(r.hits, x)
    BY <2>2, <2>3, LiveSorted
  <2>5. PICK i, e : i = h \o Copies(1, p.t) /\ e = Pg!Newest(i)
    OBVIOUS
  <2>6. s = Ends(SlidingRow(i, e), Verdict(Len(i) > Limit))
    BY <1>1, <1>2, <1>4, <1>9, <2>1, <2>3, <2>5, PgSliding
  <2> QED BY <1>2, <1>8, <1>9, <2>4, <2>5, <2>6
<1>10. CASE backend = "postgres" /\ ~ Exists(r)
  <2>1. r.hits = << >> /\ << >> \in Seq(Nat) /\ << >> \o Copies(1, p.t) = Copies(1, p.t)
        /\ Len(Copies(1, p.t)) = 1
    <3>1. Copies(1, p.t) \in Seq(Nat) /\ Len(Copies(1, p.t)) = 1
      BY <1>1, LiveOne
    <3>2. << >> \o Copies(1, p.t) = Copies(1, p.t)
      BY <3>1
    <3> QED BY <1>1, <1>10, <3>1, <3>2, NoRowFields, EmptyIs DEF Sane
  <2>2. s = Ends(SlidingRow(Copies(1, p.t), p.t + Window), Verdict(1 > Limit))
    BY <1>1, <1>2, <1>10, PgSliding
  <2>3. s = Ends(SlidingRow(<< >> \o Copies(1, p.t), p.t + Window),
                 Verdict(Len(<< >> \o Copies(1, p.t)) > Limit))
    BY <2>1, <2>2
  <2> QED BY <1>2, <1>8, <1>10, <2>1, <2>3
<1>11. CASE backend = "mongo"
  <2>1. PICK h : h = Prune(r.hits, cut)
    OBVIOUS
  <2>2. h \in Seq(Nat) /\ \A x \in Int : x >= now - Window => Live(h, x) = Live(r.hits, x)
    BY <1>1, <1>6, <2>1
  <2>3. PICK i, e : i = h \o Copies(1, p.t) /\ e = p.t + Window
    OBVIOUS
  <2>4. s = Ends(SlidingRow(i, e), Verdict(Len(i) > Limit))
    BY <1>1, <1>2, <1>4, <1>11, <2>1, <2>3, MongoSliding
  <2> QED BY <1>2, <1>8, <1>11, <2>2, <2>3, <2>4
<1> QED BY <1>7, <1>9, <1>10, <1>11 DEF Setting, Exact, Weighted

\* An undo that takes its own hit takes no other.
OwnHit(r, p) == r.hits = << >> \/ r.hits[IF p.newest THEN Len(r.hits) ELSE 1] = p.filed
LEMMA SlidingUndo ==
    ASSUME Setting, Exact, NEW r, Fine(r), KeyLives(r), NEW p, FineCall(p),
           p.op = "undo", p.leg # "end"
    PROVE  LET s == UndoOf(r, p) IN
           /\ OwnHit(r, p) => \A x \in Int : x >= now - Window =>
                Live(r.hits, x) <= Live(s.row.hits, x) + (IF p.filed > x THEN 1 ELSE 0)
           /\ KeyLives(s.row)
<1>1. /\ p \in Calls /\ p.newest \in BOOLEAN /\ Sane(r) /\ r \in Rows /\ r.hits \in Seq(Nat)
      /\ now \in Nat /\ r.exp \in Int /\ Window \in Nat /\ strategy = "SLIDING_WINDOW"
  BY Constants DEF FineCall, Fine, Sane, Calls, Rows, Setting, Exact
<1>2. PICK m \in BOOLEAN : m = p.newest
  BY <1>1
<1>3. PICK s : s = UndoOf(r, p)
  OBVIOUS
<1>4. PICK d : d = DropHits(r.hits, 1, m)
  OBVIOUS
<1>5. /\ d \in Seq(Nat)
      /\ OwnHit(r, p) => \A x \in Int : Live(r.hits, x) <= Live(d, x) + (IF p.filed > x THEN 1 ELSE 0)
      /\ \A x \in Int : Live(d, x) <= Live(r.hits, x)
  <2>1. CASE r.hits = << >>
    <3>1. d = << >>
      BY <1>1, <1>4, <2>1, LiveDrop
    <3> QED BY <2>1, <3>1, EmptyIs
  <2>2. CASE r.hits # << >>
    <3>1. PICK e : e = r.hits[IF m THEN Len(r.hits) ELSE 1]
      OBVIOUS
    <3>2. OwnHit(r, p) => e = p.filed
      BY <1>2, <2>2, <3>1 DEF OwnHit
    <3>3. d \in Seq(Nat) /\ \A x \in Int : Live(r.hits, x) = Live(d, x) + (IF e > x THEN 1 ELSE 0)
      BY <1>1, <1>4, <2>2, <3>1, LiveDrop
    <3>4. \A x \in Int : Live(d, x) \in Nat
      BY <3>3, LiveType
    <3>5. ASSUME NEW x \in Int
          PROVE  /\ OwnHit(r, p) => Live(r.hits, x) <= Live(d, x) + (IF p.filed > x THEN 1 ELSE 0)
                 /\ Live(d, x) <= Live(r.hits, x)
      <4>1. PICK k \in Nat : k = Live(d, x)
        BY <3>4
      <4> QED BY <3>2, <3>3, <4>1
    <3> QED BY <3>3, <3>5
  <2> QED BY <2>1, <2>2
<1>6. PICK z \in Rows : z = r
  BY <1>1
<1>7. ASSUME NEW v, v = [r EXCEPT !.hits = d]
      PROVE  v.hits = d /\ v.exp = r.exp
  BY <1>6, <1>7 DEF Rows
<1>8. NoRow.hits = << >> /\ ~ Exists(NoRow)
  BY NoRowFields
<1>9. CASE backend = "redis"
  <2>1. PICK v : v = [r EXCEPT !.hits = d]
    OBVIOUS
  <2>2. CASE Exists(r) /\ now >= r.exp
    <3>1. Unexpired(r).hits = << >> /\ DropHits(<< >>, 1, m) = << >>
      <4>1. DropHits(<< >>, 1, m) = << >>
        BY EmptyIs, LiveDrop
      <4> QED BY <1>8, <2>2, <4>1 DEF Unexpired
    <3>2. s = Ends(NoRow, "done")
      BY <1>1, <1>2, <1>3, <1>9, <3>1, RedisSliding
    <3>3. s.row = NoRow
      BY <3>2, StepFields
    <3>4. ASSUME NEW x \in Int, x >= now - Window PROVE Live(r.hits, x) = 0
      <4>1. Live(Unexpired(r).hits, x) = Live(r.hits, x)
        BY <1>9, <3>4, KeyGone
      <4> QED BY <3>1, <4>1, EmptyIs
    <3>5. KeyLives(s.row)
      BY <1>8, <3>3 DEF KeyLives
    <3> QED BY <1>3, <1>8, <3>3, <3>4, <3>5, EmptyIs
  <2>3. CASE ~(Exists(r) /\ now >= r.exp)
    <3>1. s = Ends(IF d = << >> THEN NoRow ELSE v, "done")
      BY <1>1, <1>2, <1>3, <1>4, <1>9, <2>1, <2>3, RedisSliding DEF Unexpired
    <3>2. s.row = IF d = << >> THEN NoRow ELSE v
      BY <3>1, StepFields
    <3>3. s.row.hits = d
      BY <1>7, <1>8, <2>1, <3>2
    <3>4. KeyLives(s.row)
      <4>1. CASE d = << >>
        BY <1>8, <3>2, <4>1 DEF KeyLives
      <4>2. CASE d # << >>
        <5>1. PICK y \in Int : y = r.exp - Window
          BY <1>1
        <5>2. s.row = v /\ v.hits = d /\ v.exp = r.exp /\ (Exists(v) <=> Exists(r))
          BY <1>7, <2>1, <3>2, <4>2 DEF Exists
        <5>3. Exists(r) => Live(r.hits, y) = 0
          BY <1>9, <5>1 DEF KeyLives
        <5>4. Live(d, y) \in Nat /\ Live(d, y) <= Live(r.hits, y)
          BY <1>5, LiveType
        <5> QED BY <5>1, <5>2, <5>3, <5>4 DEF KeyLives
      <4> QED BY <4>1, <4>2
    <3> QED BY <1>3, <1>5, <3>3, <3>4
  <2> QED BY <2>2, <2>3
<1>10. CASE backend \in {"postgres", "mongo"}
  <2>1. s.row.hits = r.hits \/ s.row.hits = d
    <3>1. CASE ~ Exists(r)
      <4>1. s = Ends(r, "done")
        BY <1>1, <1>3, <1>10, <3>1, PgSliding, MongoSliding
      <4> QED BY <4>1, StepFields
    <3>2. CASE Exists(r) /\ backend = "mongo"
      <4>1. PICK v : v = [r EXCEPT !.hits = d]
        OBVIOUS
      <4>2. s = Ends(v, "done")
        BY <1>1, <1>2, <1>3, <1>4, <3>2, <4>1, MongoSliding
      <4> QED BY <1>7, <4>1, <4>2, StepFields
    <3>3. CASE Exists(r) /\ backend = "postgres"
      <4>1. PICK v : v = SlidingRow(d, Pg!Newest(d) + Window)
        OBVIOUS
      <4>2. s = IF d = << >> THEN Ends(NoRow, "done") ELSE Ends(v, "done")
        BY <1>1, <1>2, <1>3, <1>4, <3>3, <4>1, PgSliding
      <4>3. v.hits = d
        BY <4>1, SlidingFields
      <4> QED BY <1>8, <4>2, <4>3, StepFields
    <3> QED BY <1>10, <3>1, <3>2, <3>3
  <2>2. KeyLives(s.row)
    BY <1>10 DEF KeyLives
  <2>3. \A x \in Int : Live(r.hits, x) \in Nat
    BY <1>1, LiveType
  <2> QED BY <1>3, <1>5, <2>1, <2>2, <2>3
<1> QED BY <1>9, <1>10 DEF Setting, Exact, Weighted

\* Every hit that counts is in the row as long as it is live.
SlidingCounts ==
    Exact =>
      /\ KeyLives(row)
      /\ \A d \in Callers : IsHit(call[d]) =>
            call[d].at - MaxLag <= call[d].filed /\ call[d].filed <= call[d].at
      /\ Clean => \A x \in Int : x >= now - Window => Cardinality(HitsAfter(x)) <= Live(row.hits, x)

LEMMA SlidingInit == Init => SlidingCounts
<1> SUFFICES ASSUME Init, Exact PROVE SlidingCounts
  BY DEF SlidingCounts
<1>1. Base /\ row = NoRow
  BY BaseInit DEF Init
<1>2. \A d \in Callers : ~ IsHit(call[d])
  BY DEF Init, Idle, IsHit
<1>3. \A x : HitsAfter(x) = {}
  BY <1>2 DEF HitsAfter
<1>4. \A x : Cardinality(HitsAfter(x)) = 0
  BY <1>3, FS_EmptySet
<1>5. \A x : Live(row.hits, x) = 0
  BY <1>1, NoRowFields, EmptyIs
<1>6. KeyLives(row)
  BY <1>1, NoRowFields DEF KeyLives
<1> QED BY <1>2, <1>4, <1>5, <1>6 DEF SlidingCounts

\* The hits of the row once an operator has set it.
LEMMA SetLives == ASSUME Setting, Exact, NEW n \in Nat PROVE KeyLives(SetRow(n))
<1>1. CASE backend = "redis"
  <2>1. PICK v : v = SetRow(n)
    OBVIOUS
  <2>2. Fine(v)
    BY <2>1, SetFine
  <2>3. v.exp = now + Window \/ v = NoRow
    BY <1>1, <2>1, SetIs, SlidingFields DEF Exact, Setting
  <2>4. CASE v = NoRow
    BY <2>1, <2>4, NoRowFields DEF KeyLives
  <2>5. CASE v.exp = now + Window
    <3>1. v.exp - Window = now
      BY <2>5, Constants DEF Setting
    <3>2. Live(v.hits, now) = 0
      BY <2>2 DEF Fine
    <3> QED BY <2>1, <3>1, <3>2 DEF KeyLives
  <2> QED BY <2>3, <2>4, <2>5
<1> QED BY <1>1 DEF KeyLives

LEMMA SlidingKeeps ==
    ASSUME Base, Exact, SlidingCounts, [Next]_vars
    PROVE  /\ SlidingCounts'
           /\ \A c \in Callers : Adds(c) /\ call'[c].answer = "allowed" /\ Clean' =>
                Quota(Cardinality(WonSince(now - Span + 1)) + 1)
<1>1. Base' /\ backend' = backend /\ strategy' = strategy /\ leaks \subseteq leaks'
      /\ (Quiet \/ (\E c \in Callers : Adds(c) \/ Removes(c)) \/ Wiped \/ Expired)
  BY Forms
<1>2. /\ Setting /\ Fine(row) /\ row.hits \in Seq(Nat) /\ now \in Nat /\ now' \in Nat
      /\ row'.hits \in Seq(Nat) /\ Window \in Nat /\ MaxLag \in Nat /\ MaxLag < Window
  BY <1>1, FineExists, Constants DEF Base, Setting, Fine, Sane, Rows
<1>3. /\ Exact' <=> Exact
      /\ Clean' => Clean
      /\ \A r : KeyLives(r)' <=> KeyLives(r)
  BY <1>1 DEF Exact, Weighted, Clean, KeyLives
<1>4. /\ KeyLives(row)
      /\ \A d \in Callers : IsHit(call[d]) =>
            call[d].at - MaxLag <= call[d].filed /\ call[d].filed <= call[d].at
      /\ Clean => \A x \in Int : x >= now - Window => Cardinality(HitsAfter(x)) <= Live(row.hits, x)
  BY DEF SlidingCounts
<1>5. \A x \in Int : /\ Cardinality(HitsAfter(x)) \in Nat /\ Cardinality(HitsAfter(x)') \in Nat
                     /\ Live(row.hits, x) \in Nat /\ Live(row'.hits, x) \in Nat
  <2>1. \A x \in Int : Cardinality(HitsAfter(x)) \in Nat /\ Live(row.hits, x) \in Nat
                       /\ Live(row'.hits, x) \in Nat
    BY <1>2, HitsType, LiveType
  <2>2. \A x \in Int : HitsAfter(x)' \subseteq Callers
    BY DEF HitsAfter
  <2>3. \A x \in Int : Cardinality(HitsAfter(x)') \in Nat
    BY <2>2, Constants, FS_Subset, FS_CardinalityType
  <2> QED BY <2>1, <2>3
<1>6. ASSUME KeyLives(row'),
             \A d \in Callers : IsHit(call'[d]) =>
                call'[d].at - MaxLag <= call'[d].filed /\ call'[d].filed <= call'[d].at,
             Clean' => \A x \in Int : x >= now - Window =>
                         Cardinality(HitsAfter(x)') <= Live(row'.hits, x),
             now' >= now
      PROVE  SlidingCounts'
  <2>1. \A x \in Int : x >= now' - Window => x >= now - Window
    BY <1>2, <1>6
  <2>2. KeyLives(row)'
    BY <1>1, <1>6 DEF KeyLives
  <2>3. \A x \in Int : Clean' /\ x >= now' - Window => Cardinality(HitsAfter(x))' <= Live(row'.hits, x)
    BY <1>6, <2>1
  <2> QED BY <1>3, <1>6, <2>2, <2>3 DEF SlidingCounts
<1>7. ASSUME Quiet PROVE SlidingCounts'
  <2>1. row' = row /\ now' >= now /\ \A d \in Callers : SameHit(call[d], call'[d])
    BY <1>2, <1>7 DEF Quiet
  <2>2. \A x : HitsAfter(x)' = HitsAfter(x)
    BY <2>1, HitsStay
  <2>3. \A d \in Callers : IsHit(call'[d]) =>
                call'[d].at - MaxLag <= call'[d].filed /\ call'[d].filed <= call'[d].at
    BY <1>4, <2>1 DEF SameHit
  <2>4. KeyLives(row')
    BY <1>4, <2>1
  <2>5. Clean' => \A x \in Int : x >= now - Window => Cardinality(HitsAfter(x)') <= Live(row'.hits, x)
    BY <1>3, <1>4, <2>1, <2>2
  <2>6. now' >= now
    BY <2>1
  <2> QED BY <1>6, <2>3, <2>4, <2>5, <2>6
<1>8. ASSUME NEW c \in Callers, Adds(c)
      PROVE  /\ SlidingCounts'
             /\ call'[c].answer = "allowed" /\ Clean' =>
                  Quota(Cardinality(WonSince(now - Span + 1)) + 1)
  <2>1. PICK p \in Calls : p = call[c] /\ FineCall(p)
    BY DEF Base
  <2>2. PICK q \in Calls : q = call'[c]
    BY <1>1 DEF Base
  <2>3. PICK s : s = StepOf(row, p)
    OBVIOUS
  <2>4. /\ Onestep(c) /\ p.op = "incr" /\ p.leg # "end" /\ p.answer = "none" /\ now' = now
        /\ row' = s.row /\ q.answer \in {s.answer, "failed"} /\ ~ q.gone
        /\ s.answer \in {"allowed", "blocked"}
        /\ q.answer # "failed" => q.at = now /\ q.filed = p.t
    BY <1>8, <2>1, <2>2, <2>3 DEF Adds, FiledUnder
  <2>5. p.t \in Nat /\ p.t <= now /\ now <= p.t + MaxLag
    BY <2>1, <2>4 DEF FineCall, Calls
  <2>6. /\ \A x \in Int : x >= now - Window =>
                Live(row'.hits, x) = Live(row.hits, x) + (IF p.t > x THEN 1 ELSE 0)
        /\ KeyLives(row')
        /\ s.answer = "allowed" => Len(row'.hits) <= Limit
    BY <1>2, <1>4, <2>1, <2>3, <2>4, SlidingStep
  <2>7. ~ IsHit(p) /\ (IsHit(q) <=> q.answer # "failed")
    BY <2>4 DEF IsHit
  <2>8. \A x : Cardinality(HitsAfter(x)') = Cardinality(HitsAfter(x))
                                           + (IF IsHit(q) /\ q.filed > x THEN 1 ELSE 0)
    <3>1. \A x : Cardinality(HitsAfter(x)') + (IF IsHit(p) /\ p.filed > x THEN 1 ELSE 0)
                 = Cardinality(HitsAfter(x)) + (IF IsHit(q) /\ q.filed > x THEN 1 ELSE 0)
      BY <1>1, <2>1, <2>2, <2>4, HitsMove
    <3>2. \A x : Cardinality(HitsAfter(x)') \in Nat
      <4>1. \A x : HitsAfter(x)' \subseteq Callers
        BY DEF HitsAfter
      <4> QED BY <4>1, Constants, FS_Subset, FS_CardinalityType
    <3> QED BY <2>7, <3>1, <3>2
  <2>9. Clean' => \A x \in Int : x >= now - Window => Cardinality(HitsAfter(x)') <= Live(row'.hits, x)
    <3>1. ASSUME Clean', NEW x \in Int, x >= now - Window
          PROVE  Cardinality(HitsAfter(x)') <= Live(row'.hits, x)
      <4>1. PICK a \in Nat : a = Cardinality(HitsAfter(x))
        BY <1>5
      <4>2. PICK b \in Nat : b = Live(row.hits, x)
        BY <1>5
      <4>3. a <= b
        BY <1>3, <1>4, <3>1, <4>1, <4>2
      <4>4. Cardinality(HitsAfter(x)') = a + (IF IsHit(q) /\ q.filed > x THEN 1 ELSE 0)
        BY <2>8, <4>1
      <4>5. Live(row'.hits, x) = b + (IF p.t > x THEN 1 ELSE 0)
        BY <2>6, <3>1, <4>2
      <4>6. IsHit(q) => q.filed = p.t
        BY <2>4, <2>7
      <4> QED BY <4>3, <4>4, <4>5, <4>6
    <3> QED BY <3>1
  <2>10. \A d \in Callers : IsHit(call'[d]) =>
                call'[d].at - MaxLag <= call'[d].filed /\ call'[d].filed <= call'[d].at
    <3>1. IsHit(q) => q.at - MaxLag <= q.filed /\ q.filed <= q.at
      BY <1>2, <2>4, <2>5, <2>7
    <3> QED BY <1>4, <2>2, <2>4, <3>1 DEF Onestep
  <2>11. now' >= now
    BY <1>2, <2>4
  <2>12. ASSUME q.answer = "allowed", Clean'
         PROVE  Quota(Cardinality(WonSince(now - Span + 1)) + 1)
    <3>1. PICK y \in Int : y = now - Window
      BY <1>2
    <3>2. now - Span + 1 = now - Window + MaxLag + 1
      BY <1>2 DEF Span, Exact
    <3>3. PICK A, B : A = WonSince(now - Span + 1) /\ B = HitsAfter(y)
      OBVIOUS
    <3>4. \A d \in Callers : d \in A => d \in B
      <4>1. ASSUME NEW d \in Callers, d \in A PROVE d \in B
        <5>1. IsWon(call[d]) /\ call[d].at >= now - Window + MaxLag + 1
          BY <3>2, <3>3, <4>1 DEF WonSince
        <5>2. IsHit(call[d]) /\ call[d].at \in Nat /\ call[d].filed \in Int
          BY <5>1 DEF IsWon, IsHit, Base, Calls
        <5>3. call[d].filed > y
          BY <1>2, <1>4, <3>1, <5>1, <5>2
        <5> QED BY <3>3, <5>2, <5>3 DEF HitsAfter
      <4> QED BY <4>1
    <3>5. A \subseteq B
      BY <3>3, <3>4 DEF WonSince
    <3>6. IsFiniteSet(B) /\ Cardinality(A) \in Nat /\ Cardinality(B) \in Nat
          /\ Cardinality(A) <= Cardinality(B)
      BY <3>3, <3>5, HitsType, FS_Subset
    <3>7. Cardinality(B) + 1 <= Live(row'.hits, y)
      <4>1. q.filed > y /\ q.filed = p.t /\ IsHit(q) /\ y >= now - Window
        BY <1>2, <2>4, <2>5, <2>7, <2>12, <3>1
      <4>2. Cardinality(HitsAfter(y)') = Cardinality(B) + 1
        BY <2>8, <3>3, <4>1
      <4> QED BY <2>9, <2>12, <4>1, <4>2
    <3>8. Live(row'.hits, y) <= Len(row'.hits) /\ Len(row'.hits) \in Nat
      BY <1>2, LiveLen
    <3>9. Live(row'.hits, y) \in Nat /\ Len(row'.hits) <= Limit
      BY <1>5, <2>4, <2>6, <2>12
    <3>10. Cardinality(A) + 1 <= Limit
      BY <3>6, <3>7, <3>8, <3>9, Constants
    <3> QED BY <3>3, <3>10 DEF Quota, Exact
  <2> QED BY <1>6, <2>2, <2>6, <2>9, <2>10, <2>11, <2>12
<1>9. ASSUME NEW c \in Callers, Removes(c) PROVE SlidingCounts'
  <2>1. PICK p \in Calls : p = call[c] /\ FineCall(p)
    BY DEF Base
  <2>2. PICK q \in Calls : q = call'[c]
    BY <1>1 DEF Base
  <2>3. PICK s : s = UndoOf(row, p)
    OBVIOUS
  <2>4. /\ Onestep(c) /\ p.op = "undo" /\ p.leg = "start" /\ now' = now /\ row' = s.row /\ q.gone
        /\ LateUndo(c) => "lateUndo" \in leaks'
        /\ ShiftedUndo(c, p.newest) => "shiftedUndo" \in leaks'
    <3>1. p.leg = "start"
      BY <1>9, <2>1 DEF Removes, FineCall, LegsOf, Exact, Weighted, Setting, Strategies
    <3>2. GivesBack(c)
      BY <2>1, <3>1 DEF GivesBack, Snapshots, Exact
    <3> QED BY <1>9, <2>1, <2>2, <2>3, <3>1, <3>2 DEF Removes
  <2>5. ~ IsHit(q)
    BY <2>4 DEF IsHit
  <2>6. \A d \in Callers : IsHit(call'[d]) =>
                call'[d].at - MaxLag <= call'[d].filed /\ call'[d].filed <= call'[d].at
    BY <1>4, <2>2, <2>4, <2>5 DEF Onestep
  <2>7. /\ KeyLives(row')
        /\ OwnHit(row, p) => \A x \in Int : x >= now - Window =>
              Live(row.hits, x) <= Live(row'.hits, x) + (IF p.filed > x THEN 1 ELSE 0)
    BY <1>2, <1>4, <2>1, <2>3, <2>4, SlidingUndo
  <2>8. Clean' => OwnHit(row, p) /\ (row.hits # << >> => IsHit(p))
    <3>1. ASSUME Clean' PROVE ~ LateUndo(c) /\ ~ ShiftedUndo(c, p.newest)
      BY <2>4, <3>1 DEF Clean
    <3>2. ASSUME Clean' PROVE OwnHit(row, p)
      BY <2>1, <3>1, <3>2 DEF OwnHit, ShiftedUndo
    <3>3. ASSUME Clean', row.hits # << >> PROVE ~ p.gone
      BY <1>2, <2>1, <3>1, <3>3, FineExists DEF LateUndo
    <3>4. p.answer \in {"allowed", "blocked"}
      BY <2>1, <2>4 DEF FineCall
    <3> QED BY <3>2, <3>3, <3>4 DEF IsHit
  <2>9. Clean' => \A x \in Int : x >= now - Window => Cardinality(HitsAfter(x)') <= Live(row'.hits, x)
    <3>1. ASSUME Clean', NEW x \in Int, x >= now - Window
          PROVE  Cardinality(HitsAfter(x)') <= Live(row'.hits, x)
      <4>1. PICK a, aa, b, bb \in Nat :
              /\ a = Cardinality(HitsAfter(x)) /\ aa = Cardinality(HitsAfter(x)')
              /\ b = Live(row.hits, x) /\ bb = Live(row'.hits, x)
        BY <1>5
      <4>2. a <= b
        BY <1>3, <1>4, <3>1, <4>1
      <4>3. aa + (IF IsHit(p) /\ p.filed > x THEN 1 ELSE 0) = a + (IF IsHit(q) /\ q.filed > x THEN 1 ELSE 0)
        BY <1>1, <2>1, <2>2, <2>4, <4>1, HitsMove
      <4>4. CASE row.hits = << >>
        <5>1. b = 0
          BY <4>1, <4>4, EmptyIs
        <5> QED BY <2>5, <4>1, <4>2, <4>3, <5>1
      <4>5. CASE row.hits # << >>
        <5>1. b <= bb + (IF p.filed > x THEN 1 ELSE 0) /\ IsHit(p)
          BY <2>7, <2>8, <3>1, <4>1, <4>5
        <5> QED BY <2>5, <4>1, <4>2, <4>3, <5>1
      <4> QED BY <4>4, <4>5
    <3> QED BY <3>1
  <2>10. now' >= now
    BY <1>2, <2>4
  <2> QED BY <1>6, <2>6, <2>7, <2>9, <2>10
<1>10. ASSUME Wiped PROVE SlidingCounts'
  <2>1. \A d \in Callers : ~ IsHit(call'[d])
    BY <1>10, HitsWiped
  <2>2. \A x \in Int : Cardinality(HitsAfter(x)') = 0
    <3>1. \A x \in Int : HitsAfter(x)' = {}
      BY <2>1 DEF HitsAfter
    <3> QED BY <3>1, FS_EmptySet
  <2>3. KeyLives(row')
    BY <1>2, <1>10, SetLives, NoRowFields DEF Wiped, KeyLives
  <2>4. now' >= now
    BY <1>2, <1>10 DEF Wiped
  <2>5. \A x \in Int : Cardinality(HitsAfter(x)') <= Live(row'.hits, x)
    BY <1>5, <2>2
  <2>6. \A d \in Callers : IsHit(call'[d]) =>
                call'[d].at - MaxLag <= call'[d].filed /\ call'[d].filed <= call'[d].at
    BY <2>1
  <2>7. Clean' => \A x \in Int : x >= now - Window => Cardinality(HitsAfter(x)') <= Live(row'.hits, x)
    BY <2>5
  <2> QED BY <1>6, <2>3, <2>4, <2>6, <2>7
<1>11. ASSUME Expired PROVE SlidingCounts'
  <2>1. row' = NoRow /\ now' = now /\ call' = call /\ (Preview > 0 => "sweptLive" \in leaks')
    BY <1>2, <1>11 DEF Expired, Snapshots, Exact
  <2>2. KeyLives(row') /\ now' >= now
    BY <1>2, <2>1, NoRowFields DEF KeyLives
  <2>3. \A x : HitsAfter(x)' = HitsAfter(x)
    BY <2>1 DEF HitsAfter
  <2>4. backend \in {"postgres", "mongo"} /\ Exists(row)
    BY <1>2, <1>11 DEF Expired, MayExpire, Exact, Weighted, Setting
  <2>5. Preview = Len(Prune(row.hits, now - Window))
    BY <1>2, <2>4, ServerPreview DEF Exact
  <2>6. PICK y \in Int : y = now - Window
    BY <1>2
  <2>7. Clean' => Live(row.hits, y) = 0
    <3>1. Len(Prune(row.hits, y)) = Live(row.hits, y)
      BY <1>2, LivePrune
    <3>2. Clean' => ~(Preview > 0)
      BY <2>1 DEF Clean
    <3> QED BY <1>5, <2>5, <2>6, <3>1, <3>2
  <2>8. Clean' => \A x \in Int : x >= now - Window => Cardinality(HitsAfter(x)') <= Live(row'.hits, x)
    <3>1. ASSUME Clean', NEW x \in Int, x >= now - Window
          PROVE  Cardinality(HitsAfter(x)') <= Live(row'.hits, x)
      <4>1. Live(row.hits, x) <= Live(row.hits, y)
        BY <1>2, <2>6, <3>1, LiveFewer
      <4>2. Cardinality(HitsAfter(x)) <= Live(row.hits, x)
        BY <1>3, <1>4, <3>1
      <4>3. Cardinality(HitsAfter(x)') = Cardinality(HitsAfter(x))
        BY <2>3
      <4> QED BY <1>5, <2>6, <2>7, <3>1, <4>1, <4>2, <4>3
    <3> QED BY <3>1
  <2>9. \A d \in Callers : IsHit(call'[d]) =>
                call'[d].at - MaxLag <= call'[d].filed /\ call'[d].filed <= call'[d].at
    BY <1>4, <2>1
  <2> QED BY <1>6, <2>2, <2>8, <2>9
<1>12. ASSUME NEW c \in Callers, Adds(c) PROVE SlidingCounts'
  BY <1>8, <1>12
<1> QED BY <1>1, <1>7, <1>8, <1>9, <1>10, <1>11, <1>12

-----------------------------------------------------------------------------
(* Admission in a fixed window                                             *)

Counter == strategy = "FIXED_WINDOW" /\ backend # "dynamo"

\* The row as the store sees it.
Seen(r) == IF backend = "redis" THEN Unexpired(r) ELSE r

LEMMA SeenIs ==
    ASSUME Setting, NEW r, Fine(r)
    PROVE  /\ Fine(Seen(r)) /\ Seen(r) \in Rows /\ Seen(r).exp \in Int /\ Seen(r).count \in Int
           /\ Seen(r) = r \/ (Seen(r) = NoRow /\ Exists(r) /\ r.exp <= now /\ backend = "redis")
           /\ backend = "redis" /\ Exists(Seen(r)) => now < Seen(r).exp
<1>1. Fine(Seen(r))
  BY FineUnexpired DEF Seen
<1>2. r \in Rows /\ r.exp \in Int /\ now \in Int
  BY FineExists DEF Setting
<1> QED BY <1>1, <1>2, FineExists, NoRowFields DEF Seen, Unexpired

\* An increment counts in the window, or begins another.
LEMMA FixedStep ==
    ASSUME Setting, Counter, NEW r, Fine(r), NEW p, FineCall(p), p.leg # "end"
    PROVE  LET s == StepOf(r, p)  v == Seen(r) IN
           /\ Exists(s.row)
           /\ \/ /\ Exists(v) /\ s.row.exp = v.exp /\ s.row.count = v.count + 1
                 /\ s.answer = "allowed" => v.count + 1 <= Limit
              \/ /\ s.row.exp > now /\ now <= s.row.exp - Window + MaxLag /\ s.row.count = 1
                 /\ Exists(v) => v.exp <= now \/ v.count = 0
<1>1. /\ p \in Calls /\ p.t \in Nat /\ p.t <= now /\ now <= p.t + MaxLag /\ now \in Nat /\ Sane(r)
      /\ Window \in Nat /\ MaxLag \in Nat /\ MaxLag < Window
  BY Constants DEF FineCall, Fine, Calls, Setting
<1>2. PICK s : s = StepOf(r, p)
  OBVIOUS
<1>3. PICK v \in Rows : /\ v = Seen(r) /\ Fine(v) /\ v.exp \in Int /\ v.count \in Int
                        /\ backend = "redis" /\ Exists(v) => now < v.exp
  BY SeenIs
<1>4. Exists(v) => v.exp >= 0
  BY DEF Exists
<1>5. ~ Exists(v) => v.count = 0
  BY <1>3, FineCount
<1>6. CASE backend = "redis"
  <2>1. v = Unexpired(r)
    BY <1>3, <1>6 DEF Seen
  <2>2. PICK w : w = FixedRow(v.count + 1, IF v.count = 0 THEN now + Window ELSE v.exp)
    OBVIOUS
  <2>3. s = Ends(w, Verdict(v.count + 1 > Limit))
    BY <1>1, <1>2, <1>6, <2>1, <2>2, RedisFixed DEF Counter
  <2>4. s.row = w /\ (s.answer = "allowed" => ~(v.count + 1 > Limit))
    BY <2>3, StepFields DEF Verdict
  <2>5. w.count = v.count + 1 /\ w.exp = IF v.count = 0 THEN now + Window ELSE v.exp
    BY <2>2, FixedFields
  <2>6. Exists(w)
    BY <1>1, <1>3, <1>4, <1>5, <2>5 DEF Exists
  <2> QED BY <1>1, <1>2, <1>3, <1>5, <2>4, <2>5, <2>6, Constants
<1>7. CASE backend \in {"postgres", "mongo"} /\ Exists(r) /\ r.exp > p.t
  <2>1. v = r
    BY <1>3, <1>7 DEF Seen
  <2>2. PICK w : w = [v EXCEPT !.count = @ + 1]
    OBVIOUS
  <2>3. s = Ends(w, Verdict(v.count + 1 > Limit))
    BY <1>1, <1>2, <1>7, <2>1, <2>2, ServerFixed DEF Counter
  <2>4. s.row = w /\ (s.answer = "allowed" => ~(v.count + 1 > Limit))
    BY <2>3, StepFields DEF Verdict
  <2>5. w.count = v.count + 1 /\ w.exp = v.exp
    BY <2>2 DEF Rows
  <2>6. Exists(w)
    BY <1>7, <2>1, <2>5 DEF Exists
  <2> QED BY <1>2, <1>3, <1>7, <2>1, <2>4, <2>5, <2>6, Constants
<1>8. CASE backend \in {"postgres", "mongo"} /\ ~(Exists(r) /\ r.exp > p.t)
  <2>1. v = r
    BY <1>3, <1>8 DEF Seen
  <2>2. PICK w : w = FixedRow(1, p.t + Window)
    OBVIOUS
  <2>3. s = Ends(w, Verdict(1 > Limit))
    BY <1>1, <1>2, <1>8, <2>2, ServerFixed DEF Counter
  <2>4. s.row = w
    BY <2>3, StepFields
  <2>5. w.count = 1 /\ w.exp = p.t + Window
    BY <2>2, FixedFields
  <2>6. Exists(w) /\ w.exp > now /\ now <= w.exp - Window + MaxLag
    BY <1>1, <2>5 DEF Exists
  <2>7. Exists(v) => v.exp <= now
    BY <1>1, <1>3, <1>8, <2>1
  <2> QED BY <1>2, <1>3, <2>4, <2>5, <2>6, <2>7
<1> QED BY <1>6, <1>7, <1>8 DEF Setting, Counter

LEMMA FixedUndo ==
    ASSUME Setting, Counter, NEW r, Fine(r), NEW p, FineCall(p), p.leg # "end"
    PROVE  LET s == UndoOf(r, p)  v == Seen(r) IN
           /\ Exists(s.row) <=> Exists(v)
           /\ Exists(v) => s.row.exp = v.exp /\ s.row.count >= v.count - 1
<1>1. p \in Calls /\ Sane(r)
  BY DEF FineCall, Fine
<1>2. PICK s : s = UndoOf(r, p)
  OBVIOUS
<1>3. PICK v \in Rows : v = Seen(r) /\ v.exp \in Int /\ v.count \in Int
  BY SeenIs
<1>4. CASE backend = "redis"
  <2>1. v = Unexpired(r)
    BY <1>3, <1>4 DEF Seen
  <2>2. PICK w : w = [v EXCEPT !.count = @ - 1]
    OBVIOUS
  <2>3. s = Ends(IF v.count <= 0 THEN v ELSE w, "done")
    BY <1>1, <1>2, <1>4, <2>1, <2>2, RedisFixed DEF Counter
  <2>4. s.row = IF v.count <= 0 THEN v ELSE w
    BY <2>3, StepFields
  <2>5. w.count = v.count - 1 /\ w.exp = v.exp
    BY <2>2 DEF Rows
  <2> QED BY <1>2, <1>3, <2>4, <2>5 DEF Exists
<1>5. CASE backend \in {"postgres", "mongo"}
  <2>1. v = r
    BY <1>3, <1>5 DEF Seen
  <2>2. PICK w : w = [v EXCEPT !.count = Greatest(0, @ - 1)]
    OBVIOUS
  <2>3. s = Ends(IF Exists(v) THEN w ELSE v, "done")
    BY <1>1, <1>2, <1>5, <2>1, <2>2, ServerFixed DEF Counter
  <2>4. s.row = IF Exists(v) THEN w ELSE v
    BY <2>3, StepFields
  <2>5. w.count = Greatest(0, v.count - 1) /\ w.exp = v.exp
    BY <2>2 DEF Rows
  <2>6. w.count >= v.count - 1
    BY <1>3, <2>5 DEF Greatest
  <2> QED BY <1>2, <1>3, <2>4, <2>5, <2>6 DEF Exists
<1> QED BY <1>4, <1>5 DEF Setting, Counter

\* The counter of the window covers its hits; a window that has ended began at least a
\* span after the hits of those before it, and no hit of a later one came before its end.
Covers(r) == Exists(r) => r.count >= Cardinality(HitsIn(r.exp))
Ordered(r) ==
    \A d \in Callers : IsHit(call[d]) =>
        /\ Exists(r) => /\ call[d].filed <= r.exp
                        /\ call[d].filed < r.exp =>
                              call[d].filed <= now /\ call[d].at <= r.exp - Span
        /\ ~ Exists(r) => call[d].filed <= now
Spaced ==
    \A d, e \in Callers : IsHit(call[d]) /\ IsHit(call[e]) /\ call[d].filed < call[e].filed =>
        call[d].at <= call[e].filed - Span /\ call[e].at >= call[d].filed
FixedCounts ==
    Counter /\ Clean =>
      Covers(row) /\ Ordered(row) /\ Spaced /\ \A f \in Int : Cardinality(WonIn(f)) <= Limit

LEMMA FixedInit == Init => FixedCounts
<1> SUFFICES ASSUME Init PROVE FixedCounts
  OBVIOUS
<1>1. ~ Exists(row)
  BY NoRowFields DEF Init
<1>2. \A d \in Callers : ~ IsHit(call[d])
  BY DEF Init, Idle, IsHit
<1>3. \A f : Cardinality(WonIn(f)) = 0
  <2>1. \A f : WonIn(f) = {}
    BY <1>2 DEF WonIn, IsWon, IsHit
  <2> QED BY <2>1, FS_EmptySet
<1> QED BY <1>1, <1>2, <1>3, Constants DEF FixedCounts, Covers, Ordered, Spaced

\* A key of Redis that has expired is as good as none.
LEMMA SeenCounts ==
    ASSUME Base, Covers(row), Ordered(row)
    PROVE  Covers(Seen(row)) /\ Ordered(Seen(row))
<1>1. PICK v : v = Seen(row)
  OBVIOUS
<1>2. v = row \/ (v = NoRow /\ Exists(row) /\ row.exp <= now)
  BY <1>1, SeenIs DEF Base
<1>3. CASE v = row
  BY <1>1, <1>3
<1>4. CASE v = NoRow /\ Exists(row) /\ row.exp <= now
  <2>1. \A d \in Callers : IsHit(call[d]) => call[d].filed <= now
    <3>1. \A d \in Callers : call[d].filed \in Int
      BY DEF Base, Calls
    <3>2. row.exp \in Int /\ now \in Int
      BY FineExists DEF Base, Setting
    <3> QED BY <1>4, <3>1, <3>2 DEF Ordered
  <2> QED BY <1>1, <1>4, <2>1, NoRowFields DEF Covers, Ordered
<1> QED BY <1>2, <1>3, <1>4

\* Members of at most two windows, the last of them e.
LEMMA TwoWindows ==
    ASSUME NEW W, IsFiniteSet(W), NEW f \in [W -> Int], NEW e \in Int, NEW n \in Nat,
           \A d \in W : f[d] <= e,
           \A d, g \in W : ~(f[d] < f[g] /\ f[g] < e),
           \A x \in Int : Cardinality({d \in W : f[d] = x}) <= n
    PROVE  Cardinality(W) <= 2 * n
<1>1. PICK g \in Int : \A d \in W : f[d] = e \/ f[d] = g
  <2>1. CASE \A d \in W : f[d] = e
    BY <2>1
  <2>2. ASSUME NEW d \in W, f[d] # e
        PROVE  \E g \in Int : \A h \in W : f[h] = e \/ f[h] = g
    <3>1. PICK g \in Int : g = f[d]
      OBVIOUS
    <3>2. ASSUME NEW h \in W PROVE f[h] = e \/ f[h] = g
      BY <2>2, <3>1
    <3> QED BY <3>2
  <2> QED BY <2>1, <2>2
<1>2. PICK A, B : A = {d \in W : f[d] = e} /\ B = {d \in W : f[d] = g}
  OBVIOUS
<1>3. W = A \cup B
  BY <1>1, <1>2
<1>4. /\ IsFiniteSet(A) /\ IsFiniteSet(B) /\ Cardinality(A) \in Nat /\ Cardinality(B) \in Nat
      /\ Cardinality(A) <= n /\ Cardinality(B) <= n
  <2>1. A \subseteq W /\ B \subseteq W
    BY <1>2
  <2> QED BY <1>2, <2>1, FS_Subset, FS_CardinalityType
<1>5. IsFiniteSet(A \cap B) /\ Cardinality(W) = Cardinality(A) + Cardinality(B) - Cardinality(A \cap B)
  BY <1>3, <1>4, FS_Union, FS_Intersection
<1>6. Cardinality(A \cap B) \in Nat
  BY <1>5, FS_CardinalityType
<1> QED BY <1>4, <1>5, <1>6

LEMMA FixedKeeps ==
    ASSUME Base, Counter, FixedCounts, [Next]_vars
    PROVE  /\ FixedCounts'
           /\ \A c \in Callers : Adds(c) /\ call'[c].answer = "allowed" /\ Clean' =>
                Quota(Cardinality(WonSince(now - Span + 1)) + 1)
<1>1. Base' /\ backend' = backend /\ strategy' = strategy /\ leaks \subseteq leaks'
      /\ (Quiet \/ (\E c \in Callers : Adds(c) \/ Removes(c)) \/ Wiped \/ Expired)
  BY Forms
<1>2. /\ Setting /\ Fine(row) /\ now \in Nat /\ now' \in Nat /\ Limit \in Nat /\ Limit > 0
      /\ row.exp \in Int /\ row.count \in Int /\ row'.exp \in Int /\ row'.count \in Int
      /\ Window \in Nat /\ MaxLag \in Nat /\ MaxLag < Window /\ Span = Window - MaxLag
      /\ Fine(row)' /\ row' \in Rows
  BY <1>1, FineExists, Constants DEF Base, Setting, Fine, Sane, Rows, Span, Counter
<1>3. (Counter' <=> Counter) /\ (Clean' => Clean) /\ Span' = Span
  BY <1>1 DEF Counter, Clean, Span
<1>4. Clean => Covers(row) /\ Ordered(row) /\ Spaced /\ \A f \in Int : Cardinality(WonIn(f)) <= Limit
  BY DEF FixedCounts
<1>5. /\ \A d \in Callers : call[d].filed \in Int /\ call[d].at \in Nat /\ call[d].at <= now
      /\ \A d \in Callers : call'[d].filed \in Int /\ call'[d].at \in Nat
  BY <1>1 DEF Base, FineCall, Calls
<1>6. \A f : /\ Cardinality(HitsIn(f)) \in Nat /\ Cardinality(HitsIn(f)') \in Nat
             /\ Cardinality(WonIn(f)) \in Nat /\ Cardinality(WonIn(f)') \in Nat
             /\ IsFiniteSet(HitsIn(f)') /\ IsFiniteSet(WonIn(f)') /\ IsFiniteSet(HitsIn(f))
             /\ Cardinality(WonIn(f)') <= Cardinality(HitsIn(f)')
  <2>1. \A f : HitsIn(f)' \subseteq Callers /\ WonIn(f)' \subseteq HitsIn(f)'
    BY DEF HitsIn, WonIn, IsWon, IsHit
  <2>2. \A f : IsFiniteSet(HitsIn(f)') /\ IsFiniteSet(WonIn(f)')
    BY <2>1, Constants, FS_Subset
  <2> QED BY <2>1, <2>2, HitsType, FS_Subset, FS_CardinalityType
\* The hits that are left, when none is added and no window begins.
<1>7. ASSUME \A d \in Callers : IsHit(call'[d]) =>
                IsHit(call[d]) /\ call'[d].at = call[d].at /\ call'[d].filed = call[d].filed,
             \A d \in Callers : IsWon(call'[d]) => IsWon(call[d]),
             Clean => Covers(row)',
             Exists(row') => Exists(row) /\ row'.exp = row.exp,
             ~ Exists(row') /\ Exists(row) => row.exp <= now,
             now' >= now
      PROVE  FixedCounts'
  <2>1. SUFFICES ASSUME Clean
                 PROVE  Ordered(row)' /\ Spaced' /\ \A f \in Int : Cardinality(WonIn(f))' <= Limit
    BY <1>3, <1>7 DEF FixedCounts
  <2>2. \A f \in Int : Cardinality(WonIn(f))' <= Limit
    <3>1. \A f : WonIn(f)' \subseteq WonIn(f)
      BY <1>7 DEF WonIn, IsWon, IsHit
    <3>2. \A f : Cardinality(WonIn(f)') <= Cardinality(WonIn(f))
      BY <3>1, HitsType, FS_Subset
    <3>3. ASSUME NEW f \in Int PROVE Cardinality(WonIn(f)') <= Limit
      <4>1. PICK a, b \in Nat : a = Cardinality(WonIn(f)) /\ b = Cardinality(WonIn(f)')
        BY <1>6
      <4>2. b <= a /\ a <= Limit
        BY <1>4, <2>1, <3>2, <4>1
      <4> QED BY <1>2, <4>1, <4>2
    <3> QED BY <3>3
  <2>3. Spaced'
    BY <1>3, <1>4, <1>7, <2>1 DEF Spaced
  <2>4. ASSUME NEW d \in Callers, IsHit(call'[d])
        PROVE  /\ Exists(row') => /\ call'[d].filed <= row'.exp
                                  /\ call'[d].filed < row'.exp =>
                                        call'[d].filed <= now' /\ call'[d].at <= row'.exp - Span
               /\ ~ Exists(row') => call'[d].filed <= now'
    <3>1. IsHit(call[d]) /\ call'[d].at = call[d].at /\ call'[d].filed = call[d].filed
      BY <1>7, <2>4
    <3>2. /\ Exists(row) => /\ call[d].filed <= row.exp
                            /\ call[d].filed < row.exp =>
                                  call[d].filed <= now /\ call[d].at <= row.exp - Span
          /\ ~ Exists(row) => call[d].filed <= now
      BY <1>4, <2>1, <3>1 DEF Ordered
    <3> QED BY <1>2, <1>5, <1>7, <3>1, <3>2
  <2> QED BY <1>3, <2>2, <2>3, <2>4 DEF Ordered
<1>8. ASSUME Quiet PROVE FixedCounts'
  <2>1. /\ row' = row /\ now' >= now /\ \A d \in Callers : SameHit(call[d], call'[d])
    BY <1>2, <1>8 DEF Quiet
  <2>2. Clean => Covers(row)'
    <3>1. PICK f : f = row.exp
      OBVIOUS
    <3>2. HitsIn(f)' = HitsIn(f) /\ row'.exp = f
      BY <2>1, <3>1, HitsStay
    <3> QED BY <1>4, <2>1, <3>1, <3>2 DEF Covers
  <2> QED BY <1>7, <2>1, <2>2 DEF SameHit
<1>9. ASSUME Wiped PROVE FixedCounts'
  <2>1. \A d \in Callers : ~ IsHit(call'[d]) /\ ~ IsWon(call'[d])
    BY <1>9, HitsWiped
  <2>2. \A f : Cardinality(HitsIn(f)') = 0 /\ Cardinality(WonIn(f)') = 0
    <3>1. \A f : HitsIn(f)' = {} /\ WonIn(f)' = {}
      BY <2>1 DEF HitsIn, WonIn
    <3> QED BY <3>1, FS_EmptySet
  <2>3. row'.count >= 0
    <3>1. CASE row' = NoRow
      BY <3>1, NoRowFields
    <3>2. ASSUME NEW n \in Nat, row' = SetRow(n) PROVE row'.count >= 0
      <4>1. row' = FixedRow(n, now + Window)
        BY <1>2, <3>2, SetIs DEF Counter
      <4> QED BY <4>1, FixedFields
    <3> QED BY <1>9, <3>1, <3>2 DEF Wiped
  <2>4. Covers(row)'
    BY <2>2, <2>3 DEF Covers
  <2>5. Ordered(row)' /\ Spaced'
    BY <2>1 DEF Ordered, Spaced
  <2>6. \A f \in Int : Cardinality(WonIn(f))' <= Limit
    BY <1>2, <2>2
  <2> QED BY <2>4, <2>5, <2>6 DEF FixedCounts
<1>10. ASSUME Expired PROVE FixedCounts'
  <2>1. row' = NoRow /\ now' = now /\ call' = call /\ Exists(row)
    BY <1>2, <1>10 DEF Expired, Snapshots, Counter
  <2>2. row.exp <= now
    <3>1. CASE backend = "postgres"
      BY <1>2, <1>10, <2>1, <3>1 DEF Expired, MayExpire, Pg!MayExpire
    <3>2. CASE backend = "mongo"
      BY <1>2, <1>10, <2>1, <3>2 DEF Expired, MayExpire, Mongo!MayExpire
    <3>3. backend # "redis"
      BY <1>10 DEF Expired, MayExpire
    <3> QED BY <1>2, <3>1, <3>2, <3>3 DEF Counter, Setting
  <2>3. ~ Exists(row') /\ now' >= now
    BY <1>2, <2>1, NoRowFields
  <2>4. Covers(row)'
    BY <2>3 DEF Covers
  <2> QED BY <1>7, <2>1, <2>2, <2>3, <2>4
<1>11. ASSUME NEW c \in Callers, Removes(c) PROVE FixedCounts'
  <2>1. PICK p \in Calls : p = call[c] /\ FineCall(p)
    BY DEF Base
  <2>2. PICK v : v = Seen(row)
    OBVIOUS
  <2>3. /\ v = row \/ (v = NoRow /\ Exists(row) /\ row.exp <= now)
        /\ v.exp \in Int /\ v.count \in Int
    BY <1>2, <2>2, SeenIs
  <2>4. /\ Onestep(c) /\ p.op = "undo" /\ p.leg = "start" /\ now' = now
        /\ call'[c].gone /\ row' = UndoOf(row, p).row /\ (LateUndo(c) => "lateUndo" \in leaks')
    <3>1. p.leg = "start"
      BY <1>2, <1>11, <2>1 DEF Removes, FineCall, LegsOf, Counter, Setting, Strategies
    <3>2. GivesBack(c)
      BY <1>2, <2>1, <3>1 DEF GivesBack, Snapshots, Counter
    <3> QED BY <1>11, <2>1, <3>1, <3>2 DEF Removes
  <2>5. /\ Exists(row') <=> Exists(v)
        /\ Exists(v) => row'.exp = v.exp /\ row'.count >= v.count - 1
    BY <1>2, <2>1, <2>2, <2>4, FixedUndo
  <2>6. /\ Exists(row') => Exists(row) /\ row'.exp = row.exp /\ v = row
        /\ ~ Exists(row') /\ Exists(row) => row.exp <= now
    BY <2>3, <2>5, NoRowFields
  <2>7. ~ IsHit(call'[c]) /\ ~ IsWon(call'[c])
    BY <2>4 DEF IsHit, IsWon
  <2>8. ASSUME Clean', Exists(row') PROVE Covers(row)'
    <3>1. ~ LateUndo(c) /\ Exists(row)
      BY <2>4, <2>6, <2>8 DEF Clean
    <3>2. p.filed = row.exp /\ ~ p.gone
      BY <2>1, <3>1 DEF LateUndo, Counter, FiledUnder, Exact, Weighted
    <3>3. IsHit(p)
      BY <2>1, <2>4, <3>2 DEF FineCall, IsHit
    <3>4. Cardinality(HitsIn(row.exp)) <= row.count
      BY <1>3, <1>4, <2>8, <3>1 DEF Covers
    <3>5. PICK f \in Int : f = row.exp
      BY <1>2
    <3>6. Cardinality(HitsIn(f)') + 1 = Cardinality(HitsIn(f)) + 0
      BY <1>1, <2>1, <2>4, <2>7, <3>2, <3>3, <3>5, HitsMove
    <3>7. row'.count >= row.count - 1 /\ row'.exp = f
      BY <2>5, <2>6, <2>8, <3>5
    <3>8. PICK a, b \in Nat : a = Cardinality(HitsIn(f)) /\ b = Cardinality(HitsIn(f)')
      BY <1>6
    <3>9. b + 1 = a /\ a <= row.count
      BY <3>4, <3>5, <3>6, <3>8
    <3>10. row'.count >= b
      BY <1>2, <3>7, <3>8, <3>9
    <3> QED BY <3>7, <3>8, <3>10 DEF Covers
  <2>9. Clean' => Covers(row)'
    <3>1. ~ Exists(row') => Covers(row)'
      BY DEF Covers
    <3> QED BY <2>8, <3>1
  <2>10. \A d \in Callers : IsHit(call'[d]) =>
                IsHit(call[d]) /\ call'[d].at = call[d].at /\ call'[d].filed = call[d].filed
    BY <2>4, <2>7 DEF Onestep
  <2>11. \A d \in Callers : IsWon(call'[d]) => IsWon(call[d])
    BY <2>4, <2>7 DEF Onestep
  <2>12. now' >= now
    BY <1>2, <2>4
  <2>13. CASE Clean'
    BY <1>7, <2>6, <2>9, <2>10, <2>11, <2>12, <2>13
  <2>14. CASE ~ Clean'
    BY <2>14 DEF FixedCounts
  <2> QED BY <2>13, <2>14
<1>12. ASSUME NEW c \in Callers, Adds(c)
       PROVE  /\ FixedCounts'
              /\ call'[c].answer = "allowed" /\ Clean' =>
                   Quota(Cardinality(WonSince(now - Span + 1)) + 1)
  <2>1. PICK p \in Calls : p = call[c] /\ FineCall(p)
    BY DEF Base
  <2>2. PICK q \in Calls : q = call'[c]
    BY <1>1 DEF Base
  <2>3. PICK s : s = StepOf(row, p)
    OBVIOUS
  <2>4. /\ Onestep(c) /\ p.leg # "end" /\ p.answer = "none" /\ now' = now
        /\ row' = s.row /\ q.answer \in {s.answer, "failed"} /\ ~ q.gone
        /\ s.answer \in {"allowed", "blocked"}
        /\ q.answer # "failed" => q.at = now /\ q.filed = row'.exp
    BY <1>12, <2>1, <2>2, <2>3 DEF Adds, FiledUnder, Exact, Weighted, Counter
  <2>5. PICK v : v = Seen(row)
    OBVIOUS
  <2>6. v.exp \in Int /\ v.count \in Int
    BY <1>2, <2>5, SeenIs
  <2>7. /\ Exists(row')
        /\ \/ /\ Exists(v) /\ row'.exp = v.exp /\ row'.count = v.count + 1
              /\ s.answer = "allowed" => v.count + 1 <= Limit
           \/ /\ row'.exp > now /\ now <= row'.exp - Window + MaxLag /\ row'.count = 1
              /\ Exists(v) => v.exp <= now \/ v.count = 0
    BY <1>2, <2>1, <2>3, <2>4, <2>5, FixedStep
  <2>8. ~ IsHit(p) /\ ~ IsWon(p) /\ (IsHit(q) <=> q.answer # "failed")
        /\ (IsWon(q) <=> q.answer = "allowed") /\ (IsWon(q) => s.answer = "allowed")
    BY <2>4 DEF IsHit, IsWon
  <2>9. PICK e \in Int : e = row'.exp
    BY <1>2
  <2>10. IsHit(q) => q.at = now /\ q.filed = e
    BY <2>4, <2>8, <2>9
  <2>11. SUFFICES ASSUME Clean'
                  PROVE  /\ Covers(row)' /\ Ordered(row)' /\ Spaced'
                         /\ \A f \in Int : Cardinality(WonIn(f))' <= Limit
                         /\ q.answer = "allowed" =>
                              Quota(Cardinality(WonSince(now - Span + 1)) + 1)
    BY <2>2 DEF FixedCounts
  <2>12. /\ Covers(v) /\ Ordered(v) /\ Spaced
         /\ \A f \in Int : Cardinality(WonIn(f)) <= Limit
    BY <1>3, <1>4, <2>5, <2>11, SeenCounts
  <2>13. \A f : /\ Cardinality(HitsIn(f)') = Cardinality(HitsIn(f))
                                            + (IF IsHit(q) /\ q.filed = f THEN 1 ELSE 0)
                /\ Cardinality(WonIn(f)') = Cardinality(WonIn(f))
                                            + (IF IsWon(q) /\ q.filed = f THEN 1 ELSE 0)
    <3>1. ASSUME NEW f
          PROVE /\ Cardinality(HitsIn(f)') + (IF IsHit(p) /\ p.filed = f THEN 1 ELSE 0)
                   = Cardinality(HitsIn(f)) + (IF IsHit(q) /\ q.filed = f THEN 1 ELSE 0)
                /\ Cardinality(WonIn(f)') + (IF IsWon(p) /\ p.filed = f THEN 1 ELSE 0)
                   = Cardinality(WonIn(f)) + (IF IsWon(q) /\ q.filed = f THEN 1 ELSE 0)
      BY <1>1, <2>1, <2>2, <2>4, HitsMove
    <3> QED BY <1>6, <2>8, <3>1
\* Those before are of this window, or of one that has ended.
  <2>14. ASSUME NEW d \in Callers, IsHit(call[d])
         PROVE  /\ call[d].filed <= e
                /\ call[d].filed < e => call[d].filed <= now /\ call[d].at <= e - Span
    <3>1. /\ Exists(v) => /\ call[d].filed <= v.exp
                          /\ call[d].filed < v.exp =>
                                call[d].filed <= now /\ call[d].at <= v.exp - Span
          /\ ~ Exists(v) => call[d].filed <= now
      BY <2>12, <2>14 DEF Ordered
    <3>2. CASE Exists(v) /\ e = v.exp
      BY <3>1, <3>2
    <3>3. CASE /\ e > now /\ now <= e - Span
               /\ Exists(v) => v.exp <= now \/ v.count = 0
      <4>1. CASE ~ Exists(v) \/ v.exp <= now
        BY <1>2, <1>5, <2>6, <2>9, <3>1, <3>3, <4>1
      <4>2. CASE Exists(v) /\ v.count = 0
        <5>1. Cardinality(HitsIn(v.exp)) <= 0
          BY <2>12, <4>2 DEF Covers
        <5>2. HitsIn(v.exp) = {}
          <6>1. PICK H : H = HitsIn(v.exp)
            OBVIOUS
          <6>2. IsFiniteSet(H) /\ Cardinality(H) = 0
            BY <1>6, <5>1, <6>1
          <6> QED BY <6>1, <6>2, FS_EmptySet
        <5>3. call[d].filed # v.exp
          BY <2>14, <5>2 DEF HitsIn
        <5> QED BY <1>2, <1>5, <2>6, <2>9, <3>1, <3>3, <4>2, <5>3
      <4> QED BY <3>3, <4>1, <4>2
    <3>4. now <= row'.exp - Window + MaxLag => now <= e - Span
      BY <1>2, <2>9
    <3> QED BY <2>7, <2>9, <3>2, <3>3, <3>4
  <2>15. Covers(row)'
    <3>1. PICK a, b \in Nat : a = Cardinality(HitsIn(e)) /\ b = Cardinality(HitsIn(e)')
      BY <1>6
    <3>2. b <= a + 1
      BY <2>13, <3>1
    <3>3. CASE Exists(v) /\ e = v.exp /\ row'.count = v.count + 1
      <4>1. a <= v.count
        BY <2>12, <3>1, <3>3 DEF Covers
      <4>2. b <= row'.count
        BY <2>6, <3>1, <3>2, <3>3, <4>1
      <4> QED BY <2>9, <3>1, <4>2 DEF Covers
    <3>4. CASE e > now /\ row'.count = 1 /\ (Exists(v) => v.exp <= now \/ v.count = 0)
      <4>1. \A d \in Callers : ~(IsHit(call[d]) /\ call[d].filed = e)
        <5>1. ASSUME NEW d \in Callers, IsHit(call[d]), call[d].filed = e PROVE FALSE
          <6>1. /\ Exists(v) => call[d].filed <= v.exp
                /\ ~ Exists(v) => call[d].filed <= now
            BY <2>12, <5>1 DEF Ordered
          <6>2. CASE Exists(v) /\ v.count = 0
            <7>1. IsFiniteSet(HitsIn(v.exp)) /\ Cardinality(HitsIn(v.exp)) = 0
              BY <1>6, <2>12, <6>2 DEF Covers
            <7>2. HitsIn(v.exp) = {}
              BY <7>1, FS_EmptySet
            <7>3. call[d].filed # v.exp
              BY <5>1, <7>2 DEF HitsIn
            <7>4. call[d].filed < v.exp => call[d].filed <= now
              BY <2>12, <5>1, <6>2 DEF Ordered
            <7> QED BY <1>2, <1>5, <2>6, <3>4, <5>1, <6>1, <6>2, <7>3, <7>4
          <6> QED BY <1>2, <1>5, <2>6, <3>4, <5>1, <6>1, <6>2
        <5> QED BY <5>1
      <4>2. a = 0
        <5>1. HitsIn(e) = {}
          BY <4>1 DEF HitsIn
        <5> QED BY <3>1, <5>1, FS_EmptySet
      <4>3. b <= row'.count
        BY <3>1, <3>2, <3>4, <4>2
      <4> QED BY <2>9, <3>1, <4>3 DEF Covers
    <3> QED BY <2>7, <2>9, <3>3, <3>4
  <2>16. Span' = Span /\ now' = now
    BY <1>3, <2>4
  <2>17. \A d \in Callers : d # c => call'[d] = call[d]
    BY <2>4 DEF Onestep
  <2>18. Ordered(row)'
    <3>1. ASSUME NEW d \in Callers, IsHit(call'[d])
          PROVE  /\ call'[d].filed <= e
                 /\ call'[d].filed < e => call'[d].filed <= now /\ call'[d].at <= e - Span
      <4>1. CASE d = c
        BY <2>2, <2>9, <2>10, <3>1, <4>1
      <4>2. CASE d # c
        BY <2>14, <2>17, <3>1, <4>2
      <4> QED BY <4>1, <4>2
    <3> QED BY <2>7, <2>9, <2>16, <3>1 DEF Ordered
  <2>19. Spaced'
    <3>1. ASSUME NEW d \in Callers, NEW f \in Callers, IsHit(call'[d]), IsHit(call'[f]),
                 call'[d].filed < call'[f].filed
          PROVE  call'[d].at <= call'[f].filed - Span /\ call'[f].at >= call'[d].filed
      <4>1. CASE d # c /\ f # c
        BY <2>12, <2>17, <3>1, <4>1 DEF Spaced
      <4>2. CASE d # c /\ f = c
        BY <2>2, <2>10, <2>14, <2>17, <3>1, <4>2
      <4>3. CASE d = c /\ f # c
        BY <1>5, <2>2, <2>9, <2>10, <2>14, <2>17, <3>1, <4>3
      <4>4. CASE d = c /\ f = c
        BY <2>2, <2>9, <2>10, <3>1, <4>4
      <4> QED BY <4>1, <4>2, <4>3, <4>4
    <3> QED BY <2>16, <3>1 DEF Spaced
  <2>20. \A f \in Int : Cardinality(WonIn(f)') <= Limit
    <3>1. ASSUME NEW f \in Int PROVE Cardinality(WonIn(f)') <= Limit
      <4>1. CASE ~(IsWon(q) /\ f = e)
        <5>1. ~(IsWon(q) /\ q.filed = f)
          BY <2>8, <2>10, <4>1
        <5>2. Cardinality(WonIn(f)') = Cardinality(WonIn(f))
          BY <1>6, <2>13, <5>1
        <5> QED BY <2>12, <5>2
      <4>2. CASE IsWon(q) /\ f = e
        <5>1. row'.count <= Limit
          BY <1>2, <2>7, <2>8, <4>2
        <5>2. Cardinality(HitsIn(e)') <= row'.count
          BY <2>7, <2>9, <2>15 DEF Covers
        <5> QED BY <1>2, <1>6, <4>2, <5>1, <5>2
      <4> QED BY <4>1, <4>2
    <3> QED BY <3>1
  <2>21. ASSUME q.answer = "allowed"
         PROVE  Quota(Cardinality(WonSince(now - Span + 1)) + 1)
    <3>1. PICK W : W = WonSince(now - Span + 1)'
      OBVIOUS
    <3>2. /\ IsFiniteSet(W)
          /\ \A d \in Callers : d \in W <=> IsWon(call'[d]) /\ call'[d].at >= now - Span + 1
          /\ W \subseteq Callers
      <4>1. W = {d \in Callers : IsWon(call'[d]) /\ call'[d].at >= now - Span + 1}
        BY <2>16, <3>1 DEF WonSince
      <4> QED BY <4>1, Constants, FS_Subset
    <3>3. Cardinality(W) = Cardinality(WonSince(now - Span + 1)) + 1 /\ Cardinality(W) \in Nat
      <4>1. PICK y \in Int : y = now - Span + 1
        BY <1>2
      <4>2. IsWon(q) /\ q.at >= y
        BY <1>2, <2>8, <2>10, <2>21, <4>1, <2>4
      <4>3. WonSince(y)' = W
        BY <2>16, <3>1, <4>1
      <4>4. Cardinality(WonSince(y)') + (IF IsWon(p) /\ p.at >= y THEN 1 ELSE 0)
            = Cardinality(WonSince(y)) + (IF IsWon(q) /\ q.at >= y THEN 1 ELSE 0)
        BY <1>1, <2>1, <2>2, <2>4, HitsMove
      <4>5. Cardinality(W) \in Nat /\ Cardinality(WonSince(y)) \in Nat
        BY <3>2, HitsType, FS_CardinalityType
      <4> QED BY <2>8, <4>1, <4>2, <4>3, <4>4, <4>5
    <3>4. \A d \in W : IsHit(call'[d]) /\ call'[d].filed <= e
      BY <2>7, <2>9, <2>18, <3>2 DEF Ordered, IsHit, IsWon
    <3>5. \A f \in Int : IsFiniteSet(WonIn(f)') /\ Cardinality(WonIn(f)') \in Nat
                         /\ Cardinality(WonIn(f)') <= Limit
      BY <1>6, <2>20
    <3>6. ASSUME NEW d \in W, NEW f \in W, call'[d].filed < call'[f].filed, call'[f].filed < e
          PROVE  FALSE
      <4>1. call'[d].at <= call'[f].filed - Span
        BY <2>16, <2>19, <3>2, <3>4, <3>6 DEF Spaced
      <4>2. call'[f].filed <= now
        BY <2>7, <2>9, <2>16, <2>18, <3>2, <3>4, <3>6 DEF Ordered
      <4> QED BY <1>2, <1>5, <3>2, <3>6, <4>1, <4>2
    <3>7. PICK F : F = [d \in W |-> call'[d].filed]
      OBVIOUS
    <3>8. /\ F \in [W -> Int] /\ \A d \in W : F[d] <= e
          /\ \A d, g \in W : ~(F[d] < F[g] /\ F[g] < e)
      BY <1>5, <3>2, <3>4, <3>6, <3>7
    <3>9. ASSUME NEW x \in Int PROVE Cardinality({d \in W : F[d] = x}) <= Limit
      <4>1. PICK A, B : A = {d \in W : F[d] = x} /\ B = WonIn(x)'
        OBVIOUS
      <4>2. A \subseteq B
        BY <3>2, <3>7, <4>1 DEF WonIn
      <4>3. /\ IsFiniteSet(B) /\ Cardinality(B) <= Limit
            /\ Cardinality(A) \in Nat /\ Cardinality(B) \in Nat /\ Cardinality(A) <= Cardinality(B)
        BY <3>5, <4>1, <4>2, FS_Subset, FS_CardinalityType
      <4> QED BY <1>2, <4>1, <4>3
    <3>13. Cardinality(W) <= 2 * Limit
      BY <1>2, <2>9, <3>2, <3>8, <3>9, TwoWindows
    <3>14. PICK n \in Nat : n = Cardinality(W)
      BY <3>3
    <3>15. Quota(n)
      BY <1>2, <3>13, <3>14, Constants DEF Quota, Weighted, Counter
    <3> QED BY <3>3, <3>14, <3>15
  <2> QED BY <2>15, <2>18, <2>19, <2>20, <2>21
<1> QED BY <1>1, <1>8, <1>9, <1>10, <1>11, <1>12

-----------------------------------------------------------------------------
(* Admission in the windows of DynamoDB                                    *)

\* An increment counts in the window of its clock, moves the row on to it from the
\* window before, or begins it.
LEMMA SlotStep ==
    ASSUME Setting, Windowed, NEW r, Fine(r), NEW p, FineCall(p), p.op = "incr", p.leg # "end",
           StepOf(r, p).leg = "end", StepOf(r, p).answer \in {"allowed", "blocked"}
    PROVE  LET s == StepOf(r, p)  b == Bound(p.t) IN
           /\ Exists(s.row) /\ s.row.at = b
           /\ \/ Exists(r) /\ r.at = b /\ s.row.count = r.count + 1 /\ s.row.prev = r.prev
              \/ /\ Exists(r) /\ r.at = b - Window /\ s.row.count = 1 /\ s.row.prev = r.count
              \/ /\ ~ Exists(r) \/ r.at < b
                 /\ p.leg = "restart" /\ s.row.count = 1 /\ s.row.prev = 0
           /\ s.answer = "allowed" =>
                IF Weighted
                THEN s.row.prev * Dynamo!Weight(p.t, b) + s.row.count * Window <= Limit * Window
                ELSE s.row.count <= Limit
<1>1. Sane(r) /\ r \in Rows /\ r.at \in Nat /\ r.count \in Int /\ Limit \in Nat /\ Window \in Nat
  BY FineExists, Constants DEF Fine, Windowed
<1>2. p \in Calls /\ p.t \in Nat
  BY DEF FineCall, Calls
<1>3. PICK b \in Nat : b = Bound(p.t)
  BY <1>2, BoundFacts
<1>4. PICK s : s = StepOf(r, p) /\ s.leg = "end" /\ s.answer \in {"allowed", "blocked"}
  OBVIOUS
<1>5. PICK x : x = Raised(r, p.t)
  OBVIOUS
<1>6. x.at = r.at /\ x.count = r.count + 1 /\ x.prev = r.prev /\ x.exp = p.t + 3 * Window /\ Exists(x)
  BY <1>1, <1>2, <1>5, Constants DEF Raised, Rows, Exists
<1>7. PICK y, z : y = Opened(b, 1, 0, p.t) /\ z = Opened(b, 1, r.count, p.t)
  OBVIOUS
<1>8. /\ y.at = b /\ y.count = 1 /\ y.prev = 0 /\ Exists(y)
      /\ z.at = b /\ z.count = 1 /\ z.prev = r.count /\ Exists(z)
  <2>1. p.t + 3 * Window >= 0
    BY <1>2, Constants
  <2> QED BY <1>7, <2>1, OpenedFields DEF Exists
<1>9. CASE strategy = "FIXED_WINDOW"
  <2>1. p.leg \in {"start", "restart"} /\ ~ Weighted
    BY <1>9 DEF FineCall, LegsOf, Windowed, Weighted
  <2>2. /\ p.leg = "start" => s =
             IF Exists(r) /\ r.at = b
             THEN Ends(x, Verdict(Greatest(0, r.count + 1) > Limit))
             ELSE Yield(r, "restart", NoRow, "none")
        /\ p.leg = "restart" => s =
             IF ~ Exists(r) \/ r.at < b
             THEN Ends(y, Verdict(1 > Limit)) ELSE Again(r, p)
    BY <1>1, <1>2, <1>3, <1>4, <1>5, <1>7, <1>9, DynamoFixed DEF Windowed
  <2>3. CASE p.leg = "start" /\ Exists(r) /\ r.at = b
    <3>1. s.row = x /\ (s.answer = "allowed" => ~(Greatest(0, r.count + 1) > Limit))
      BY <2>2, <2>3, StepFields DEF Verdict
    <3>2. s.answer = "allowed" => r.count + 1 <= Limit
      BY <1>1, <3>1 DEF Greatest
    <3> QED BY <1>3, <1>4, <1>6, <2>1, <2>3, <3>1, <3>2
  <2>4. CASE p.leg = "start" /\ ~(Exists(r) /\ r.at = b)
    BY <1>4, <2>2, <2>4 DEF Yield
  <2>5. CASE p.leg = "restart" /\ (~ Exists(r) \/ r.at < b)
    <3>1. s.row = y
      BY <2>2, <2>5, StepFields
    <3> QED BY <1>3, <1>4, <1>8, <2>1, <2>5, <3>1, Constants
  <2>6. CASE p.leg = "restart" /\ ~(~ Exists(r) \/ r.at < b)
    BY <1>4, <2>2, <2>6 DEF Again, Ends, Yield
  <2> QED BY <2>1, <2>3, <2>4, <2>5, <2>6
<1>10. CASE strategy = "SLIDING_WINDOW"
  <2>1. p.leg \in {"start", "roll", "restart"} /\ Weighted
    BY <1>10 DEF FineCall, LegsOf, Windowed, Weighted
  <2>2. /\ p.leg = "start" => s =
             IF Exists(r) /\ r.at = b THEN Weighs(x, p.t)
             ELSE Yield(r, "roll", NoRow, "none")
        /\ p.leg = "roll" => s =
             IF Exists(r) /\ r.at = b - Window THEN Weighs(z, p.t)
             ELSE Yield(r, "restart", NoRow, "none")
        /\ p.leg = "restart" => s =
             IF ~ Exists(r) \/ r.at < b
             THEN Weighs(y, p.t) ELSE Again(r, p)
    BY <1>2, <1>3, <1>4, <1>5, <1>7, <1>10, DynamoSliding DEF Windowed
  <2>3. PICK w \in Nat : w = Dynamo!Weight(p.t, b)
    <3>1. b \in Int
      BY <1>3
    <3>2. Dynamo!Weight(p.t, b) \in Nat
      BY <1>2, <3>1, WeightFacts
    <3> QED BY <3>2
  <2>4. ASSUME NEW v \in {x, y, z}, v.at = b, s = Weighs(v, p.t)
        PROVE  s.row = v /\ (s.answer = "allowed" => v.prev * w + v.count * Window <= Limit * Window)
    <3>1. s.row = v /\ (s.answer = "allowed" => ~(Dynamo!WeightedCount(v, p.t) > Limit * Window))
      BY <2>4, StepFields DEF Weighs, Verdict
    <3>2. v.prev \in Int /\ v.count \in Int
      BY <1>1, <1>6, <1>8 DEF Rows
    <3>3. Dynamo!WeightedCount(v, p.t) = v.prev * w + v.count * Window
      BY <2>3, <2>4 DEF Dynamo!WeightedCount
    <3>4. PICK m, n \in Int : m = v.prev * w + v.count * Window /\ n = Limit * Window
      BY <1>1, <3>2
    <3> QED BY <3>1, <3>3, <3>4
  <2>5. CASE p.leg = "start" /\ Exists(r) /\ r.at = b
    BY <1>3, <1>4, <1>6, <2>1, <2>2, <2>3, <2>4, <2>5
  <2>6. CASE p.leg = "roll" /\ Exists(r) /\ r.at = b - Window
    BY <1>3, <1>4, <1>8, <2>1, <2>2, <2>3, <2>4, <2>6
  <2>7. CASE p.leg = "restart" /\ (~ Exists(r) \/ r.at < b)
    BY <1>3, <1>4, <1>8, <2>1, <2>2, <2>3, <2>4, <2>7
  <2>8. CASE p.leg = "start" /\ ~(Exists(r) /\ r.at = b)
    BY <1>4, <2>2, <2>8 DEF Yield
  <2>9. CASE p.leg = "roll" /\ ~(Exists(r) /\ r.at = b - Window)
    BY <1>4, <2>2, <2>9 DEF Yield
  <2>10. CASE p.leg = "restart" /\ ~(~ Exists(r) \/ r.at < b)
    BY <1>4, <2>2, <2>10 DEF Again, Ends, Yield
  <2> QED BY <2>1, <2>5, <2>6, <2>7, <2>8, <2>9, <2>10
<1> QED BY <1>9, <1>10 DEF Windowed, Setting, Strategies

LEMMA SlotUndo ==
    ASSUME Setting, Windowed, NEW r, Fine(r), NEW p, FineCall(p), p.op = "undo", p.leg # "end"
    PROVE  LET x == UndoOf(r, p).row IN
           /\ (Exists(x) <=> Exists(r)) /\ x.at = r.at /\ x.prev = r.prev
           /\ x.count >= r.count \/ (p.leg = "start" /\ Exists(r) /\ x.count = r.count - 1)
<1>1. r \in Rows /\ r.count \in Int /\ p \in Calls /\ p.leg \in {"start", "clamp"}
  BY FineExists DEF FineCall, LegsOf, Windowed
<1>2. PICK d, z : d = [r EXCEPT !.count = r.count - 1] /\ z = [r EXCEPT !.count = 0]
  OBVIOUS
<1>3. /\ d.at = r.at /\ d.exp = r.exp /\ d.prev = r.prev /\ d.count = r.count - 1
      /\ z.at = r.at /\ z.exp = r.exp /\ z.prev = r.prev /\ z.count = 0
  BY <1>1, <1>2 DEF Rows
<1>4. /\ p.leg = "start" => UndoOf(r, p) =
             IF ~ (Exists(r) /\ r.at = Bound(p.t)) THEN Ends(r, "done")
             ELSE IF r.count - 1 < 0 THEN Yield(d, "clamp", NoRow, "none")
             ELSE Ends(d, "done")
      /\ p.leg = "clamp" => UndoOf(r, p) =
             Ends(IF Exists(r) /\ r.at = Bound(p.t) /\ r.count < 0 THEN z ELSE r, "done")
  BY <1>1, <1>2, DynamoWindowUndo DEF Windowed
<1>5. PICK x : x = UndoOf(r, p).row
  OBVIOUS
<1>6. \/ x = r
      \/ p.leg = "start" /\ Exists(r) /\ x = d
      \/ r.count < 0 /\ x = z
  BY <1>1, <1>4, <1>5, StepFields
<1> QED BY <1>1, <1>3, <1>5, <1>6 DEF Exists

\* A hit is in the window its caller's clock was in.
Placed(p) == /\ p.filed \in Nat /\ Bound(p.filed) = p.filed
             /\ p.filed <= p.at /\ p.at < p.filed + Window + MaxLag

\* The item covers the hits of its window and, if it is weighted, of the one before; no
\* hit is in a later one.
Slots(r) == Exists(r) => /\ r.count >= Cardinality(HitsIn(r.at))
                         /\ Weighted => r.prev >= Cardinality(HitsIn(r.at - Window))
Reached(r) ==
    \A d \in Callers : IsHit(call[d]) =>
        /\ Exists(r) => call[d].filed <= r.at
        /\ ~ Exists(r) => call[d].filed + 3 * Window <= now
WindowCounts ==
    Windowed /\ Clean =>
      /\ Slots(row) /\ Reached(row)
      /\ \A d \in Callers : IsHit(call[d]) => Placed(call[d])
      /\ \A f \in Int : Cardinality(WonIn(f)) <= Limit

LEMMA WindowInit == Init => WindowCounts
<1> SUFFICES ASSUME Init PROVE WindowCounts
  OBVIOUS
<1>1. ~ Exists(row)
  BY NoRowFields DEF Init
<1>2. \A d \in Callers : ~ IsHit(call[d])
  BY DEF Init, Idle, IsHit
<1>3. \A f : Cardinality(WonIn(f)) = 0
  <2>1. \A f : WonIn(f) = {}
    BY <1>2 DEF WonIn, IsWon, IsHit
  <2> QED BY <2>1, FS_EmptySet
<1> QED BY <1>1, <1>2, <1>3, Constants DEF WindowCounts, Slots, Reached

\* What an admission leaves room for, in two windows' worth of hits a and b, the first
\* of which weighs w of Window.
LEMMA WeighedRoom ==
    ASSUME NEW a \in Nat, NEW b \in Nat, NEW p \in Int, NEW q \in Int, NEW w \in Nat,
           a <= p, b <= q, a <= Limit, w <= Window,
           p * w + q * Window <= Limit * Window
    PROVE  /\ b <= Limit
           /\ a > 0 /\ w >= 2 => (a + b) * Window <= Limit * Greatest(Window, 2 * Window - 2)
           /\ a = 0 => b * Window <= Limit * Greatest(Window, 2 * Window - 2)
<1>1. Window \in Nat /\ Window > 0 /\ Limit \in Nat /\ Limit > 0
  BY Constants
<1>2. PICK aw, bw, pw, qw, lw \in Int : /\ aw = a * w /\ bw = b * Window /\ pw = p * w
                                        /\ qw = q * Window /\ lw = Limit * Window
  BY <1>1
<1>3. 0 <= aw /\ aw <= pw /\ bw <= qw /\ bw <= lw /\ aw + bw <= lw
  <2>1. 0 <= aw /\ aw <= pw
    BY <1>2
  <2>2. bw <= qw
    BY <1>1, <1>2
  <2> QED BY <1>2, <2>1, <2>2
<1>4. b <= Limit
  <2>1. SUFFICES ASSUME Limit < b PROVE FALSE
    BY <1>1
  <2>2. Window * Limit + Window <= Window * b
    BY <1>1, <2>1, Multiples
  <2> QED BY <1>1, <1>2, <1>3, <2>2
<1>5. PICK g \in Int : g = Greatest(Window, 2 * Window - 2) /\ g >= Window /\ g >= 2 * Window - 2
  BY <1>1 DEF Greatest
<1>6. PICK lg, l2 \in Int : lg = Limit * g /\ l2 = Limit * (2 * Window - 2) /\ lg >= lw /\ lg >= l2
  <2>1. PICK lg, l2 \in Int : lg = Limit * g /\ l2 = Limit * (2 * Window - 2)
    BY <1>1, <1>5
  <2>2. Limit * Window <= Limit * g
    BY <1>1, <1>5
  <2>3. Limit * (2 * Window - 2) <= Limit * g
    BY <1>1, <1>5
  <2> QED BY <1>2, <2>1, <2>2, <2>3
<1>7. ASSUME w >= 2 PROVE (a + b) * Window <= lg
  <2>1. PICK v \in Nat : v = Window - w
    BY <1>1
  <2>2. PICK av, lv \in Int : av = a * v /\ lv = Limit * v
    BY <1>1
  <2>3. av <= lv
    BY <1>1, <2>2
  <2>4. (a + b) * Window = aw + av + bw
    <3>1. a * Window = a * w + a * v
      BY <1>1, <2>1
    <3>2. (a + b) * Window = a * Window + b * Window
      BY <1>1
    <3> QED BY <1>2, <2>2, <3>1, <3>2
  <2>5. lv <= l2 - lw
    <3>1. Limit * v <= Limit * (Window - 2)
      BY <1>1, <1>7, <2>1
    <3>2. Limit * (2 * Window - 2) = Limit * Window + Limit * (Window - 2)
      BY <1>1
    <3>3. PICK m \in Int : m = Limit * (Window - 2)
      BY <1>1
    <3> QED BY <1>2, <1>6, <2>2, <3>1, <3>2, <3>3
  <2> QED BY <1>2, <1>3, <1>6, <2>2, <2>3, <2>4, <2>5
<1> QED BY <1>2, <1>3, <1>4, <1>5, <1>6, <1>7

LEMMA WindowKeeps ==
    ASSUME Base, Windowed, WindowRounds, WindowCounts, [Next]_vars
    PROVE  /\ WindowCounts'
           /\ \A c \in Callers : Adds(c) /\ call'[c].answer = "allowed" /\ Clean' =>
                Quota(Cardinality(WonSince(now - Span + 1)) + 1)
<1>1. Base' /\ backend' = backend /\ strategy' = strategy /\ leaks \subseteq leaks'
      /\ (Quiet \/ (\E c \in Callers : Adds(c) \/ Removes(c)) \/ Wiped \/ Expired)
  BY Forms
<1>2. /\ Setting /\ Fine(row) /\ now \in Nat /\ now' \in Nat /\ Limit \in Nat /\ Limit > 0
      /\ row \in Rows /\ row.exp \in Int /\ row.count \in Int /\ row.prev \in Int
      /\ row.at \in Nat /\ Bound(row.at) = row.at
      /\ Window \in Nat /\ MaxLag \in Nat /\ MaxLag < Window /\ Window > 0 /\ Span = Window - MaxLag
      /\ Fine(row)' /\ row' \in Rows /\ row'.at \in Int /\ row'.count \in Int /\ row'.prev \in Int
  BY <1>1, FineExists, Constants DEF Base, Setting, Fine, Sane, Rows, Span, Windowed
<1>3. (Windowed' <=> Windowed) /\ (Weighted' <=> Weighted) /\ (Clean' => Clean) /\ Span' = Span
  BY <1>1 DEF Windowed, Weighted, Clean, Span
<1>4. Clean => /\ Slots(row) /\ Reached(row)
               /\ \A d \in Callers : IsHit(call[d]) => Placed(call[d])
               /\ \A f \in Int : Cardinality(WonIn(f)) <= Limit
  BY DEF WindowCounts
<1>5. /\ \A d \in Callers : call[d].filed \in Int /\ call[d].at \in Nat /\ call[d].at <= now
      /\ \A d \in Callers : call'[d].filed \in Int /\ call'[d].at \in Nat
  BY <1>1 DEF Base, FineCall, Calls
<1>6. \A f : /\ Cardinality(HitsIn(f)) \in Nat /\ Cardinality(HitsIn(f)') \in Nat
             /\ Cardinality(WonIn(f)) \in Nat /\ Cardinality(WonIn(f)') \in Nat
             /\ IsFiniteSet(HitsIn(f)') /\ IsFiniteSet(WonIn(f)') /\ IsFiniteSet(HitsIn(f))
             /\ Cardinality(WonIn(f)') <= Cardinality(HitsIn(f)')
  <2>1. \A f : HitsIn(f)' \subseteq Callers /\ WonIn(f)' \subseteq HitsIn(f)'
    BY DEF HitsIn, WonIn, IsWon, IsHit
  <2>2. \A f : IsFiniteSet(HitsIn(f)') /\ IsFiniteSet(WonIn(f)')
    BY <2>1, Constants, FS_Subset
  <2> QED BY <2>1, <2>2, HitsType, FS_Subset, FS_CardinalityType
\* The hits that are left, when none is added and no window begins.
<1>7. ASSUME \A d \in Callers : IsHit(call'[d]) =>
                IsHit(call[d]) /\ call'[d].at = call[d].at /\ call'[d].filed = call[d].filed,
             \A d \in Callers : IsWon(call'[d]) => IsWon(call[d]),
             Clean => Slots(row)',
             Exists(row') => Exists(row) /\ row'.at = row.at,
             ~ Exists(row') /\ Exists(row) => row.at + 3 * Window <= now,
             now' >= now
      PROVE  WindowCounts'
  <2>1. SUFFICES ASSUME Clean
                 PROVE  /\ Reached(row)'
                        /\ \A d \in Callers : IsHit(call[d])' => Placed(call[d])'
                        /\ \A f \in Int : Cardinality(WonIn(f))' <= Limit
    BY <1>3, <1>7 DEF WindowCounts
  <2>2. \A f \in Int : Cardinality(WonIn(f))' <= Limit
    <3>1. \A f : WonIn(f)' \subseteq WonIn(f)
      BY <1>7 DEF WonIn, IsWon, IsHit
    <3>2. \A f : Cardinality(WonIn(f)') <= Cardinality(WonIn(f))
      BY <3>1, HitsType, FS_Subset
    <3>3. ASSUME NEW f \in Int PROVE Cardinality(WonIn(f)') <= Limit
      <4>1. PICK a, b \in Nat : a = Cardinality(WonIn(f)) /\ b = Cardinality(WonIn(f)')
        BY <1>6
      <4>2. b <= a /\ a <= Limit
        BY <1>4, <2>1, <3>2, <4>1
      <4> QED BY <1>2, <4>1, <4>2
    <3> QED BY <3>3
  <2>3. \A d \in Callers : IsHit(call[d])' => Placed(call[d])'
    BY <1>4, <1>7, <2>1 DEF Placed, Bound
  <2>4. ASSUME NEW d \in Callers, IsHit(call'[d])
        PROVE  /\ Exists(row') => call'[d].filed <= row'.at
               /\ ~ Exists(row') => call'[d].filed + 3 * Window <= now'
    <3>1. IsHit(call[d]) /\ call'[d].at = call[d].at /\ call'[d].filed = call[d].filed
      BY <1>7, <2>4
    <3>2. /\ Exists(row) => call[d].filed <= row.at
          /\ ~ Exists(row) => call[d].filed + 3 * Window <= now
      BY <1>4, <2>1, <3>1 DEF Reached
    <3> QED BY <1>2, <1>5, <1>7, <3>1, <3>2
  <2> QED BY <1>3, <2>2, <2>3, <2>4 DEF Reached
<1>8. ASSUME Quiet PROVE WindowCounts'
  <2>1. /\ row' = row /\ now' >= now /\ \A d \in Callers : SameHit(call[d], call'[d])
    BY <1>2, <1>8 DEF Quiet
  <2>2. Clean => Slots(row)'
    <3>1. PICK f, g : f = row.at /\ g = row.at - Window
      OBVIOUS
    <3>2. HitsIn(f)' = HitsIn(f) /\ HitsIn(g)' = HitsIn(g)
      BY <2>1, HitsStay
    <3> QED BY <1>3, <1>4, <2>1, <3>1, <3>2 DEF Slots
  <2> QED BY <1>7, <2>1, <2>2 DEF SameHit
<1>9. ASSUME Wiped PROVE WindowCounts'
  <2>1. \A d \in Callers : ~ IsHit(call'[d]) /\ ~ IsWon(call'[d])
    BY <1>9, HitsWiped
  <2>2. \A f : Cardinality(HitsIn(f)') = 0 /\ Cardinality(WonIn(f)') = 0
    <3>1. \A f : HitsIn(f)' = {} /\ WonIn(f)' = {}
      BY <2>1 DEF HitsIn, WonIn
    <3> QED BY <3>1, FS_EmptySet
  <2>3. row'.count >= 0 /\ row'.prev >= 0
    <3>1. CASE row' = NoRow
      BY <3>1, NoRowFields
    <3>2. ASSUME NEW n \in Nat, row' = SetRow(n) PROVE row'.count >= 0 /\ row'.prev >= 0
      <4>1. row' = Opened(Bound(now), n, 0, now)
        BY <1>2, <3>2, SetIs DEF Windowed
      <4> QED BY <4>1, OpenedFields
    <3> QED BY <1>9, <3>1, <3>2 DEF Wiped
  <2>4. Slots(row)'
    BY <2>2, <2>3 DEF Slots
  <2>5. Reached(row)' /\ \A d \in Callers : IsHit(call[d])' => Placed(call[d])'
    BY <2>1 DEF Reached
  <2>6. \A f \in Int : Cardinality(WonIn(f))' <= Limit
    BY <1>2, <2>2
  <2> QED BY <2>4, <2>5, <2>6 DEF WindowCounts
<1>10. ASSUME Expired PROVE WindowCounts'
  <2>1. row' = NoRow /\ now' = now /\ call' = call /\ Exists(row) /\ MayExpire
    BY <1>2, <1>10 DEF Expired, Snapshots, Windowed
  <2>2. row.exp < now
    BY <2>1, DynamoOps DEF MayExpire, Windowed, Dynamo!MayExpire
  <2>3. row.at + 3 * Window <= now
    BY <1>2, <2>1, <2>2 DEF WindowRounds
  <2>4. ~ Exists(row') /\ now' >= now
    BY <1>2, <2>1, NoRowFields
  <2>5. Slots(row)'
    BY <2>4 DEF Slots
  <2> QED BY <1>7, <2>1, <2>3, <2>4, <2>5
<1>11. ASSUME NEW c \in Callers, Removes(c) PROVE WindowCounts'
  <2>1. PICK p \in Calls : p = call[c] /\ FineCall(p)
    BY DEF Base
  <2>4. /\ Onestep(c) /\ p.op = "undo" /\ p.leg # "end" /\ now' = now
        /\ call'[c].gone /\ row' = UndoOf(row, p).row
        /\ (p.leg = "start" /\ LateUndo(c) => "lateUndo" \in leaks')
    <3>1. p.leg = "start" => GivesBack(c)
      BY <1>2, <2>1 DEF GivesBack, Snapshots, Windowed
    <3> QED BY <1>11, <2>1, <3>1 DEF Removes
  <2>5. /\ (Exists(row') <=> Exists(row)) /\ row'.at = row.at /\ row'.prev = row.prev
        /\ \/ row'.count >= row.count
           \/ p.leg = "start" /\ Exists(row) /\ row'.count = row.count - 1
    BY <1>2, <2>1, <2>4, SlotUndo
  <2>6. PICK f, g \in Int : f = row.at /\ g = row.at - Window
    BY <1>2
  <2>7. ~ IsHit(call'[c]) /\ ~ IsWon(call'[c])
    BY <2>4 DEF IsHit, IsWon
  <2>8. \A x : Cardinality(HitsIn(x)') + (IF IsHit(p) /\ p.filed = x THEN 1 ELSE 0)
               = Cardinality(HitsIn(x)) + 0
    BY <1>1, <2>1, <2>4, <2>7, HitsMove
  <2>9. PICK a, b, k, m \in Nat : /\ a = Cardinality(HitsIn(f)) /\ b = Cardinality(HitsIn(f)')
                                  /\ k = Cardinality(HitsIn(g)) /\ m = Cardinality(HitsIn(g)')
    BY <1>6
  <2>10. /\ b + (IF IsHit(p) /\ p.filed = f THEN 1 ELSE 0) = a
         /\ m + (IF IsHit(p) /\ p.filed = g THEN 1 ELSE 0) = k
    BY <2>8, <2>9
  <2>11. b <= a /\ m <= k
    BY <2>10
  <2>12. ASSUME Clean', Exists(row') PROVE Slots(row)'
    <3>1. a <= row.count /\ (Weighted => k <= row.prev)
      BY <1>3, <1>4, <2>5, <2>6, <2>9, <2>12 DEF Slots
    <3>2. b <= row'.count
      <4>1. CASE row'.count >= row.count
        BY <1>2, <2>9, <2>11, <3>1, <4>1
      <4>2. CASE p.leg = "start" /\ Exists(row) /\ row'.count = row.count - 1
        <5>1. ~ LateUndo(c)
          BY <2>4, <2>12, <4>2 DEF Clean
        <5>2. p.filed = f /\ ~ p.gone
          BY <2>1, <2>6, <4>2, <5>1 DEF LateUndo, Windowed, FiledUnder, Exact, Weighted
        <5>3. IsHit(p)
          BY <2>1, <2>4, <5>2 DEF FineCall, IsHit
        <5>4. b + 1 = a
          BY <2>10, <5>2, <5>3
        <5> QED BY <1>2, <2>9, <3>1, <4>2, <5>4
      <4> QED BY <2>5, <4>1, <4>2
    <3>3. Weighted => m <= row'.prev
      BY <1>2, <2>5, <2>9, <2>11, <3>1
    <3> QED BY <1>3, <2>5, <2>6, <2>9, <3>2, <3>3 DEF Slots
  <2>13. Clean' => Slots(row)'
    <3>1. ~ Exists(row') => Slots(row)'
      BY DEF Slots
    <3> QED BY <2>12, <3>1
  <2>14. \A d \in Callers : IsHit(call'[d]) =>
                IsHit(call[d]) /\ call'[d].at = call[d].at /\ call'[d].filed = call[d].filed
    BY <2>4, <2>7 DEF Onestep
  <2>15. \A d \in Callers : IsWon(call'[d]) => IsWon(call[d])
    BY <2>4, <2>7 DEF Onestep
  <2>16. now' >= now
    BY <1>2, <2>4
  <2>17. CASE Clean'
    BY <1>7, <2>5, <2>13, <2>14, <2>15, <2>16, <2>17
  <2>18. CASE ~ Clean'
    BY <2>18 DEF WindowCounts
  <2> QED BY <2>17, <2>18
<1>12. ASSUME NEW c \in Callers, Adds(c)
       PROVE  /\ WindowCounts'
              /\ call'[c].answer = "allowed" /\ Clean' =>
                   Quota(Cardinality(WonSince(now - Span + 1)) + 1)
  <2>1. PICK p \in Calls : p = call[c] /\ FineCall(p)
    BY DEF Base
  <2>2. PICK q \in Calls : q = call'[c]
    BY <1>1 DEF Base
  <2>3. PICK s : s = StepOf(row, p)
    OBVIOUS
  <2>4. /\ Onestep(c) /\ p.op = "incr" /\ p.leg # "end" /\ p.answer = "none" /\ now' = now
        /\ row' = s.row /\ q.answer \in {s.answer, "failed"} /\ ~ q.gone
        /\ s.leg = "end" /\ s.answer \in {"allowed", "blocked"}
        /\ q.answer # "failed" => q.at = now /\ q.filed = row'.at
        /\ (BoundaryRace(c) => "boundaryRace" \in leaks')
    BY <1>12, <2>1, <2>2, <2>3 DEF Adds, FiledUnder, Exact, Weighted, Windowed
  <2>5. PICK b \in Nat : /\ b = Bound(p.t) /\ Bound(b) = b /\ b <= p.t /\ p.t < b + Window
                         /\ p.t <= now /\ now <= p.t + MaxLag /\ p.t \in Nat
    BY <2>1, <2>4, BoundFacts DEF FineCall, Calls
  <2>6. /\ Exists(row') /\ row'.at = b
        /\ \/ Exists(row) /\ row.at = b /\ row'.count = row.count + 1 /\ row'.prev = row.prev
           \/ /\ Exists(row) /\ row.at = b - Window /\ row'.count = 1 /\ row'.prev = row.count
           \/ /\ ~ Exists(row) \/ row.at < b
              /\ p.leg = "restart" /\ row'.count = 1 /\ row'.prev = 0
        /\ s.answer = "allowed" =>
             IF Weighted
             THEN row'.prev * Dynamo!Weight(p.t, b) + row'.count * Window <= Limit * Window
             ELSE row'.count <= Limit
    BY <1>2, <2>1, <2>3, <2>4, <2>5, SlotStep
  <2>8. ~ IsHit(p) /\ ~ IsWon(p) /\ (IsHit(q) <=> q.answer # "failed")
        /\ (IsWon(q) <=> q.answer = "allowed") /\ (IsWon(q) => s.answer = "allowed")
    BY <2>4 DEF IsHit, IsWon
  <2>10. IsHit(q) => q.at = now /\ q.filed = b
    BY <2>4, <2>6, <2>8
  <2>11. SUFFICES ASSUME Clean'
                  PROVE  /\ Slots(row)' /\ Reached(row)'
                         /\ \A d \in Callers : IsHit(call[d])' => Placed(call[d])'
                         /\ \A f \in Int : Cardinality(WonIn(f))' <= Limit
                         /\ q.answer = "allowed" =>
                              Quota(Cardinality(WonSince(now - Span + 1)) + 1)
    BY <2>2 DEF WindowCounts
  <2>12. /\ Slots(row) /\ Reached(row)
         /\ \A d \in Callers : IsHit(call[d]) => Placed(call[d])
         /\ \A f \in Int : Cardinality(WonIn(f)) <= Limit
    BY <1>3, <1>4, <2>11
  <2>13. \A f : /\ Cardinality(HitsIn(f)') = Cardinality(HitsIn(f))
                                            + (IF IsHit(q) /\ q.filed = f THEN 1 ELSE 0)
                /\ Cardinality(WonIn(f)') = Cardinality(WonIn(f))
                                            + (IF IsWon(q) /\ q.filed = f THEN 1 ELSE 0)
    <3>1. ASSUME NEW f
          PROVE /\ Cardinality(HitsIn(f)') + (IF IsHit(p) /\ p.filed = f THEN 1 ELSE 0)
                   = Cardinality(HitsIn(f)) + (IF IsHit(q) /\ q.filed = f THEN 1 ELSE 0)
                /\ Cardinality(WonIn(f)') + (IF IsWon(p) /\ p.filed = f THEN 1 ELSE 0)
                   = Cardinality(WonIn(f)) + (IF IsWon(q) /\ q.filed = f THEN 1 ELSE 0)
      BY <1>1, <2>1, <2>2, <2>4, HitsMove
    <3> QED BY <1>6, <2>8, <3>1
  <2>14. ASSUME NEW d \in Callers, IsHit(call[d])
         PROVE  /\ Exists(row) => call[d].filed <= row.at
                /\ ~ Exists(row) => call[d].filed < b - Window
                /\ call[d].filed <= b
    <3>1. /\ Exists(row) => call[d].filed <= row.at
          /\ ~ Exists(row) => call[d].filed + 3 * Window <= now
      BY <2>12, <2>14 DEF Reached
    <3> QED BY <1>2, <1>5, <2>5, <2>6, <3>1
\* The hits of the new row's window and of the one before.
  <2>15. PICK g \in Int : g = b - Window
    BY <1>2
  <2>16. ASSUME NEW x, \A d \in Callers : ~(IsHit(call[d]) /\ call[d].filed = x)
         PROVE  Cardinality(HitsIn(x)) = 0
    <3>1. HitsIn(x) = {}
      BY <2>16 DEF HitsIn
    <3> QED BY <3>1, FS_EmptySet
  <2>17. Cardinality(HitsIn(b)) + 1 <= row'.count /\ (Weighted => Cardinality(HitsIn(g)) <= row'.prev)
    <3>1. PICK i, k \in Nat : i = Cardinality(HitsIn(b)) /\ k = Cardinality(HitsIn(g))
      BY <1>6
    <3>2. CASE Exists(row) /\ row.at = b /\ row'.count = row.count + 1 /\ row'.prev = row.prev
      <4>1. i <= row.count /\ (Weighted => k <= row.prev)
        BY <2>12, <2>15, <3>1, <3>2 DEF Slots
      <4> QED BY <1>2, <3>1, <3>2, <4>1
    <3>3. CASE Exists(row) /\ row.at = b - Window /\ row'.count = 1 /\ row'.prev = row.count
      <4>1. k <= row.count
        BY <2>12, <2>15, <3>1, <3>3 DEF Slots
      <4>2. \A d \in Callers : ~(IsHit(call[d]) /\ call[d].filed = b)
        BY <1>2, <1>5, <2>5, <2>14, <3>3
      <4>3. i = 0
        BY <2>16, <3>1, <4>2
      <4> QED BY <3>1, <3>3, <4>1, <4>3
    <3>4. CASE /\ ~ Exists(row) \/ row.at < b
               /\ p.leg = "restart" /\ row'.count = 1 /\ row'.prev = 0
      <4>1. \A d \in Callers : ~(IsHit(call[d]) /\ call[d].filed = b)
        BY <1>2, <1>5, <2>5, <2>14, <3>4
      <4>2. i = 0
        BY <2>16, <3>1, <4>1
      <4>3. ASSUME Weighted PROVE \A d \in Callers : ~(IsHit(call[d]) /\ call[d].filed = g)
        <5>1. Exists(row) => row.at # b - Window
          BY <2>1, <2>4, <2>5, <2>11, <3>4, <4>3 DEF BoundaryRace, Clean, Bound
        <5>2. Exists(row) => row.at + Window <= b
          BY <1>2, <2>5, <3>4, Starts
        <5>3. Exists(row) => row.at < g
          BY <1>2, <2>15, <5>1, <5>2
        <5> QED BY <1>2, <1>5, <2>14, <2>15, <5>3
      <4>4. Weighted => k = 0
        BY <2>16, <3>1, <4>3
      <4> QED BY <3>1, <3>4, <4>2, <4>4
    <3> QED BY <2>6, <3>2, <3>3, <3>4
  <2>18. Cardinality(HitsIn(b)') <= row'.count /\ (Weighted => Cardinality(HitsIn(g)') <= row'.prev)
    <3>1. PICK i, k \in Nat : i = Cardinality(HitsIn(b)) /\ k = Cardinality(HitsIn(g))
      BY <1>6
    <3>2. PICK ii, kk \in Nat : ii = Cardinality(HitsIn(b)') /\ kk = Cardinality(HitsIn(g)')
      BY <1>6
    <3>3. ii <= i + 1
      BY <2>13, <3>1, <3>2
    <3>4. ~(IsHit(q) /\ q.filed = g)
      BY <1>2, <2>10, <2>15
    <3>5. kk = k
      BY <2>13, <3>1, <3>2, <3>4
    <3> QED BY <1>2, <2>17, <3>1, <3>2, <3>3, <3>5
  <2>19. Slots(row)'
    BY <1>3, <2>6, <2>15, <2>18 DEF Slots
  <2>20. Span' = Span /\ now' = now
    BY <1>3, <2>4
  <2>21. \A d \in Callers : d # c => call'[d] = call[d]
    BY <2>4 DEF Onestep
  <2>22. \A d \in Callers : IsHit(call'[d]) => call'[d].filed <= b
    BY <2>2, <2>5, <2>10, <2>14, <2>21
  <2>23. Reached(row)'
    BY <2>6, <2>22 DEF Reached
  <2>24. \A d \in Callers : IsHit(call'[d]) => Placed(call'[d])
    <3>1. IsHit(q) => Placed(q)
      BY <1>2, <2>5, <2>10 DEF Placed
    <3> QED BY <2>2, <2>12, <2>21, <3>1
  <2>25. \A d \in Callers : IsHit(call[d])' => Placed(call[d])'
    BY <2>24 DEF Placed, Bound
\* An admission leaves room.
  <2>26. ASSUME IsWon(q)
         PROVE  /\ Cardinality(WonIn(b)') <= Limit
                /\ Weighted => \A w \in Nat : w = Dynamo!Weight(p.t, b) => 
                      /\ w <= Window
                      /\ row'.prev * w + row'.count * Window <= Limit * Window
    <3>1. PICK i, k \in Nat : i = Cardinality(WonIn(b)') /\ k = Cardinality(HitsIn(b)')
      BY <1>6
    <3>2. i <= k /\ k <= row'.count
      BY <1>6, <2>18, <3>1
    <3>3. CASE ~ Weighted
      <4>1. row'.count <= Limit
        BY <2>6, <2>8, <2>26, <3>3
      <4> QED BY <1>2, <3>1, <3>2, <3>3, <4>1
    <3>4. CASE Weighted
      <4>1. b \in Int
        BY <2>5
      <4>2. PICK w \in Nat : w = Dynamo!Weight(p.t, b) /\ w <= Window
        BY <2>5, <4>1, WeightFacts
      <4>3. row'.prev * w + row'.count * Window <= Limit * Window
        BY <2>6, <2>8, <2>26, <3>4, <4>2
      <4>4. PICK a \in Nat : a = 0
        OBVIOUS
      <4>5. row'.prev >= 0
        <5>1. PICK m \in Nat : m = Cardinality(HitsIn(g)')
          BY <1>6
        <5> QED BY <1>2, <2>18, <3>4, <5>1
      <4>6. i <= Limit
        BY <1>2, <3>2, <4>2, <4>3, <4>4, <4>5, WeighedRoom
      <4> QED BY <3>1, <4>2, <4>3, <4>6
    <3> QED BY <3>3, <3>4
  <2>27. \A f \in Int : Cardinality(WonIn(f)') <= Limit
    <3>1. ASSUME NEW f \in Int PROVE Cardinality(WonIn(f)') <= Limit
      <4>1. CASE ~(IsWon(q) /\ f = b)
        <5>1. ~(IsWon(q) /\ q.filed = f)
          BY <2>8, <2>10, <4>1
        <5>2. Cardinality(WonIn(f)') = Cardinality(WonIn(f))
          BY <1>6, <2>13, <5>1
        <5> QED BY <2>12, <5>2
      <4>2. CASE IsWon(q) /\ f = b
        BY <2>26, <4>2
      <4> QED BY <4>1, <4>2
    <3> QED BY <3>1
  <2>28. ASSUME q.answer = "allowed"
         PROVE  Quota(Cardinality(WonSince(now - Span + 1)) + 1)
    <3>1. PICK W : W = WonSince(now - Span + 1)'
      OBVIOUS
    <3>2. /\ IsFiniteSet(W)
          /\ \A d \in Callers : d \in W <=> IsWon(call'[d]) /\ call'[d].at >= now - Span + 1
          /\ W \subseteq Callers
      <4>1. W = {d \in Callers : IsWon(call'[d]) /\ call'[d].at >= now - Span + 1}
        BY <2>20, <3>1 DEF WonSince
      <4> QED BY <4>1, Constants, FS_Subset
    <3>3. Cardinality(W) = Cardinality(WonSince(now - Span + 1)) + 1 /\ Cardinality(W) \in Nat
      <4>1. PICK y \in Int : y = now - Span + 1
        BY <1>2
      <4>2. IsWon(q) /\ q.at >= y
        BY <1>2, <2>8, <2>10, <2>28, <4>1, <2>4
      <4>3. WonSince(y)' = W
        BY <2>20, <3>1, <4>1
      <4>4. Cardinality(WonSince(y)') + (IF IsWon(p) /\ p.at >= y THEN 1 ELSE 0)
            = Cardinality(WonSince(y)) + (IF IsWon(q) /\ q.at >= y THEN 1 ELSE 0)
        BY <1>1, <2>1, <2>2, <2>4, HitsMove
      <4>5. Cardinality(W) \in Nat /\ Cardinality(WonSince(y)) \in Nat
        BY <3>2, HitsType, FS_CardinalityType
      <4> QED BY <2>8, <4>1, <4>2, <4>3, <4>4, <4>5
    <3>4. ASSUME NEW d \in W
          PROVE  /\ call'[d].filed \in {b, g}
                 /\ call'[d].filed = g => now <= b + Window - 2
      <4>1. PICK f \in Nat : f = call'[d].filed /\ Bound(f) = f /\ call'[d].at < f + Window + MaxLag
                             /\ f <= b /\ call'[d].at >= now - Span + 1
        BY <2>22, <2>24, <3>2 DEF Placed, IsHit, IsWon
      <4>2. now <= f + 2 * Window - 2
        BY <1>2, <1>5, <3>2, <4>1
      <4>3. f = b \/ f + Window <= b
        BY <2>5, <4>1, Starts
      <4>4. ASSUME f + Window < b PROVE FALSE
        <5>1. f + Window \in Nat /\ Bound(f + Window) = f + Window
          BY <1>2, <4>1, Starts
        <5>2. PICK h \in Nat : h = f + Window /\ Bound(h) = h /\ h < Bound(p.t)
          BY <2>5, <4>4, <5>1
        <5>3. h + Window <= Bound(p.t)
          BY <2>5, <5>2, Starts
        <5> QED BY <1>2, <2>5, <4>1, <4>2, <5>2, <5>3
      <4>5. f = b \/ f = g
        BY <1>2, <2>15, <4>1, <4>3, <4>4
      <4> QED BY <1>2, <2>15, <4>1, <4>2, <4>5
    <3>5. PICK A, B : A = {d \in W : call'[d].filed = b} /\ B = {d \in W : call'[d].filed = g}
      OBVIOUS
    <3>6. W = A \cup B /\ A \subseteq WonIn(b)' /\ B \subseteq WonIn(g)'
      BY <3>2, <3>4, <3>5 DEF WonIn
    <3>7. PICK i, k, n \in Nat : i = Cardinality(B) /\ k = Cardinality(A) /\ n = Cardinality(W)
      <4>1. IsFiniteSet(A) /\ IsFiniteSet(B)
        BY <3>2, <3>5, FS_Subset
      <4> QED BY <3>3, <4>1, FS_CardinalityType
    <3>8. n <= i + k
      <4>1. IsFiniteSet(A) /\ IsFiniteSet(B) /\ IsFiniteSet(A \cap B)
        BY <3>2, <3>5, FS_Subset, FS_Intersection
      <4>2. Cardinality(A \cup B) = Cardinality(A) + Cardinality(B) - Cardinality(A \cap B)
        BY <4>1, FS_Union
      <4>3. Cardinality(A \cap B) \in Nat
        BY <4>1, FS_CardinalityType
      <4> QED BY <3>6, <3>7, <4>2, <4>3
    <3>9. PICK wb, wg, hb, hg \in Nat : /\ wb = Cardinality(WonIn(b)') /\ wg = Cardinality(WonIn(g)')
                                        /\ hb = Cardinality(HitsIn(b)') /\ hg = Cardinality(HitsIn(g)')
      BY <1>6
    <3>10. k <= wb /\ i <= wg /\ wb <= hb /\ wg <= hg /\ wb <= Limit /\ wg <= Limit
      <4>1. k <= wb
        BY <1>6, <3>6, <3>7, <3>9, FS_Subset
      <4>2. i <= wg
        BY <1>6, <3>6, <3>7, <3>9, FS_Subset
      <4>3. wb <= hb /\ wg <= hg
        BY <1>6, <3>9
      <4>4. wb <= Limit /\ wg <= Limit
        BY <2>5, <2>15, <2>27, <3>9
      <4> QED BY <4>1, <4>2, <4>3, <4>4
    <3>11. CASE ~ Weighted
      <4>1. n <= 2 * Limit
        BY <1>2, <3>7, <3>8, <3>9, <3>10
      <4>2. strategy = "FIXED_WINDOW"
        BY <1>2, <3>11 DEF Windowed, Weighted, Setting, Strategies
      <4>3. Quota(n)
        BY <1>2, <3>7, <4>1, <4>2, Constants DEF Quota, Weighted
      <4> QED BY <3>3, <3>7, <4>3
    <3>12. CASE Weighted
      <4>1. b \in Int /\ IsWon(q)
        BY <2>5, <2>8, <2>28
      <4>2. PICK w \in Nat : w = Dynamo!Weight(p.t, b) /\ w <= Window /\ w = Window - (p.t - b)
        BY <2>5, <4>1, WeightFacts
      <4>3. row'.prev * w + row'.count * Window <= Limit * Window
        BY <2>26, <3>12, <4>1, <4>2
      <4>4. i <= row'.prev /\ k <= row'.count /\ i <= Limit /\ k <= Limit
        BY <1>2, <2>18, <3>7, <3>9, <3>10, <3>12
      <4>5. i > 0 => w >= 2
        <5>1. SUFFICES ASSUME i > 0 PROVE w >= 2
          OBVIOUS
        <5>2. B # {}
          BY <3>7, <5>1, FS_EmptySet
        <5>3. PICK d \in W : call'[d].filed = g
          BY <3>5, <5>2
        <5> QED BY <1>2, <2>5, <3>4, <4>2, <5>3
      <4>6. /\ i > 0 => (i + k) * Window <= Limit * Greatest(Window, 2 * Window - 2)
            /\ i = 0 => k * Window <= Limit * Greatest(Window, 2 * Window - 2)
        BY <1>2, <3>7, <4>2, <4>3, <4>4, <4>5, WeighedRoom
      <4>7. PICK m \in Nat : m = i + k
        BY <3>7
      <4>8. m * Window <= Limit * Greatest(Window, 2 * Window - 2)
        <5>1. i = 0 => m = k
          BY <3>7, <4>7
        <5> QED BY <3>7, <4>6, <4>7, <5>1
      <4>9. Quota(m)
        BY <3>12, <4>8 DEF Quota, Weighted
      <4>10. Quota(n)
        BY <1>2, <3>7, <3>8, <4>7, <4>9, QuotaLess
      <4> QED BY <3>3, <3>7, <4>10
    <3> QED BY <3>11, <3>12
  <2> QED BY <2>19, <2>23, <2>25, <2>27, <2>28
<1> QED BY <1>1, <1>8, <1>9, <1>10, <1>11, <1>12

-----------------------------------------------------------------------------
(* Admission to a bucket                                                   *)

\* The transaction that has read a row of Postgres holds its lock until it writes it.
LockedRow ==
    backend = "postgres" /\ strategy = "TOKEN_BUCKET" =>
      \A c \in Callers : call[c].op = "incr" /\ call[c].leg = "upsert" /\ Exists(call[c].seen) =>
          lock = c /\ row = call[c].seen

LEMMA LockedInit == Init => LockedRow
BY DEF Init, Idle, LockedRow

LEMMA LockedKeeps == ASSUME Base, LockedRow, [Next]_vars PROVE LockedRow'
<1>1. /\ backend' = backend /\ strategy' = strategy /\ Base'
      /\ \/ UNCHANGED vars
         \/ \E c \in Callers : /\ Onestep(c)
                               /\ \/ Begins(c, "incr") \/ Begins(c, "undo")
                                  \/ Stepped(c) \/ Snapped(c) \/ Returned(c) \/ Failed(c)
         \/ Wiped
         \/ Expired
         \/ Ticked
  BY Changes
<1>2. SUFFICES ASSUME backend = "postgres", strategy = "TOKEN_BUCKET", NEW d \in Callers,
                      call'[d].op = "incr", call'[d].leg = "upsert", Exists(call'[d].seen)
               PROVE  lock' = d /\ row' = call'[d].seen
  BY <1>1 DEF LockedRow, Exists
<1>3. call[d].op = "incr" /\ call[d].leg = "upsert" /\ Exists(call[d].seen) =>
        lock = d /\ row = call[d].seen
  BY <1>2 DEF LockedRow
<1>4. NoCaller # d
  BY Constants
<1>5. CASE UNCHANGED vars \/ Ticked
  BY <1>2, <1>3, <1>5 DEF vars, Ticked
<1>6. CASE Wiped
  <2>1. call'[d].op = call[d].op /\ call'[d].leg = call[d].leg /\ call'[d].seen = call[d].seen
    BY <1>2, <1>6, MarkedFields, UndoneGone DEF Wiped, Base, Drops
  <2> QED BY <1>2, <1>3, <1>4, <1>6, <2>1 DEF Wiped
<1>7. CASE Expired
  BY <1>2, <1>3, <1>4, <1>7, UndoneGone DEF Expired, Drops
<1>8. ASSUME NEW c \in Callers, Onestep(c), Begins(c, "incr") \/ Begins(c, "undo")
      PROVE  lock' = d /\ row' = call'[d].seen
  <2>1. d # c
    BY <1>2, <1>8 DEF Begins
  <2> QED BY <1>2, <1>3, <1>8, <2>1 DEF Begins, Onestep
<1>12. ASSUME NEW c \in Callers, Onestep(c), Snapped(c)
       PROVE  lock' = d /\ row' = call'[d].seen
  <2>1. d # c
    BY <1>2, <1>12 DEF Snapped
  <2> QED BY <1>2, <1>3, <1>12, <2>1 DEF Snapped, Onestep
<1>9. ASSUME NEW c \in Callers, Onestep(c), Unlocked(c), d # c
      PROVE  FALSE
  BY <1>2, <1>3, <1>4, <1>9 DEF Onestep, Unlocked
<1>10. ASSUME NEW c \in Callers, Onestep(c), Returned(c) \/ Failed(c)
       PROVE  FALSE
  <2>1. d # c
    BY <1>2, <1>10 DEF Returned, Failed
  <2> QED BY <1>9, <1>10, <2>1 DEF Returned, Failed
<1>11. ASSUME NEW c \in Callers, Onestep(c), Stepped(c)
       PROVE  lock' = d /\ row' = call'[d].seen
  <2>1. d = c
    BY <1>9, <1>11 DEF Stepped
  <2>2. PICK p \in Calls : p = call[d] /\ FineCall(p)
    BY DEF Base
  <2>3. PICK s : s = StepOf(row, p)
    OBVIOUS
  <2>4. /\ p.op = "incr" /\ p.leg # "end" /\ call'[d].leg = s.leg /\ call'[d].seen = s.seen
        /\ row' = s.row /\ lock' = LockAfter(d, s)
    BY <1>11, <2>1, <2>2, <2>3 DEF Stepped
  <2>5. p.leg \in {"start", "upsert"}
    BY <1>2, <2>2, <2>4 DEF FineCall, LegsOf
  <2>6. Sane(row)
    BY DEF Base, Fine
  <2>7. CASE p.leg = "start"
    <3>1. s = Yield(row, "upsert", row, "none")
      BY <1>2, <2>2, <2>3, <2>5, <2>6, <2>7, PgBucket
    <3>2. s.leg = "upsert" /\ s.seen = row /\ s.row = row
      BY <3>1, StepFields
    <3> QED BY <1>2, <2>4, <3>2 DEF LockAfter
  <2>8. CASE p.leg = "upsert"
    <3>1. PICK b : b = Filled(p.seen, p.t)
      OBVIOUS
    <3>2. s = TakesFrom(b, b.last + Interval)
      BY <1>2, <2>2, <2>3, <2>5, <2>6, <2>8, <3>1, PgBucket
    <3>3. s.leg = "end"
      BY <3>2, StepFields DEF TakesFrom
    <3> QED BY <1>2, <2>4, <3>3
  <2> QED BY <2>5, <2>7, <2>8
<1> QED BY <1>1, <1>5, <1>6, <1>7, <1>8, <1>10, <1>11, <1>12

\* The bucket that an increment at time t finds in a row, with its refill.
Finds(v, t, n, l) ==
    /\ Exists(v) => \/ n = Refill(v.count, v.at, t).tokens /\ l = Refill(v.count, v.at, t).last
                    \/ backend = "mongo" /\ n = Rewound(v, t).tokens /\ l = Rewound(v, t).last
    /\ ~ Exists(v) => n = BucketSize /\ l = t
    /\ t < l + Interval

\* The token it takes, if there is one.
LEMMA BucketAdds ==
    ASSUME Base, LockedRow, strategy = "TOKEN_BUCKET", NEW c \in Callers, Adds(c), Clean',
           row'.at <= now
    PROVE  LET p == call[c]  a == StepOf(row, p).answer IN
           \E n \in Int, l \in Int :
             /\ Finds(Seen(row), p.t, n, l)
             /\ Exists(row') /\ row'.at = l /\ row'.exp >= l + Interval
             /\ backend = "redis" => row'.exp >= now + Interval
             /\ a = "allowed" => n >= 1 /\ row'.count = n - 1
             /\ a = "blocked" => row'.count = n
<1>1. PICK p \in Calls : p = call[c] /\ FineCall(p)
  BY DEF Base
<1>2. PICK s : s = StepOf(row, p)
  OBVIOUS
<1>3. /\ p.op = "incr" /\ p.leg # "end" /\ row' = s.row /\ s.leg = "end"
      /\ s.answer \in {"allowed", "blocked"}
      /\ (InsertRace(c) => "insertRace" \in leaks')
  BY <1>1, <1>2 DEF Adds
<1>4. /\ p.t \in Nat /\ p.t <= now /\ now <= p.t + MaxLag /\ now \in Nat /\ Sane(row) /\ row \in Rows
      /\ Interval \in Nat /\ Interval > 0 /\ MaxLag \in Nat /\ MaxLag < Interval
      /\ p.seen \in Rows /\ Sane(p.seen) /\ Setting
  BY <1>1, <1>3, FineExists, Constants DEF Base, FineCall, Calls, Setting
\* What is taken from a bucket.
<1>5. ASSUME NEW b, b.tokens \in Int, b.last \in Int, NEW e \in Int, s = TakesFrom(b, e),
             e >= b.last + Interval, e >= 0, backend = "redis" => e >= now + Interval,
             Finds(Seen(row), p.t, b.tokens, b.last)
      PROVE  \E n \in Int, l \in Int :
               /\ Finds(Seen(row), p.t, n, l)
               /\ Exists(row') /\ row'.at = l /\ row'.exp >= l + Interval
               /\ backend = "redis" => row'.exp >= now + Interval
               /\ s.answer = "allowed" => n >= 1 /\ row'.count = n - 1
               /\ s.answer = "blocked" => row'.count = n
  <2>1. PICK m \in Int : m = IF b.tokens >= 1 THEN b.tokens - 1 ELSE b.tokens
    BY <1>5
  <2>2. /\ s.row = BucketRow(m, b.last, e)
        /\ b.tokens >= 1 => s.answer = "allowed"
        /\ b.tokens < 1 => s.answer = "blocked"
    BY <1>5, <2>1, TakesFields
  <2>3. row'.count = m /\ row'.at = b.last /\ row'.exp = e
    BY <1>3, <2>2, BucketFields
  <2>4. /\ Exists(row') /\ row'.exp >= b.last + Interval
        /\ backend = "redis" => row'.exp >= now + Interval
        /\ s.answer = "allowed" => b.tokens >= 1 /\ row'.count = b.tokens - 1
        /\ s.answer = "blocked" => row'.count = b.tokens
    BY <1>5, <2>1, <2>2, <2>3 DEF Exists
  <2> QED BY <1>5, <2>3, <2>4
<1>6. ASSUME NEW r \in Rows
      PROVE  LET b == Filled(r, p.t) IN
             /\ b.tokens \in Int /\ b.last \in Int /\ p.t < b.last + Interval
             /\ r = Seen(row) => Finds(Seen(row), p.t, b.tokens, b.last)
  <2>1. PICK b : b = Filled(r, p.t)
    OBVIOUS
  <2>2. /\ b.tokens \in Int /\ b.last \in Int /\ p.t < b.last + Interval
        /\ ~ Exists(r) => b.tokens = BucketSize /\ b.last = p.t
    BY <1>4, <2>1, FilledFacts
  <2>3. Exists(r) => b = Refill(r.count, r.at, p.t)
    BY <2>1 DEF Filled
  <2> QED BY <2>1, <2>2, <2>3 DEF Finds
<1>8. CASE backend = "redis"
  <2>1. PICK v \in Rows : v = Unexpired(row)
    BY <1>4, NoRowFields DEF Unexpired
  <2>2. v = Seen(row)
    BY <1>8, <2>1 DEF Seen
  <2>3. PICK b : b = Filled(v, p.t)
    OBVIOUS
  <2>4. PICK e \in Int : e = now + 10 * Interval
    BY <1>4
  <2>5. s = TakesFrom(b, e)
    BY <1>1, <1>2, <1>4, <1>8, <2>1, <2>3, <2>4, RedisBucket
  <2>6. b.tokens \in Int /\ b.last \in Int /\ Finds(Seen(row), p.t, b.tokens, b.last)
    BY <1>6, <2>2, <2>3
  <2>7. s.row.at = b.last
    <3>1. \E m : s.row = BucketRow(m, b.last, e)
      BY <2>4, <2>5, <2>6, TakesFields
    <3> QED BY <3>1, BucketFields
  <2>8. e >= b.last + Interval /\ e >= now + Interval /\ e >= 0
    BY <1>3, <1>4, <2>4, <2>6, <2>7
  <2> QED BY <1>1, <1>2, <1>5, <2>5, <2>6, <2>8
<1>9. CASE backend = "postgres"
  <2>1. Seen(row) = row /\ p.leg \in {"start", "upsert"}
    BY <1>1, <1>3, <1>9 DEF Seen, FineCall, LegsOf
  <2>2. PICK b : b = Filled(p.seen, p.t)
    OBVIOUS
  <2>3. PICK e : e = b.last + Interval
    OBVIOUS
  <2>4. p.leg = "upsert" /\ s = TakesFrom(b, e)
    <3>1. CASE p.leg = "start"
      <4>1. s = Yield(row, "upsert", row, "none")
        BY <1>1, <1>2, <1>4, <1>9, <3>1, PgBucket
      <4> QED BY <1>3, <4>1, StepFields
    <3>2. CASE p.leg = "upsert"
      BY <1>1, <1>2, <1>4, <1>9, <2>2, <2>3, <3>2, PgBucket
    <3> QED BY <2>1, <3>1, <3>2
  <2>5. p.seen = row
    <3>1. CASE Exists(p.seen)
      BY <1>1, <1>3, <1>9, <2>4, <3>1 DEF LockedRow
    <3>2. CASE ~ Exists(p.seen)
      <4>1. ~ Exists(row)
        BY <1>1, <1>3, <1>9, <2>4, <3>2 DEF InsertRace, Clean
      <4> QED BY <1>4, <3>2, <4>1 DEF Sane
    <3> QED BY <3>1, <3>2
  <2>6. b.tokens \in Int /\ b.last \in Int /\ p.t < b.last + Interval
        /\ Finds(Seen(row), p.t, b.tokens, b.last)
    BY <1>4, <1>6, <2>1, <2>2, <2>5
  <2>7. e \in Int /\ e >= b.last + Interval /\ e >= 0 /\ backend # "redis"
    BY <1>4, <1>9, <2>3, <2>6
  <2> QED BY <1>1, <1>2, <1>5, <2>4, <2>6, <2>7
<1>10. CASE backend = "mongo"
  <2>1. Seen(row) = row
    BY <1>10 DEF Seen
  <2>2. PICK b : b = IF Exists(row) THEN Rewound(row, p.t) ELSE Filled(row, p.t)
    OBVIOUS
  <2>3. PICK e : e = b.last + Interval
    OBVIOUS
  <2>4. s = TakesFrom(b, e)
    BY <1>1, <1>2, <1>4, <1>10, <2>2, <2>3, MongoBucket
  <2>5. b.tokens \in Int /\ b.last \in Int /\ p.t < b.last + Interval
        /\ Finds(Seen(row), p.t, b.tokens, b.last)
    <3>1. CASE Exists(row)
      BY <1>4, <1>10, <2>1, <2>2, <3>1, RewoundFacts DEF Finds
    <3>2. CASE ~ Exists(row)
      BY <1>4, <1>6, <2>1, <2>2, <3>2
    <3> QED BY <3>1, <3>2
  <2>6. e \in Int /\ e >= b.last + Interval /\ e >= 0 /\ backend # "redis"
    BY <1>4, <1>10, <2>3, <2>5
  <2> QED BY <1>1, <1>2, <1>5, <2>4, <2>5, <2>6
<1>11. CASE backend = "dynamo"
  <2>1. Seen(row) = row /\ p.leg \in {"start", "write"}
    BY <1>1, <1>3, <1>11 DEF Seen, FineCall, LegsOf
  <2>2. PICK b : b = Filled(p.seen, p.t)
    OBVIOUS
  <2>3. PICK e \in Int : e = p.t + 3 * Interval
    BY <1>4
  <2>4. s = TakesFrom(b, e) /\ Unchanged(row, p.seen)
    <3>1. CASE p.leg = "start"
      <4>1. s = Yield(row, "write", row, "none")
        BY <1>1, <1>2, <1>4, <1>11, <3>1, DynamoBucket
      <4> QED BY <1>3, <4>1, StepFields
    <3>2. CASE p.leg = "write"
      <4>1. s = IF Unchanged(row, p.seen) THEN TakesFrom(b, e) ELSE Again(row, p)
        BY <1>1, <1>2, <1>4, <1>11, <2>2, <2>3, <3>2, DynamoBucket
      <4>2. Again(row, p).leg = "start" \/ Again(row, p).answer = "threw"
        BY StepFields DEF Again
      <4> QED BY <1>3, <4>1, <4>2
    <3> QED BY <2>1, <3>1, <3>2
  <2>5. b.tokens \in Int /\ b.last \in Int /\ p.t < b.last + Interval
        /\ Finds(Seen(row), p.t, b.tokens, b.last)
    <3>1. PICK z : z = Filled(row, p.t)
      OBVIOUS
    <3>2. b = z
      BY <2>2, <2>4, <3>1 DEF Unchanged, Filled
    <3> QED BY <1>4, <1>6, <2>1, <3>1, <3>2
  <2>6. s.row.at = b.last
    <3>1. \E m : s.row = BucketRow(m, b.last, e)
      BY <2>3, <2>4, <2>5, TakesFields
    <3> QED BY <3>1, BucketFields
  <2>7. e >= b.last + Interval /\ e >= 0 /\ backend # "redis"
    BY <1>3, <1>4, <1>11, <2>3, <2>5, <2>6
  <2> QED BY <1>1, <1>2, <1>5, <2>4, <2>5, <2>7
<1> QED BY <1>4, <1>8, <1>9, <1>10, <1>11 DEF Setting

\* Room in a bucket of n tokens, last refilled at l, as the tokens taken since y go: the
\* bucket, or with the refill that came since, the bucket and a refill.
Room(n, l, y) ==
    LET w == Cardinality(WonSince(y)) IN
    n + w <= BucketSize \/ (l >= y - MaxLag /\ n + w <= BucketSize + TokensPerInterval)
Fits(n, l) ==
    /\ n <= BucketSize
    /\ \A y \in Int : now - Span < y /\ y <= now => Room(n, l, y)
    /\ \A d \in Callers : IsWon(call[d]) => call[d].at < l + Interval + MaxLag

\* While no clock is behind, the tokens taken since the last refill are in the bucket's
\* size with those that are left, and hits are filed in the order they came.
Tidy(r) ==
    /\ Exists(r) => /\ r.count + Cardinality(WonIn(r.at)) <= BucketSize
                    /\ \A d \in Callers : IsWon(call[d]) =>
                          call[d].filed <= r.at /\ call[d].filed + Interval <= r.exp
    /\ ~ Exists(r) => \A d \in Callers : IsWon(call[d]) => call[d].filed + Interval <= now
InTurn == \A d, e \in Callers : IsWon(call[d]) /\ IsWon(call[e]) /\ call[d].at < call[e].at =>
              call[d].filed <= call[e].filed

\* A bucket that is gone was full, or would be with a refill.
Holds(r) ==
    /\ Exists(r) => Fits(r.count, r.at)
    /\ ~ Exists(r) => \A y \in Int : now - Span < y /\ y <= now =>
                          Cardinality(WonSince(y)) <= TokensPerInterval
    /\ backend = "redis" /\ Exists(r) =>
          \A d \in Callers : IsWon(call[d]) => call[d].at + Interval <= r.exp
    /\ "clockBehind" \notin leaks => Tidy(r)

BucketCounts ==
    strategy = "TOKEN_BUCKET" /\ Clean =>
      /\ Holds(row)
      /\ \A d \in Callers : IsWon(call[d]) => call[d].filed <= call[d].at
      /\ "clockBehind" \notin leaks => InTurn

BucketSetting ==
    /\ Setting /\ strategy = "TOKEN_BUCKET" /\ Base
    /\ now \in Nat /\ Interval \in Nat /\ Interval > 0 /\ MaxLag \in Nat /\ MaxLag < Interval
    /\ Span = Interval - MaxLag /\ BucketSize \in Nat /\ BucketSize > 0
    /\ TokensPerInterval \in Nat /\ TokensPerInterval > 0
    /\ \A d \in Callers : call[d].at \in Nat /\ call[d].at <= now /\ call[d].filed \in Int
LEMMA BucketSettingIs == Base /\ strategy = "TOKEN_BUCKET" => BucketSetting
BY Constants DEF BucketSetting, Base, Setting, Span, FineCall, Calls

\* None has come since a time that none has come at or after.
LEMMA NoneSince ==
    ASSUME NEW y, \A d \in Callers : IsWon(call[d]) => ~(call[d].at >= y)
    PROVE  Cardinality(WonSince(y)) = 0
<1>1. WonSince(y) = {}
  BY DEF WonSince
<1> QED BY <1>1, FS_EmptySet

LEMMA SomeSince ==
    ASSUME Base, NEW y, Cardinality(WonSince(y)) # 0
    PROVE  \E d \in Callers : IsWon(call[d]) /\ call[d].at >= y
BY NoneSince

\* A refill leaves what fits, at a clock that lags by MaxLag at most.
LEMMA RefillFits ==
    ASSUME BucketSetting, NEW n \in Int, NEW l \in Int, Fits(n, l), NEW t \in Nat,
           t <= now, now <= t + MaxLag
    PROVE  LET b == Refill(n, l, t) IN Fits(b.tokens, b.last)
<1> USE DEF BucketSetting
<1>1. PICK b : b = Refill(n, l, t)
  OBVIOUS
<1>2. /\ b.tokens \in Int /\ b.last \in Int /\ t < b.last + Interval
      /\ \/ b.last = l /\ b.tokens = n
         \/ /\ l + Interval <= b.last /\ b.last <= t
            /\ b.tokens = Least(BucketSize, n + ((t - l) \div Interval) * TokensPerInterval)
            /\ (t - l) \div Interval \in Nat /\ (t - l) \div Interval > 0
            /\ b.last = l + ((t - l) \div Interval) * Interval
  BY <1>1, RefillFacts
<1>3. CASE b.last = l /\ b.tokens = n
  BY <1>1, <1>3
<1>4. CASE /\ l + Interval <= b.last /\ b.last <= t
           /\ b.tokens = Least(BucketSize, n + ((t - l) \div Interval) * TokensPerInterval)
           /\ (t - l) \div Interval \in Nat /\ (t - l) \div Interval > 0
           /\ b.last = l + ((t - l) \div Interval) * Interval
  <2>1. PICK k \in Nat : k = (t - l) \div Interval /\ k > 0
    BY <1>4
  <2>2. PICK kt, ki \in Int : kt = k * TokensPerInterval /\ ki = k * Interval
    BY <2>1
  <2>3. b.tokens <= BucketSize /\ b.tokens <= n + kt /\ b.last = l + ki
    BY <1>4, <2>1, <2>2 DEF Least
  <2>4. k = 1 \/ ki >= 2 * Interval
    BY <2>1, <2>2
  <2>5. k = 1 => kt = TokensPerInterval /\ ki = Interval
    BY <2>2
  <2>6. ASSUME NEW y \in Int, now - Span < y, y <= now PROVE Room(b.tokens, b.last, y)
    <3>1. PICK w \in Nat : w = Cardinality(WonSince(y))
      BY HitsType
    <3>2. CASE w = 0
      BY <1>2, <2>3, <3>1, <3>2 DEF Room
    <3>3. CASE w # 0
      <4>1. PICK d \in Callers : IsWon(call[d]) /\ call[d].at >= y
        BY <3>1, <3>3, SomeSince
      <4>2. call[d].at < l + Interval + MaxLag
        BY <4>1 DEF Fits
      <4>3. y < l + Interval + MaxLag
        BY <2>6, <4>1, <4>2
      <4>4. k = 1
        BY <1>2, <1>4, <2>2, <2>3, <2>4, <2>6, <4>3
      <4>5. b.last >= y - MaxLag /\ b.tokens <= n + TokensPerInterval
        BY <1>2, <2>3, <2>5, <4>3, <4>4
      <4>6. Room(n, l, y)
        BY <2>6 DEF Fits
      <4>7. ~(l >= y - MaxLag)
        BY <1>2, <1>4, <2>3, <2>5, <2>6, <4>4
      <4>8. n + w <= BucketSize
        BY <3>1, <4>6, <4>7 DEF Room
      <4>9. b.tokens + w <= BucketSize + TokensPerInterval
        BY <1>2, <3>1, <4>5, <4>8
      <4> QED BY <3>1, <4>5, <4>9 DEF Room
    <3> QED BY <3>2, <3>3
  <2>7. ASSUME NEW d \in Callers, IsWon(call[d]) PROVE call[d].at < b.last + Interval + MaxLag
    BY <1>2
  <2> QED BY <1>1, <2>3, <2>6, <2>7 DEF Fits
<1> QED BY <1>2, <1>3, <1>4

\* MongoDB's bucket at a clock behind its refill gives back what that refill had brought.
LEMMA RewoundFits ==
    ASSUME BucketSetting, NEW v \in Rows, Fits(v.count, v.at), NEW t \in Nat,
           t <= now, now <= t + MaxLag
    PROVE  LET b == Rewound(v, t) IN
           /\ Fits(b.tokens, b.last)
           /\ t >= v.at => \/ b = Refill(v.count, v.at, t)
                           \/ b.last = v.at /\ b.tokens = v.count
<1> USE DEF BucketSetting
<1>1. v.count \in Int /\ v.at \in Int /\ v.count <= BucketSize
  BY DEF Rows, Fits
<1>2. PICK b : b = Rewound(v, t)
  OBVIOUS
<1>3. b.tokens \in Int /\ b.last \in Int /\ t < b.last + Interval /\ b.last <= t
  BY <1>2, RewoundFacts
<1>4. Least(BucketSize, v.count) = v.count
  <2>1. PICK m, z \in Int : m = v.count /\ z = BucketSize /\ m <= z
    BY <1>1
  <2>2. Least(z, m) = m
    BY <2>1 DEF Least
  <2> QED BY <2>1, <2>2
<1>5. CASE t >= v.at
  <2>3. \/ b = Refill(v.count, v.at, t)
        \/ b.last = v.at /\ b.tokens = Least(BucketSize, v.count)
    BY <1>2, <1>5, RewoundFacts
  <2>1. CASE b = Refill(v.count, v.at, t)
    BY <1>1, <1>2, <2>1, RefillFits
  <2>2. CASE b.last = v.at /\ b.tokens = v.count
    BY <1>2, <2>2
  <2> QED BY <1>2, <1>4, <2>1, <2>2, <2>3
<1>6. CASE t < v.at
  <2>1. PICK k \in Int : k = (t - v.at) \div Interval
    BY <1>1, Division
  <2>2. PICK kt, ki \in Int : kt = k * TokensPerInterval /\ ki = k * Interval
    OBVIOUS
  <2>3. b.tokens = Least(BucketSize, v.count + kt) /\ b.last = v.at + ki
    BY <1>2, <2>1, <2>2 DEF Rewound
  <2>4. ki < 0
    BY <1>1, <1>3, <1>6, <2>2, <2>3
  <2>5. k <= -1
    BY <2>2, <2>4
  <2>6. kt <= - TokensPerInterval
    BY <2>2, <2>5
  <2>7. b.tokens <= v.count - TokensPerInterval /\ b.tokens <= BucketSize
    BY <1>1, <1>3, <2>3, <2>6 DEF Least
  <2>8. ASSUME NEW y \in Int, now - Span < y, y <= now PROVE Room(b.tokens, b.last, y)
    <3>1. PICK w \in Nat : w = Cardinality(WonSince(y))
      BY HitsType
    <3>2. Room(v.count, v.at, y)
      BY <2>8 DEF Fits
    <3>3. v.count + w <= BucketSize + TokensPerInterval
      BY <1>1, <3>1, <3>2 DEF Room
    <3> QED BY <1>1, <1>3, <2>7, <3>1, <3>3 DEF Room
  <2>9. ASSUME NEW d \in Callers, IsWon(call[d]) PROVE call[d].at < b.last + Interval + MaxLag
    BY <1>3
  <2> QED BY <1>1, <1>2, <1>6, <2>7, <2>8, <2>9 DEF Fits
<1> QED BY <1>1, <1>5, <1>6

\* No token has been taken since a refill that none is filed under.
LEMMA NoneIn ==
    ASSUME NEW f, \A d \in Callers : IsWon(call[d]) => call[d].filed # f
    PROVE  Cardinality(WonIn(f)) = 0
<1>1. WonIn(f) = {}
  BY DEF WonIn
<1> QED BY <1>1, FS_EmptySet

LEMMA SeenHolds ==
    ASSUME BucketSetting, Holds(row), \A d \in Callers : IsWon(call[d]) => call[d].filed <= call[d].at
    PROVE  Holds(Seen(row))
<1> USE DEF BucketSetting
<1>1. PICK v : v = Seen(row)
  OBVIOUS
<1>2. v = row \/ (v = NoRow /\ Exists(row) /\ row.exp <= now /\ backend = "redis")
  BY <1>1, SeenIs DEF Base
<1>3. CASE v = row
  BY <1>1, <1>3
<1>4. CASE v = NoRow /\ Exists(row) /\ row.exp <= now /\ backend = "redis"
  <2>1. row.exp \in Int
    BY FineExists DEF Base
  <2>2. \A d \in Callers : IsWon(call[d]) => call[d].at + Interval <= now
    BY <1>4, <2>1 DEF Holds
  <2>3. ASSUME NEW y \in Int, now - Span < y, y <= now
        PROVE  Cardinality(WonSince(y)) <= TokensPerInterval
    <3>1. Cardinality(WonSince(y)) = 0
      BY <2>2, <2>3, NoneSince
    <3> QED BY <3>1
  <2>4. \A d \in Callers : IsWon(call[d]) => call[d].filed + Interval <= now
    BY <2>2
  <2>5. ~ Exists(v)
    BY <1>4, NoRowFields
  <2> QED BY <1>1, <2>3, <2>4, <2>5 DEF Holds, Tidy
<1> QED BY <1>2, <1>3, <1>4

LEMMA FoundFits ==
    ASSUME BucketSetting, NEW v \in Rows, Holds(v), NEW t \in Nat, t <= now, now <= t + MaxLag,
           NEW n \in Int, NEW l \in Int, Finds(v, t, n, l)
    PROVE  /\ Fits(n, l)
           /\ "clockBehind" \notin leaks /\ ~(backend = "mongo" /\ Exists(v) /\ t < v.at) =>
                /\ n + Cardinality(WonIn(l)) <= BucketSize
                /\ \A d \in Callers : IsWon(call[d]) => call[d].filed <= l
<1> USE DEF BucketSetting
<1>1. CASE ~ Exists(v)
  <2>1. n = BucketSize /\ l = t
    BY <1>1 DEF Finds
  <2>2. ASSUME NEW y \in Int, now - Span < y, y <= now PROVE Room(n, l, y)
    <3>1. PICK w \in Nat : w = Cardinality(WonSince(y))
      BY HitsType
    <3>2. w <= TokensPerInterval
      BY <1>1, <2>2, <3>1 DEF Holds
    <3> QED BY <2>1, <2>2, <3>1, <3>2 DEF Room
  <2>3. Fits(n, l)
    BY <2>1, <2>2 DEF Fits
  <2>4. ASSUME "clockBehind" \notin leaks
        PROVE  /\ n + Cardinality(WonIn(l)) <= BucketSize
               /\ \A d \in Callers : IsWon(call[d]) => call[d].filed <= l
    <3>1. \A d \in Callers : IsWon(call[d]) => call[d].filed + Interval <= now
      BY <1>1, <2>4 DEF Holds, Tidy
    <3>2. \A d \in Callers : IsWon(call[d]) => call[d].filed < l
      BY <2>1, <3>1
    <3>3. Cardinality(WonIn(l)) = 0
      BY <3>2, NoneIn
    <3> QED BY <2>1, <3>2, <3>3
  <2> QED BY <2>3, <2>4
<1>2. CASE Exists(v)
  <2>1. v.count \in Int /\ v.at \in Int /\ Fits(v.count, v.at)
    BY <1>2 DEF Rows, Holds
  <2>2. ASSUME n = Refill(v.count, v.at, t).tokens, l = Refill(v.count, v.at, t).last
        PROVE  Fits(n, l) /\ ((n = v.count /\ l = v.at) \/ l > v.at)
    <3>1. Fits(n, l)
      BY <2>1, <2>2, RefillFits
    <3>2. PICK b : b = Refill(v.count, v.at, t)
      OBVIOUS
    <3>3. t \in Int
      OBVIOUS
    <3>4. (b.last = v.at /\ b.tokens = v.count) \/ v.at + Interval <= b.last
      BY <2>1, <3>2, <3>3, RefillFacts
    <3>5. (n = v.count /\ l = v.at) \/ v.at + Interval <= l
      BY <2>2, <3>2, <3>4
    <3> QED BY <2>1, <3>1, <3>5
  <2>3. ASSUME n = Rewound(v, t).tokens, l = Rewound(v, t).last
        PROVE  Fits(n, l) /\ (t >= v.at => ((n = v.count /\ l = v.at) \/ l > v.at))
    <3>1. PICK b : b = Rewound(v, t)
      OBVIOUS
    <3>2. Fits(n, l)
      BY <2>1, <2>3, RewoundFits
    <3>3. t >= v.at => \/ b = Refill(v.count, v.at, t)
                       \/ b.last = v.at /\ b.tokens = v.count
      BY <2>1, <3>1, RewoundFits
    <3> QED BY <2>2, <2>3, <3>1, <3>2, <3>3
  <2>4. Fits(n, l) /\ (~(backend = "mongo" /\ t < v.at) => ((n = v.count /\ l = v.at) \/ l > v.at))
    BY <1>2, <2>1, <2>2, <2>3 DEF Finds
  <2>5. ASSUME "clockBehind" \notin leaks, (n = v.count /\ l = v.at) \/ l > v.at
        PROVE  /\ n + Cardinality(WonIn(l)) <= BucketSize
               /\ \A d \in Callers : IsWon(call[d]) => call[d].filed <= l
    <3>1. /\ v.count + Cardinality(WonIn(v.at)) <= BucketSize
          /\ \A d \in Callers : IsWon(call[d]) => call[d].filed <= v.at
      BY <1>2, <2>5 DEF Holds, Tidy
    <3>2. CASE n = v.count /\ l = v.at
      BY <3>1, <3>2
    <3>3. CASE l > v.at
      <4>1. \A d \in Callers : IsWon(call[d]) => call[d].filed < l
        BY <2>1, <3>1, <3>3
      <4>2. Cardinality(WonIn(l)) = 0
        BY <4>1, NoneIn
      <4> QED BY <2>4, <4>1, <4>2 DEF Fits
    <3> QED BY <2>5, <3>2, <3>3
  <2> QED BY <1>2, <2>4, <2>5
<1> QED BY <1>1, <1>2

\* An undo leaves the bucket, with a token more if it gives one back and has read the
\* tokens as they are.
Gives(p) == p.leg = IF Snapshots THEN "write" ELSE "start"
Stale(r, p) == Snapshots /\ Exists(r) /\ r.count # p.seen.count

LEMMA BucketReturns ==
    ASSUME Setting, strategy = "TOKEN_BUCKET", NEW r, Fine(r), NEW p, FineCall(p),
           p.op = "undo", p.leg # "end", Snapshots /\ Exists(r) => p.leg = "write"
    PROVE  LET x == UndoOf(r, p).row  v == Seen(r) IN
           /\ Exists(x) <=> Exists(v)
           /\ Exists(v) => /\ x.at = v.at
                           /\ \/ x.count <= v.count \/ Stale(r, p)
                              \/ Gives(p) /\ x.count <= v.count + 1
                           /\ x.exp = v.exp \/ (backend = "dynamo" /\ x.exp = p.t + 3 * Interval)
<1>1. /\ p \in Calls /\ p.t \in Nat /\ Sane(r) /\ r \in Rows /\ r.count \in Int /\ r.exp \in Int
      /\ Interval \in Nat /\ BucketSize \in Nat
  BY FineExists, Constants DEF FineCall, Fine, Calls
<1>2. PICK x : x = UndoOf(r, p).row
  OBVIOUS
<1>3. PICK v \in Rows : v = Seen(r) /\ v.count \in Int /\ v.exp \in Int
  BY SeenIs
<1>4. PICK w : w = [v EXCEPT !.count = Least(BucketSize, v.count + 1)]
  OBVIOUS
<1>5. w.count = Least(BucketSize, v.count + 1) /\ w.at = v.at /\ w.exp = v.exp
  BY <1>4 DEF Rows
<1>6. w.count <= v.count + 1
  BY <1>1, <1>3, <1>5 DEF Least
<1>7. CASE backend = "redis"
  <2>1. v = Unexpired(r) /\ p.leg = "start"
    BY <1>3, <1>7 DEF Seen, FineCall, LegsOf
  <2>2. UndoOf(r, p) = Ends(IF Exists(v) THEN w ELSE v, "done")
    BY <1>1, <1>4, <1>7, <2>1, RedisBucket
  <2>3. x = IF Exists(v) THEN w ELSE v
    BY <1>2, <2>2, StepFields
  <2>4. Gives(p)
    BY <1>7, <2>1 DEF Gives, Snapshots
  <2> QED BY <1>2, <1>3, <1>5, <1>6, <2>1, <2>3, <2>4 DEF Exists
<1>8. CASE backend \in {"postgres", "mongo"}
  <2>1. v = r
    BY <1>3, <1>8 DEF Seen
  <2>2. PICK m : m = Read(r, p)
    OBVIOUS
  <2>3. PICK y : y = [v EXCEPT !.count = Least(BucketSize, m + 1)]
    OBVIOUS
  <2>4. UndoOf(r, p) = Ends(IF Exists(v) THEN y ELSE v, "done")
    BY <1>1, <1>8, <2>1, <2>2, <2>3, ServerBucketUndo
  <2>5. x = IF Exists(v) THEN y ELSE v
    BY <1>2, <2>4, StepFields
  <2>6. y.count = Least(BucketSize, m + 1) /\ y.at = v.at /\ y.exp = v.exp
    BY <1>3, <2>3 DEF Rows
  <2>7. Exists(v) => m = v.count \/ Stale(r, p)
    BY <2>1, <2>2 DEF Read, Stale
  <2>8. m = v.count => y.count <= v.count + 1
    BY <1>1, <1>3, <2>6 DEF Least
  <2>9. Exists(v) => Gives(p)
    <3>1. CASE backend = "mongo"
      BY <3>1 DEF FineCall, LegsOf, Gives, Snapshots
    <3>2. CASE backend = "postgres"
      BY <2>1, <3>2 DEF Gives, Snapshots
    <3> QED BY <1>8, <3>1, <3>2
  <2> QED BY <1>2, <1>3, <2>5, <2>6, <2>7, <2>8, <2>9 DEF Exists
<1>9. CASE backend = "dynamo"
  <2>1. v = r /\ p.leg \in {"start", "clamp"}
    BY <1>3, <1>9 DEF Seen, FineCall, LegsOf
  <2>2. PICK d, e : d = [r EXCEPT !.count = r.count + 1, !.exp = p.t + 3 * Interval]
                    /\ e = [r EXCEPT !.count = BucketSize]
    OBVIOUS
  <2>3. /\ d.count = r.count + 1 /\ d.at = r.at /\ d.exp = p.t + 3 * Interval
        /\ e.count = BucketSize /\ e.at = r.at /\ e.exp = r.exp
    BY <1>1, <2>2 DEF Rows
  <2>4. d.exp >= 0
    BY <1>1, <2>3
  <2>5. /\ p.leg = "start" => UndoOf(r, p) =
              IF ~ Exists(r) THEN Ends(r, "done")
              ELSE IF r.count + 1 > BucketSize THEN Yield(d, "clamp", NoRow, "none")
              ELSE Ends(d, "done")
        /\ p.leg = "clamp" => UndoOf(r, p) =
              Ends(IF Exists(r) /\ r.count > BucketSize THEN e ELSE r, "done")
    BY <1>1, <1>9, <2>2, DynamoBucketUndo
  <2>6. \/ x = r /\ (p.leg = "start" => ~ Exists(r))
        \/ p.leg = "start" /\ Exists(r) /\ x = d
        \/ p.leg = "clamp" /\ Exists(r) /\ r.count > BucketSize /\ x = e
    BY <1>2, <2>1, <2>5, StepFields
  <2>7. p.leg = "start" => Gives(p)
    BY <1>9 DEF Gives, Snapshots
  <2> QED BY <1>1, <1>2, <1>3, <1>9, <2>1, <2>3, <2>4, <2>6, <2>7 DEF Exists
<1> QED BY <1>7, <1>8, <1>9 DEF Setting

\* The tokens taken that still count after a step.
LEMMA FewerWon ==
    ASSUME Base, \A d \in Callers : IsWon(call'[d]) =>
               IsWon(call[d]) /\ call'[d].at = call[d].at /\ call'[d].filed = call[d].filed
    PROVE  \A x : /\ Cardinality(WonSince(x)) \in Nat /\ Cardinality(WonSince(x)') \in Nat
                  /\ Cardinality(WonSince(x)') <= Cardinality(WonSince(x))
                  /\ Cardinality(WonIn(x)) \in Nat /\ Cardinality(WonIn(x)') \in Nat
                  /\ Cardinality(WonIn(x)') <= Cardinality(WonIn(x))
<1>1. \A x : WonSince(x)' \subseteq WonSince(x) /\ WonIn(x)' \subseteq WonIn(x)
  BY DEF WonSince, WonIn
<1> QED BY <1>1, HitsType, FS_Subset, FS_CardinalityType

\* A bucket keeps what it holds while tokens only come back to it in other ways.
LEMMA BucketFewer ==
    ASSUME BucketSetting, Base', backend' = backend, strategy' = strategy,
           leaks \subseteq leaks', NEW v \in Rows, Holds(v), now' \in {now, now + 1},
           \A d \in Callers : IsWon(call'[d]) =>
               IsWon(call[d]) /\ call'[d].at = call[d].at /\ call'[d].filed = call[d].filed,
           Exists(row') <=> Exists(v),
           Exists(v) => /\ row'.at = v.at /\ row'.count <= v.count
                        /\ row'.exp = v.exp \/ (backend # "redis" /\ v.at + Interval <= row'.exp)
    PROVE  Holds(row)'
<1> USE DEF BucketSetting
<1>1. Span' = Span /\ Span \in Nat
  BY DEF Span
<1>2. /\ row'.count \in Int /\ row'.at \in Int /\ row'.exp \in Int
      /\ v.count \in Int /\ v.at \in Int /\ v.exp \in Int
  BY DEF Base, Fine, Sane, Rows
<1>3. \A x : /\ Cardinality(WonSince(x)) \in Nat /\ Cardinality(WonSince(x)') \in Nat
             /\ Cardinality(WonSince(x)') <= Cardinality(WonSince(x))
             /\ Cardinality(WonIn(x)) \in Nat /\ Cardinality(WonIn(x)') \in Nat
             /\ Cardinality(WonIn(x)') <= Cardinality(WonIn(x))
  BY FewerWon
<1>10. PICK l \in Int : l = row'.at
  BY <1>2
<1>4. \A d \in Callers : call'[d].at \in Nat /\ call'[d].filed \in Int
  BY DEF Base, FineCall, Calls
<1>5. ASSUME NEW y \in Int, now' - Span < y, y <= now'
      PROVE  Cardinality(WonSince(y)') = 0 \/ (now - Span < y /\ y <= now)
  <2>1. CASE y > now
    <3>1. \A d \in Callers : ~(IsWon(call[d]) /\ call[d].at >= y)
      BY <2>1
    <3>2. Cardinality(WonSince(y)) = 0
      BY <3>1, NoneSince
    <3>3. PICK a, b \in Nat : a = Cardinality(WonSince(y)) /\ b = Cardinality(WonSince(y)')
      BY <1>3
    <3>4. b <= a /\ a = 0
      BY <1>3, <3>2, <3>3
    <3> QED BY <3>3, <3>4
  <2>2. CASE y <= now
    BY <1>1, <1>5, <2>2
  <2> QED BY <2>1, <2>2
<1>6. ASSUME ~ Exists(v), NEW y \in Int, now' - Span < y, y <= now'
      PROVE  Cardinality(WonSince(y)') <= TokensPerInterval
  <2>1. PICK a, b \in Nat : a = Cardinality(WonSince(y)) /\ b = Cardinality(WonSince(y)')
    BY <1>3
  <2>2. b <= a /\ (b = 0 \/ a <= TokensPerInterval)
    BY <1>3, <1>5, <1>6, <2>1 DEF Holds
  <2> QED BY <2>1, <2>2
<1>7. ASSUME Exists(v)
      PROVE  /\ row'.count <= BucketSize
             /\ \A d \in Callers : IsWon(call'[d]) => call'[d].at < row'.at + Interval + MaxLag
             /\ backend = "redis" => \A d \in Callers : IsWon(call'[d]) =>
                                         call'[d].at + Interval <= row'.exp
  BY <1>2, <1>4, <1>7 DEF Holds, Fits
<1>8. ASSUME Exists(v), NEW y \in Int, now' - Span < y, y <= now'
      PROVE  \/ row'.count + Cardinality(WonSince(y)') <= BucketSize
             \/ /\ row'.at >= y - MaxLag
                /\ row'.count + Cardinality(WonSince(y)') <= BucketSize + TokensPerInterval
  <2>1. PICK a, b \in Nat : a = Cardinality(WonSince(y)) /\ b = Cardinality(WonSince(y)')
    BY <1>3
  <2>2. b <= a
    BY <1>3, <2>1
  <2>3. CASE b = 0
    BY <1>2, <1>7, <1>8, <2>1, <2>3
  <2>4. CASE now - Span < y /\ y <= now
    <3>1. Room(v.count, v.at, y)
      BY <1>8, <2>4 DEF Holds, Fits
    <3>2. v.count + a <= BucketSize
          \/ (v.at >= y - MaxLag /\ v.count + a <= BucketSize + TokensPerInterval)
      BY <2>1, <3>1 DEF Room
    <3> QED BY <1>2, <1>8, <2>1, <2>2, <3>2
  <2> QED BY <1>5, <1>8, <2>1, <2>3, <2>4
<1>9. ASSUME "clockBehind" \notin leaks'
      PROVE  /\ Exists(row') =>
                  /\ row'.count + Cardinality(WonIn(l)') <= BucketSize
                  /\ \A d \in Callers : IsWon(call'[d]) =>
                        call'[d].filed <= row'.at /\ call'[d].filed + Interval <= row'.exp
             /\ ~ Exists(row') => \A d \in Callers : IsWon(call'[d]) =>
                                      call'[d].filed + Interval <= now'
  <2>1. Tidy(v)
    BY <1>9 DEF Holds
  <2>2. ASSUME Exists(v)
        PROVE  /\ row'.count + Cardinality(WonIn(l)') <= BucketSize
               /\ \A d \in Callers : IsWon(call'[d]) =>
                        call'[d].filed <= row'.at /\ call'[d].filed + Interval <= row'.exp
    <3>1. l = v.at /\ l = row'.at
      BY <1>10, <2>2
    <3>2. PICK a, b \in Nat : a = Cardinality(WonIn(l)) /\ b = Cardinality(WonIn(l)')
      BY <1>3
    <3>3. b <= a /\ v.count + a <= BucketSize
      BY <1>3, <2>1, <2>2, <3>1, <3>2 DEF Tidy
    <3>4. row'.count + b <= BucketSize
      BY <1>2, <2>2, <3>2, <3>3
    <3>5. ASSUME NEW d \in Callers, IsWon(call'[d])
          PROVE  call'[d].filed <= row'.at /\ call'[d].filed + Interval <= row'.exp
      <4>1. call'[d].filed <= v.at /\ call'[d].filed + Interval <= v.exp
        BY <2>1, <2>2, <3>5 DEF Tidy
      <4> QED BY <1>2, <1>4, <2>2, <4>1
    <3> QED BY <3>1, <3>2, <3>4, <3>5
  <2>3. ASSUME ~ Exists(v), NEW d \in Callers, IsWon(call'[d])
        PROVE  call'[d].filed + Interval <= now'
    <3>1. call'[d].filed + Interval <= now
      BY <2>1, <2>3 DEF Tidy
    <3> QED BY <1>4, <3>1
  <2> QED BY <2>2, <2>3
<1> QED BY <1>1, <1>6, <1>7, <1>8, <1>9, <1>10 DEF Holds, Fits, Room, Tidy

\* An undo gives its token back to the bucket it was taken from.
LEMMA BucketUndone ==
    ASSUME BucketSetting, Base', backend' = backend, strategy' = strategy, now' = now,
           Holds(row), Tidy(row), InTurn, NEW c \in Callers, Onestep(c),
           IsWon(call[c]), call[c].filed = row.at, ~ IsWon(call'[c]),
           Exists(row), Exists(row'), row'.at = row.at, row'.count <= row.count + 1,
           row'.exp = row.exp \/ (backend # "redis" /\ row.at + Interval <= row'.exp)
    PROVE  Holds(row)'
<1> USE DEF BucketSetting
<1>1. Span' = Span /\ Span \in Nat
  BY DEF Span
<1>2. /\ row'.count \in Int /\ row'.at \in Int /\ row'.exp \in Int
      /\ row.count \in Int /\ row.at \in Int /\ row.exp \in Int
  BY DEF Base, Fine, Sane, Rows
<1>3. \A d \in Callers : IsWon(call'[d]) =>
          d # c /\ IsWon(call[d]) /\ call'[d].at = call[d].at /\ call'[d].filed = call[d].filed
  BY DEF Onestep
<1>4. \A x : /\ Cardinality(WonSince(x)) \in Nat /\ Cardinality(WonSince(x)') \in Nat
             /\ Cardinality(WonSince(x)') <= Cardinality(WonSince(x))
             /\ Cardinality(WonIn(x)) \in Nat /\ Cardinality(WonIn(x)') \in Nat
             /\ Cardinality(WonIn(x)') <= Cardinality(WonIn(x))
  BY <1>3, FewerWon
<1>5. PICK l \in Int : l = row.at /\ l = row'.at
  BY <1>2
<1>6. PICK a, b \in Nat : a = Cardinality(WonIn(l)) /\ b = Cardinality(WonIn(l)')
  BY <1>4
<1>7. b + 1 = a
  <2>1. Cardinality(WonIn(l)') + (IF IsWon(call[c]) /\ call[c].filed = l THEN 1 ELSE 0)
        = Cardinality(WonIn(l)) + (IF IsWon(call'[c]) /\ call'[c].filed = l THEN 1 ELSE 0)
    BY HitsMove
  <2> QED BY <1>5, <1>6, <2>1
<1>8. row.count + a <= BucketSize
  BY <1>5, <1>6 DEF Tidy
<1>9. row'.count + b <= BucketSize /\ row'.count <= BucketSize
  BY <1>2, <1>6, <1>7, <1>8
<1>10. \A d \in Callers : call'[d].at \in Nat /\ call'[d].filed \in Int
  BY DEF Base, FineCall, Calls
<1>11. ASSUME NEW d \in Callers, IsWon(call'[d])
       PROVE  /\ call'[d].at < row'.at + Interval + MaxLag
              /\ backend = "redis" => call'[d].at + Interval <= row'.exp
              /\ call'[d].filed <= row'.at /\ call'[d].filed + Interval <= row'.exp
  <2>1. IsWon(call[d]) /\ call'[d].at = call[d].at /\ call'[d].filed = call[d].filed
    BY <1>3, <1>11
  <2>2. /\ call[d].at < row.at + Interval + MaxLag
        /\ backend = "redis" => call[d].at + Interval <= row.exp
        /\ call[d].filed <= row.at /\ call[d].filed + Interval <= row.exp
    BY <2>1 DEF Holds, Fits, Tidy
  <2> QED BY <1>2, <1>10, <2>1, <2>2
<1>12. ASSUME NEW y \in Int, now - Span < y, y <= now
       PROVE  \/ row'.count + Cardinality(WonSince(y)') <= BucketSize
              \/ /\ row'.at >= y - MaxLag
                 /\ row'.count + Cardinality(WonSince(y)') <= BucketSize + TokensPerInterval
  <2>1. PICK i, j \in Nat : i = Cardinality(WonSince(y)) /\ j = Cardinality(WonSince(y)')
    BY <1>4
  <2>2. j + (IF IsWon(call[c]) /\ call[c].at >= y THEN 1 ELSE 0)
        = i + (IF IsWon(call'[c]) /\ call'[c].at >= y THEN 1 ELSE 0)
    BY <2>1, HitsMove
  <2>3. CASE call[c].at >= y
    <3>1. j + 1 = i
      BY <2>1, <2>2, <2>3
    <3>2. Room(row.count, row.at, y)
      BY <1>12 DEF Holds, Fits
    <3>3. row.count + i <= BucketSize
          \/ (row.at >= y - MaxLag /\ row.count + i <= BucketSize + TokensPerInterval)
      BY <2>1, <3>2 DEF Room
    <3> QED BY <1>2, <2>1, <3>1, <3>3
\* The tokens taken since, after its own, are of its refill.
  <2>4. CASE ~(call[c].at >= y)
    <3>1. WonSince(y)' \subseteq WonIn(l)'
      <4>1. ASSUME NEW d \in WonSince(y)' PROVE d \in WonIn(l)'
        <5>1. d \in Callers /\ IsWon(call'[d]) /\ call'[d].at >= y
          BY <4>1 DEF WonSince
        <5>2. /\ IsWon(call[d]) /\ call'[d].at = call[d].at /\ call'[d].filed = call[d].filed
              /\ call[d].at \in Nat /\ call[c].at \in Nat /\ call[d].filed \in Int
          BY <1>3, <5>1
        <5>3. call[c].at < call[d].at
          BY <2>4, <5>1, <5>2
        <5>4. call[c].filed <= call[d].filed
          BY <5>1, <5>2, <5>3 DEF InTurn
        <5>5. call[d].filed <= row.at
          BY <5>1, <5>2 DEF Tidy
        <5>6. call[d].filed = l
          BY <1>5, <5>2, <5>4, <5>5
        <5> QED BY <5>1, <5>2, <5>6 DEF WonIn
      <4> QED BY <4>1
    <3>2. WonIn(l)' \subseteq Callers
      BY DEF WonIn
    <3>3. IsFiniteSet(WonIn(l)')
      BY <3>2, Constants, FS_Subset
    <3>4. j <= b
      BY <1>6, <2>1, <3>1, <3>3, FS_Subset
    <3> QED BY <1>2, <1>6, <1>9, <2>1, <3>4
  <2> QED BY <2>3, <2>4
<1> QED BY <1>1, <1>5, <1>6, <1>9, <1>11, <1>12 DEF Holds, Fits, Room, Tidy

\* An increment takes a token from what it found in the bucket, and is admitted, or takes
\* one and is answered by an error, or takes none.
LEMMA BucketTaken ==
    ASSUME BucketSetting, Base', backend' = backend, strategy' = strategy, now' = now,
           NEW c \in Callers, Onestep(c), ~ IsWon(call[c]),
           NEW n \in Int, NEW l \in Int, Fits(n, l), l <= now, now < l + Interval + MaxLag,
           Exists(row'), row'.at = l, row'.count <= n, row'.exp >= l + Interval,
           backend = "redis" => row'.exp >= now + Interval,
           IsWon(call'[c]) => /\ n >= 1 /\ row'.count = n - 1
                              /\ call'[c].at = now /\ call'[c].filed = l,
           "clockBehind" \notin leaks' =>
               /\ n + Cardinality(WonIn(l)) <= BucketSize
               /\ \A d \in Callers : IsWon(call[d]) => call[d].filed <= l
    PROVE  /\ Holds(row)'
           /\ IsWon(call'[c]) => Quota(Cardinality(WonSince(now - Span + 1)) + 1)
<1> USE DEF BucketSetting
<1>1. Span' = Span /\ Span \in Nat /\ Span >= 1
  BY DEF Span
<1>2. row'.count \in Int /\ row'.at \in Int /\ row'.exp \in Int
  BY DEF Base, Fine, Sane, Rows
<1>3. \A d \in Callers : /\ call'[d].at \in Nat /\ call'[d].filed \in Int
                         /\ d # c => call'[d] = call[d]
  BY DEF Base, FineCall, Calls, Onestep
<1>4. PICK k \in {0, 1} : k = IF IsWon(call'[c]) THEN 1 ELSE 0
  OBVIOUS
<1>5. row'.count + k <= n
  BY <1>2, <1>4
<1>6. ASSUME NEW x \in Int
      PROVE  /\ Cardinality(WonSince(x)) \in Nat /\ Cardinality(WonIn(x)) \in Nat
             /\ Cardinality(WonSince(x)') \in Nat /\ Cardinality(WonIn(x)') \in Nat
             /\ x <= now => Cardinality(WonSince(x)') = Cardinality(WonSince(x)) + k
             /\ x = l => Cardinality(WonIn(x)') = Cardinality(WonIn(x)) + k
  <2>1. /\ Cardinality(WonSince(x)) \in Nat /\ Cardinality(WonIn(x)) \in Nat
    BY HitsType
  <2>2. WonSince(x)' \subseteq Callers /\ WonIn(x)' \subseteq Callers
    BY DEF WonSince, WonIn
  <2>3. Cardinality(WonSince(x)') \in Nat /\ Cardinality(WonIn(x)') \in Nat
    BY <2>2, Constants, FS_Subset, FS_CardinalityType
  <2>4. /\ Cardinality(WonIn(x)') + (IF IsWon(call[c]) /\ call[c].filed = x THEN 1 ELSE 0)
           = Cardinality(WonIn(x)) + (IF IsWon(call'[c]) /\ call'[c].filed = x THEN 1 ELSE 0)
        /\ Cardinality(WonSince(x)') + (IF IsWon(call[c]) /\ call[c].at >= x THEN 1 ELSE 0)
           = Cardinality(WonSince(x)) + (IF IsWon(call'[c]) /\ call'[c].at >= x THEN 1 ELSE 0)
    BY HitsMove
  <2> QED BY <1>4, <2>1, <2>3, <2>4
<1>7. ASSUME NEW y \in Int, now - Span < y, y <= now
      PROVE  \/ row'.count + Cardinality(WonSince(y)') <= BucketSize
             \/ /\ row'.at >= y - MaxLag
                /\ row'.count + Cardinality(WonSince(y)') <= BucketSize + TokensPerInterval
  <2>1. PICK i, j \in Nat : i = Cardinality(WonSince(y)) /\ j = Cardinality(WonSince(y)')
    BY <1>6
  <2>2. j = i + k
    BY <1>6, <1>7, <2>1
  <2>3. n + i <= BucketSize \/ (l >= y - MaxLag /\ n + i <= BucketSize + TokensPerInterval)
    BY <1>7, <2>1 DEF Fits, Room
  <2> QED BY <1>2, <1>4, <1>5, <2>1, <2>2, <2>3
<1>8. ASSUME NEW d \in Callers, IsWon(call'[d])
      PROVE  /\ call'[d].at < row'.at + Interval + MaxLag
             /\ backend = "redis" => call'[d].at + Interval <= row'.exp
             /\ "clockBehind" \notin leaks' =>
                    call'[d].filed <= row'.at /\ call'[d].filed + Interval <= row'.exp
  <2>1. CASE d = c
    BY <1>2, <1>8, <2>1
  <2>2. CASE d # c
    <3>1. /\ call'[d] = call[d] /\ IsWon(call[d]) /\ call[d].at < l + Interval + MaxLag
      BY <1>3, <1>8, <2>2 DEF Fits
    <3> QED BY <1>2, <1>3, <1>8, <3>1
  <2> QED BY <2>1, <2>2
<1>9. row'.count <= BucketSize
  BY <1>2 DEF Fits
<1>10. "clockBehind" \notin leaks' => row'.count + Cardinality(WonIn(l)') <= BucketSize
  <2>1. PICK i, j \in Nat : i = Cardinality(WonIn(l)) /\ j = Cardinality(WonIn(l)')
    BY <1>6
  <2>2. j = i + k
    BY <1>6, <2>1
  <2> QED BY <1>2, <1>4, <1>5, <2>1, <2>2
<1>11. Holds(row)'
  BY <1>1, <1>7, <1>8, <1>9, <1>10 DEF Holds, Fits, Room, Tidy
<1>12. ASSUME IsWon(call'[c]) PROVE Quota(Cardinality(WonSince(now - Span + 1)) + 1)
  <2>1. PICK y \in Int : y = now - Span + 1
    BY <1>1
  <2>2. now - Span < y /\ y <= now
    BY <1>1, <2>1
  <2>3. PICK i \in Nat : i = Cardinality(WonSince(y))
    BY <1>6
  <2>4. n + i <= BucketSize + TokensPerInterval
    <3>1. Room(n, l, y)
      BY <2>2 DEF Fits
    <3> QED BY <2>3, <3>1 DEF Room
  <2>5. PICK m \in Nat : m = i + 1
    OBVIOUS
  <2>6. m <= BucketSize + TokensPerInterval
    BY <1>12, <2>4, <2>5
  <2>7. Quota(m)
    BY <2>5, <2>6, Constants DEF Quota, Weighted
  <2> QED BY <2>1, <2>3, <2>5, <2>7
<1> QED BY <1>11, <1>12

LEMMA BucketInit == Init => BucketCounts
<1> SUFFICES ASSUME Init, strategy = "TOKEN_BUCKET" PROVE BucketCounts
  BY DEF BucketCounts
<1>1. BucketSetting
  BY BaseInit, BucketSettingIs
<1>2. \A d \in Callers : ~ IsWon(call[d])
  BY DEF Init, Idle, IsWon
<1>3. ~ Exists(row)
  BY NoRowFields DEF Init
<1>4. ASSUME NEW y \in Int PROVE Cardinality(WonSince(y)) <= TokensPerInterval
  BY <1>1, <1>2, NoneSince DEF BucketSetting
<1> QED BY <1>2, <1>3, <1>4 DEF BucketCounts, Holds, Tidy, InTurn

LEMMA BucketKeeps ==
    ASSUME Base, strategy = "TOKEN_BUCKET", LockedRow, BucketCounts, [Next]_vars
    PROVE  /\ BucketCounts'
           /\ \A c \in Callers : Adds(c) /\ call'[c].answer = "allowed" /\ Clean' =>
                Quota(Cardinality(WonSince(now - Span + 1)) + 1)
<1>1. Base' /\ backend' = backend /\ strategy' = strategy /\ leaks \subseteq leaks'
      /\ (Quiet \/ (\E c \in Callers : Adds(c) \/ Removes(c)) \/ Wiped \/ Expired)
  BY Forms
<1>2. BucketSetting /\ Setting
  BY BucketSettingIs DEF BucketSetting
<1> USE DEF BucketSetting
<1>3. /\ Fine(row) /\ row.count \in Int /\ row.at \in Int /\ row.exp \in Int /\ row.at <= now
      /\ Fine(row)' /\ row' \in Rows /\ row'.count \in Int /\ row'.at \in Int /\ row'.exp \in Int
      /\ row \in Rows
  BY <1>1 DEF Base, Fine, Sane, Rows
<1>4. Clean' => Clean
  BY <1>1 DEF Clean
<1>5. Clean => /\ Holds(row)
               /\ \A d \in Callers : IsWon(call[d]) => call[d].filed <= call[d].at
               /\ "clockBehind" \notin leaks => InTurn
  BY DEF BucketCounts
\* Tokens that are given back, or written off, leave the order of the others.
<1>6. ASSUME \A d \in Callers : IsWon(call'[d]) =>
                IsWon(call[d]) /\ call'[d].at = call[d].at /\ call'[d].filed = call[d].filed,
             Clean' => Holds(row)'
      PROVE  BucketCounts'
  <2>1. SUFFICES ASSUME Clean'
                 PROVE  /\ \A d \in Callers : IsWon(call'[d]) => call'[d].filed <= call'[d].at
                        /\ "clockBehind" \notin leaks' => InTurn'
    BY <1>6 DEF BucketCounts
  <2>2. \A d \in Callers : IsWon(call'[d]) => call'[d].filed <= call'[d].at
    BY <1>4, <1>5, <1>6, <2>1
  <2>3. "clockBehind" \notin leaks' => InTurn'
    BY <1>1, <1>4, <1>5, <1>6, <2>1 DEF InTurn
  <2> QED BY <2>2, <2>3
<1>7. ASSUME Quiet PROVE BucketCounts'
  <2>1. /\ row' = row /\ now' \in {now, now + 1} /\ \A d \in Callers : SameHit(call[d], call'[d])
    BY <1>7 DEF Quiet
  <2>2. \A d \in Callers : IsWon(call'[d]) =>
            IsWon(call[d]) /\ call'[d].at = call[d].at /\ call'[d].filed = call[d].filed
    BY <2>1 DEF SameHit, IsHit, IsWon
  <2>3. ASSUME Clean' PROVE Holds(row)'
    <3>1. Holds(row)
      BY <1>4, <1>5, <2>3
    <3>2. (Exists(row') <=> Exists(row)) /\ row'.count <= row.count
      BY <1>3, <2>1
    <3> QED BY <1>1, <1>2, <1>3, <2>1, <2>2, <3>1, <3>2, BucketFewer
  <2> QED BY <1>6, <2>2, <2>3
<1>8. ASSUME Wiped PROVE BucketCounts'
  <2>1. \A d \in Callers : ~ IsHit(call'[d]) /\ ~ IsWon(call'[d])
    BY <1>2, <1>8, HitsWiped
  <2>2. \A x : Cardinality(WonSince(x)') = 0 /\ Cardinality(WonIn(x)') = 0
    <3>1. \A x : WonSince(x)' = {} /\ WonIn(x)' = {}
      BY <2>1 DEF WonSince, WonIn
    <3> QED BY <3>1, FS_EmptySet
  <2>3. Exists(row') => row'.count <= BucketSize
    <3>1. CASE row' = NoRow
      BY <3>1, NoRowFields
    <3>2. ASSUME NEW n \in Nat, row' = SetRow(n) PROVE row'.count <= BucketSize
      <4>1. PICK e \in Nat : row' = BucketRow(TokensAfterSet(n), now, e)
        BY <1>2, <3>2, SetIs
      <4>2. PICK m \in Nat : m = TokensAfterSet(n) /\ m <= BucketSize
        BY <1>2, <3>2 DEF TokensAfterSet
      <4>3. row'.count = m
        BY <4>1, <4>2, BucketFields
      <4> QED BY <4>2, <4>3
    <3> QED BY <1>8, <3>1, <3>2 DEF Wiped
  <2>4. Holds(row)'
    BY <1>1, <1>2, <1>3, <2>1, <2>2, <2>3 DEF Holds, Fits, Room, Tidy
  <2> QED BY <1>6, <2>1, <2>4
<1>9. ASSUME Expired PROVE BucketCounts'
  <2>1. /\ row' = NoRow /\ now' = now /\ Exists(row) /\ (Preview > 0 => "sweptLive" \in leaks')
        /\ \A d \in Callers : IsWon(call'[d]) => call'[d] = call[d]
    BY <1>9, HitsExpired DEF Expired
  <2>2. row.exp <= now /\ backend # "redis"
    <3>1. CASE backend = "postgres"
      BY <1>2, <1>3, <1>9, <2>1, <3>1 DEF Expired, MayExpire, Pg!MayExpire
    <3>2. CASE backend = "mongo"
      BY <1>2, <1>9, <2>1, <3>2 DEF Expired, MayExpire, Mongo!MayExpire
    <3>3. CASE backend = "dynamo"
      BY <1>2, <1>3, <1>9, <2>1, <3>3 DEF Expired, MayExpire, Dynamo!MayExpire
    <3>4. backend # "redis"
      BY <1>9 DEF Expired, MayExpire
    <3> QED BY <1>2, <3>1, <3>2, <3>3, <3>4 DEF Setting
  <2>3. Preview = BucketSize - Refill(row.count, row.at, now).tokens
    BY <1>2, <2>1, <2>2, ServerPreview, DynamoPreview DEF Setting
  <2>4. ASSUME Clean' PROVE Holds(row)'
    <3>1. Holds(row)
      BY <1>4, <1>5, <2>4
    <3>2. PICK b : b = Refill(row.count, row.at, now)
      OBVIOUS
    <3>3. b.tokens \in Int /\ b.last \in Int
      <4>1. now \in Int
        BY <1>2
      <4> QED BY <1>3, <3>2, <4>1, RefillFacts
    <3>4. ~(Preview > 0)
      BY <2>1, <2>4 DEF Clean
    <3>5. b.tokens >= BucketSize
      BY <1>2, <2>3, <3>2, <3>3, <3>4
    <3>6. Fits(row.count, row.at)
      BY <2>1, <3>1 DEF Holds
    <3>7. now <= now + MaxLag
      BY <1>2
    <3>8. Fits(b.tokens, b.last)
      BY <1>2, <1>3, <3>2, <3>6, <3>7, RefillFits
    <3>9. ASSUME NEW y \in Int, now - Span < y, y <= now
          PROVE  Cardinality(WonSince(y)) <= TokensPerInterval
      <4>1. PICK a \in Nat : a = Cardinality(WonSince(y))
        BY HitsType
      <4>2. Room(b.tokens, b.last, y)
        BY <3>8, <3>9 DEF Fits
      <4>3. b.tokens + a <= BucketSize \/ b.tokens + a <= BucketSize + TokensPerInterval
        BY <4>1, <4>2 DEF Room
      <4> QED BY <1>2, <3>3, <3>5, <4>1, <4>3
    <3>10. Span' = Span
      BY <1>1 DEF Span
    <3>11. \A y : /\ Cardinality(WonSince(y)) \in Nat /\ Cardinality(WonSince(y)') \in Nat
                  /\ Cardinality(WonSince(y)') <= Cardinality(WonSince(y))
      BY <2>1, FewerWon
    <3>12. ASSUME NEW y \in Int, now' - Span' < y, y <= now'
           PROVE  Cardinality(WonSince(y)') <= TokensPerInterval
      <4>1. Cardinality(WonSince(y)) <= TokensPerInterval
        BY <2>1, <3>9, <3>10, <3>12
      <4> QED BY <1>2, <3>11, <4>1
    <3>13. "clockBehind" \notin leaks' => \A d \in Callers : IsWon(call'[d]) =>
                                              call'[d].filed + Interval <= now'
      <4>1. ASSUME "clockBehind" \notin leaks, NEW d \in Callers, IsWon(call[d])
            PROVE  call[d].filed + Interval <= now
        <5>1. call[d].filed + Interval <= row.exp
          BY <2>1, <3>1, <4>1 DEF Holds, Tidy
        <5> QED BY <1>2, <1>3, <2>2, <5>1
      <4> QED BY <1>1, <2>1, <4>1
    <3>14. ~ Exists(row')
      BY <2>1, NoRowFields
    <3> QED BY <3>12, <3>13, <3>14 DEF Holds, Tidy
  <2> QED BY <1>6, <2>1, <2>4
<1>10. ASSUME NEW c \in Callers, Removes(c) PROVE BucketCounts'
  <2>1. PICK p \in Calls : p = call[c] /\ FineCall(p)
    BY <1>2 DEF Base
  <2>2. PICK v \in Rows : v = Seen(row) /\ v.exp \in Int /\ v.count \in Int /\ v.at \in Int
    BY <1>2, <1>3, SeenIs DEF Rows
  <2>3. v = row \/ (v = NoRow /\ Exists(row) /\ row.exp <= now /\ backend = "redis")
    BY <1>2, <1>3, <2>2, SeenIs
  <2>4. /\ Onestep(c) /\ p.op = "undo" /\ p.leg # "end" /\ now' = now
        /\ call'[c].gone /\ row' = UndoOf(row, p).row
        /\ Snapshots /\ Exists(row) => p.leg = "write"
        /\ Gives(p) /\ LateUndo(c) => "lateUndo" \in leaks'
        /\ Stale(row, p) => "staleUndo" \in leaks'
    BY <1>10, <2>1 DEF Removes, GivesBack, StaleUndo, Gives, Stale
  <2>5. /\ Exists(row') <=> Exists(v)
        /\ Exists(v) => /\ row'.at = v.at
                        /\ \/ row'.count <= v.count \/ Stale(row, p)
                           \/ Gives(p) /\ row'.count <= v.count + 1
                        /\ row'.exp = v.exp \/ (backend = "dynamo" /\ row'.exp = p.t + 3 * Interval)
    BY <1>2, <1>3, <2>1, <2>2, <2>4, BucketReturns
  <2>6. Exists(v) => /\ v = row
                     /\ row'.exp = v.exp \/ (backend # "redis" /\ v.at + Interval <= row'.exp)
    <3>1. p.t \in Nat /\ now <= p.t + MaxLag
      BY <2>1, <2>4 DEF FineCall, Calls
    <3>2. Exists(v) => v = row
      BY <2>3, NoRowFields
    <3> QED BY <1>2, <1>3, <2>5, <3>1, <3>2
  <2>7. ~ IsWon(call'[c])
    BY <2>4 DEF IsWon
  <2>8. \A d \in Callers : IsWon(call'[d]) =>
            IsWon(call[d]) /\ call'[d].at = call[d].at /\ call'[d].filed = call[d].filed
    BY <2>4, <2>7 DEF Onestep
  <2>9. ASSUME Clean' PROVE Holds(row)'
    <3>1. Holds(row) /\ \A d \in Callers : IsWon(call[d]) => call[d].filed <= call[d].at
      BY <1>4, <1>5, <2>9
    <3>2. Holds(v)
      BY <1>2, <2>2, <3>1, SeenHolds
    <3>3. CASE ~ Exists(v) \/ row'.count <= v.count
      <4>1. Exists(v) => row'.count <= v.count
        BY <3>3
      <4>2. Exists(v) => /\ row'.at = v.at /\ row'.count <= v.count
                         /\ row'.exp = v.exp \/ (backend # "redis" /\ v.at + Interval <= row'.exp)
        BY <2>5, <2>6, <4>1
      <4>3. now' \in {now, now + 1}
        BY <2>4
      <4> QED BY <1>1, <1>2, <2>2, <2>5, <2>8, <3>2, <4>2, <4>3, BucketFewer
    <3>4. CASE Exists(v) /\ Gives(p) /\ row'.count <= v.count + 1
      <4>1. ~ LateUndo(c) /\ v = row /\ Exists(row)
        BY <2>4, <2>6, <2>9, <3>4 DEF Clean
      <4>2. p.filed = row.at /\ ~ p.gone /\ "clockBehind" \notin leaks
        BY <1>2, <2>1, <4>1 DEF LateUndo, FiledUnder, Exact, Weighted
      <4>3. IsWon(p)
        BY <1>2, <2>1, <2>4, <4>2 DEF FineCall, IsWon
      <4>4. Tidy(row) /\ InTurn
        BY <1>4, <1>5, <2>9, <4>2 DEF Holds
      <4>5. Exists(row') /\ row'.at = row.at /\ row'.count <= row.count + 1
            /\ (row'.exp = row.exp \/ (backend # "redis" /\ row.at + Interval <= row'.exp))
        BY <2>5, <2>6, <3>4, <4>1
      <4> QED BY <1>1, <1>2, <2>1, <2>4, <2>7, <3>1, <4>1, <4>2, <4>3, <4>4, <4>5, BucketUndone
    <3>5. ~ Stale(row, p)
      BY <2>4, <2>9 DEF Clean
    <3> QED BY <2>5, <3>3, <3>4, <3>5
  <2> QED BY <1>6, <2>8, <2>9
<1>11. ASSUME NEW c \in Callers, Adds(c)
       PROVE  /\ BucketCounts'
              /\ call'[c].answer = "allowed" /\ Clean' =>
                   Quota(Cardinality(WonSince(now - Span + 1)) + 1)
  <2>1. PICK p \in Calls : p = call[c] /\ FineCall(p)
    BY <1>2 DEF Base
  <2>2. PICK q \in Calls : q = call'[c]
    BY <1>1 DEF Base
  <2>3. PICK s : s = StepOf(row, p)
    OBVIOUS
  <2>4. /\ Onestep(c) /\ p.leg # "end" /\ p.answer = "none" /\ now' = now
        /\ row' = s.row /\ q.answer \in {s.answer, "failed"} /\ ~ q.gone
        /\ s.answer \in {"allowed", "blocked"}
        /\ q.answer # "failed" => q.at = now /\ q.filed = row'.at
        /\ ClockBehind(c) => "clockBehind" \in leaks'
    BY <1>2, <1>11, <2>1, <2>2, <2>3 DEF Adds, FiledUnder, Exact, Weighted
  <2>5. SUFFICES ASSUME Clean'
                 PROVE  BucketCounts' /\ (IsWon(q) => Quota(Cardinality(WonSince(now - Span + 1)) + 1))
    BY <2>2, <2>4 DEF BucketCounts, IsWon
  <2>6. row'.at <= now
    BY <1>1, <1>3, <2>4 DEF Fine
  <2>7. PICK v \in Rows : v = Seen(row)
    BY <1>2, <1>3, SeenIs
  <2>8. PICK n, l \in Int :
             /\ Finds(v, p.t, n, l)
             /\ Exists(row') /\ row'.at = l /\ row'.exp >= l + Interval
             /\ backend = "redis" => row'.exp >= now + Interval
             /\ s.answer = "allowed" => n >= 1 /\ row'.count = n - 1
             /\ s.answer = "blocked" => row'.count = n
    BY <1>2, <1>11, <2>1, <2>3, <2>5, <2>6, <2>7, BucketAdds
  <2>9. Holds(row) /\ \A d \in Callers : IsWon(call[d]) => call[d].filed <= call[d].at
    BY <1>4, <1>5, <2>5
  <2>10. Holds(v)
    BY <1>2, <2>7, <2>9, SeenHolds
  <2>11. p.t \in Nat /\ p.t <= now /\ now <= p.t + MaxLag
    BY <2>1, <2>4 DEF FineCall, Calls
  <2>12. /\ Fits(n, l)
         /\ "clockBehind" \notin leaks /\ ~(backend = "mongo" /\ Exists(v) /\ p.t < v.at) =>
                /\ n + Cardinality(WonIn(l)) <= BucketSize
                /\ \A d \in Callers : IsWon(call[d]) => call[d].filed <= l
    BY <1>2, <2>8, <2>10, <2>11, FoundFits
  <2>13. ASSUME "clockBehind" \notin leaks'
         PROVE  /\ n + Cardinality(WonIn(l)) <= BucketSize
                /\ \A d \in Callers : IsWon(call[d]) => call[d].filed <= l
    <3>1. "clockBehind" \notin leaks /\ ~ ClockBehind(c)
      BY <1>1, <2>4, <2>13
    <3>2. ~(backend = "mongo" /\ Exists(v) /\ p.t < v.at)
      BY <1>2, <2>1, <2>7, <3>1 DEF ClockBehind, Seen
    <3> QED BY <2>12, <3>1, <3>2
  <2>14. l <= now /\ now < l + Interval + MaxLag
    BY <1>2, <2>6, <2>8, <2>11 DEF Finds
  <2>15. ~ IsWon(p) /\ (IsWon(q) <=> q.answer = "allowed") /\ (IsWon(q) => s.answer = "allowed")
    BY <2>4 DEF IsWon
  <2>16. row'.count <= n
    BY <1>3, <2>4, <2>8
  <2>17. IsWon(q) => n >= 1 /\ row'.count = n - 1 /\ q.at = now /\ q.filed = l
    BY <2>4, <2>8, <2>15
  <2>18. Holds(row)' /\ (IsWon(q) => Quota(Cardinality(WonSince(now - Span + 1)) + 1))
    BY <1>1, <1>2, <2>1, <2>2, <2>4, <2>8, <2>12, <2>13, <2>14, <2>15, <2>16, <2>17, BucketTaken
  <2>19. \A d \in Callers : d # c => call'[d] = call[d]
    BY <2>4 DEF Onestep
  <2>20. ASSUME NEW d \in Callers, IsWon(call'[d]) PROVE call'[d].filed <= call'[d].at
    BY <2>2, <2>9, <2>14, <2>17, <2>19, <2>20
  <2>21. ASSUME "clockBehind" \notin leaks' PROVE InTurn'
    <3>1. InTurn
      BY <1>1, <1>4, <1>5, <2>5, <2>21
    <3>2. ASSUME NEW d \in Callers, NEW e \in Callers, IsWon(call'[d]), IsWon(call'[e]),
                 call'[d].at < call'[e].at
          PROVE  call'[d].filed <= call'[e].filed
      <4>1. CASE d # c /\ e # c
        BY <2>19, <3>1, <3>2, <4>1 DEF InTurn
      <4>2. CASE d # c /\ e = c
        BY <2>2, <2>13, <2>17, <2>19, <2>21, <3>2, <4>2
      <4>3. CASE d = c /\ e # c
        BY <1>2, <2>2, <2>17, <2>19, <3>2, <4>3
      <4>4. CASE d = c /\ e = c
        BY <2>2, <2>17, <3>2, <4>4
      <4> QED BY <4>1, <4>2, <4>3, <4>4
    <3> QED BY <3>2 DEF InTurn
  <2>22. BucketCounts'
    BY <2>18, <2>20, <2>21 DEF BucketCounts
  <2> QED BY <2>18, <2>22
<1> QED BY <1>1, <1>7, <1>8, <1>9, <1>10, <1>11

-----------------------------------------------------------------------------
(* The quota, in every store and strategy                                  *)

\* What the row of each kind says of the hits that count.
RowCounts ==
    /\ SlidingCounts /\ FixedCounts /\ WindowCounts /\ BucketCounts
    /\ WindowRounds /\ LockedRow

Admits == \A c \in Callers : Adds(c) /\ call'[c].answer = "allowed" /\ Clean' =>
              Quota(Cardinality(WonSince(now - Span + 1)) + 1)

\* One of the four kinds is the store's; the others claim nothing.
LEMMA KindsKeep ==
    ASSUME Base, RowCounts, [Next]_vars
    PROVE  RowCounts' /\ Admits
<1>1. /\ Base' /\ backend' = backend /\ strategy' = strategy /\ Setting
      /\ SlidingCounts /\ FixedCounts /\ WindowCounts /\ BucketCounts /\ WindowRounds /\ LockedRow
  BY Forms DEF RowCounts, Base
<1>2. WindowRounds' /\ LockedRow'
  BY <1>1, WindowRoundsKeep, LockedKeeps
<1>3. CASE Exact
  <2>1. SlidingCounts' /\ Admits
    BY <1>1, <1>3, SlidingKeeps DEF Admits
  <2>2. ~ Counter' /\ ~ Windowed' /\ strategy' # "TOKEN_BUCKET"
    BY <1>1, <1>3 DEF Counter, Windowed, Exact, Weighted
  <2>3. FixedCounts' /\ WindowCounts' /\ BucketCounts'
    BY <2>2 DEF FixedCounts, WindowCounts, BucketCounts
  <2> QED BY <1>2, <2>1, <2>3 DEF RowCounts
<1>4. CASE Counter
  <2>1. FixedCounts' /\ Admits
    BY <1>1, <1>4, FixedKeeps DEF Admits
  <2>2. ~ Exact' /\ ~ Windowed' /\ strategy' # "TOKEN_BUCKET"
    BY <1>1, <1>4 DEF Counter, Windowed, Exact, Weighted
  <2>3. SlidingCounts' /\ WindowCounts' /\ BucketCounts'
    BY <2>2 DEF SlidingCounts, WindowCounts, BucketCounts
  <2> QED BY <1>2, <2>1, <2>3 DEF RowCounts
<1>5. CASE Windowed
  <2>1. WindowCounts' /\ Admits
    BY <1>1, <1>5, WindowKeeps DEF Admits
  <2>2. ~ Exact' /\ ~ Counter' /\ strategy' # "TOKEN_BUCKET"
    BY <1>1, <1>5 DEF Counter, Windowed, Exact, Weighted
  <2>3. SlidingCounts' /\ FixedCounts' /\ BucketCounts'
    BY <2>2 DEF SlidingCounts, FixedCounts, BucketCounts
  <2> QED BY <1>2, <2>1, <2>3 DEF RowCounts
<1>6. CASE strategy = "TOKEN_BUCKET"
  <2>1. BucketCounts' /\ Admits
    BY <1>1, <1>6, BucketKeeps DEF Admits
  <2>2. ~ Exact' /\ ~ Counter' /\ ~ Windowed'
    BY <1>1, <1>6 DEF Counter, Windowed, Exact, Weighted
  <2>3. SlidingCounts' /\ FixedCounts' /\ WindowCounts'
    BY <2>2 DEF SlidingCounts, FixedCounts, WindowCounts
  <2> QED BY <1>2, <2>1, <2>3 DEF RowCounts
<1>7. Exact \/ Counter \/ Windowed \/ strategy = "TOKEN_BUCKET"
  BY <1>1 DEF Setting, Strategies, Exact, Counter, Windowed, Weighted
<1> QED BY <1>3, <1>4, <1>5, <1>6, <1>7

\* At the beginning nobody has been admitted.
LEMMA AdmissionInit == Init => AdmissionBounded
<1> SUFFICES ASSUME Init, NEW x \in 0..now PROVE Quota(Cardinality(Admitted(x)))
  BY DEF AdmissionBounded
<1>1. Setting
  BY BaseInit DEF Base
<1>2. Admitted(x) = {}
  BY DEF Init, Idle, Admitted
<1>3. Cardinality(Admitted(x)) = 0
  BY <1>2, FS_EmptySet
<1>4. PICK n \in Nat : n = 0
  OBVIOUS
<1>5. Quota(n)
  <2>1. PICK g \in Nat : g = Greatest(Window, 2 * Window - 2)
    BY Constants DEF Greatest
  <2>2. PICK m \in Nat : m = Limit * g
    BY <2>1, Constants
  <2>3. PICK k \in Nat : k = n * Window /\ k = 0
    BY <1>4, Constants
  <2>4. Weighted => Quota(n)
    BY <2>1, <2>2, <2>3 DEF Quota, Weighted
  <2>5. ~ Weighted => Quota(n)
    BY <1>1, <1>4, Constants DEF Quota, Setting, Strategies
  <2> QED BY <2>4, <2>5
<1> QED BY <1>3, <1>4, <1>5

\* No interleaving of increments, undos, clean-ups and failures admits a client beyond the
\* quota of its strategy in the span of a window or an interval, in any of the four stores,
\* unless hits were lost in one of the ways that the model names.
THEOREM AdmissionCorrect == Spec => []AdmissionBounded
<1>1. Init => Base /\ RowCounts /\ AdmissionBounded
  BY BaseInit, SlidingInit, FixedInit, WindowInit, BucketInit, LockedInit, RoundsInit,
     AdmissionInit DEF RowCounts
<1>2. Base /\ RowCounts /\ AdmissionBounded /\ [Next]_vars
      => (Base /\ RowCounts /\ AdmissionBounded)'
  <2> SUFFICES ASSUME Base, RowCounts, AdmissionBounded, [Next]_vars
               PROVE  (Base /\ RowCounts /\ AdmissionBounded)'
    OBVIOUS
  <2>1. Base'
    BY NextKeeps
  <2>2. RowCounts' /\ Admits
    BY KindsKeep
  <2>3. AdmissionBounded'
    BY <2>2, QuotaKeeps DEF Admits
  <2> QED BY <2>1, <2>2, <2>3
<1> QED BY <1>1, <1>2, PTL DEF Spec

=============================================================================
