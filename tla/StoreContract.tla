---------------------------- MODULE StoreContract ----------------------------
(***************************************************************************)
(* What a local RateLimitStore promises: every key has a quota of its own, *)
(* in which hits stay for their window and tokens come back by interval.   *)
(* There is no map, no order of keys and no clean-up here.  A key may lose *)
(* its quota only when another key without hits is given some.             *)
(***************************************************************************)
EXTENDS StoreRows

CONSTANTS Keys, Costs, MaxSet

VARIABLES
    strategy,
    quota,      \* per key: live hits (times of a sliding window, or their number)
                \* and when they end (at); Free without hits
    last,       \* the last call that may change quotas
    answer,     \* of the last increment
    now

vars == <<strategy, quota, last, answer, now>>

Free == [hits |-> << >>, used |-> 0, at |-> -1]

Sliding == strategy = "SLIDING_WINDOW"
Fixed == strategy = "FIXED_WINDOW"
Bucket == strategy = "TOKEN_BUCKET"

Quota(hits, used, at) == IF hits = << >> /\ used = 0 THEN Free
                         ELSE [hits |-> hits, used |-> used, at |-> at]

\* A quota as it is at time t.
At(q, t) ==
    IF q = Free THEN Free
    ELSE CASE Sliding -> IF q.at >= 0 /\ t >= q.at THEN Free
                         ELSE Quota(Prune(q.hits, t - Window), 0, q.at)
           [] Fixed -> IF t >= q.at THEN Free ELSE q
           [] Bucket -> LET r == Refill(BucketSize - q.used, q.at, t) IN
                        Quota(<< >>, BucketSize - r.tokens, r.last)

Init ==
    /\ strategy \in {"SLIDING_WINDOW", "FIXED_WINDOW", "TOKEN_BUCKET"}
    /\ quota = [k \in Keys |-> Free]
    /\ last = <<"none">> /\ answer = "none" /\ now = 0

\* Key k gets quota q; other keys may lose theirs, if k had none.
Becomes(k, q) ==
    /\ quota'[k] = q
    /\ \A x \in Keys \ {k} : \/ quota'[x] = quota[x]
                             \/ quota'[x] = Free /\ quota[k] = Free

\* The window of a first hit ends within Window, and a full bucket's interval has begun
\* within Interval.
Take(k, cost) ==
    /\ last' = <<"increment", k>>
    /\ \/ /\ Sliding
          /\ LET hits == quota[k].hits \o Copies(cost, now) IN
             /\ answer' = Verdict(Len(hits) > Limit)
             /\ Becomes(k, Quota(hits, 0, -1))
       \/ /\ Fixed
          /\ answer' = Verdict(quota[k].used + cost > Limit)
          /\ \E end \in IF quota[k] = Free THEN (now + 1)..(now + Window)
                        ELSE {quota[k].at} :
                Becomes(k, Quota(<< >>, quota[k].used + cost, end))
       \/ /\ Bucket
          /\ \E begin \in IF quota[k] = Free THEN (now - Interval + 1)..now
                          ELSE {quota[k].at} :
                LET taken == TakeTokens([tokens |-> BucketSize - quota[k].used,
                                         last |-> begin], cost)
                IN /\ answer' = Verdict(taken.blocked)
                   /\ Becomes(k, Quota(<< >>, BucketSize - taken.tokens, begin))

\* A decrement may find that the hit it takes is no longer live.
GiveBack(k, cost) ==
    /\ last' = <<"decrement", k>>
    /\ \E n \in 0..cost, newest \in BOOLEAN :
          LET q == quota[k] IN
          quota' = [quota EXCEPT ![k] =
                      Quota(DropHits(q.hits, n, newest), Greatest(0, q.used - n), q.at)]
    /\ UNCHANGED answer

\* reset() and delete() of one key, resetAll() and shutdown() of all.
Clear(keys) ==
    /\ last' = <<"clear", keys>>
    /\ quota' = [k \in Keys |-> IF k \in keys THEN Free ELSE quota[k]]
    /\ UNCHANGED answer

Assign(k, n) ==
    /\ last' = <<"set", k>>
    /\ \E end \in {-1} \union (now + 1)..(now + Window) :
          Becomes(k, CASE Sliding -> Quota(Copies(n, now), 0, end)
                       [] Fixed -> Quota(<< >>, n, end)
                       [] Bucket -> Quota(<< >>, Least(n, BucketSize), now))
    /\ UNCHANGED answer

Tick ==
    /\ now' = now + 1
    /\ quota' = [k \in Keys |-> At(quota[k], now')]
    /\ UNCHANGED <<last, answer>>

Next ==
    /\ UNCHANGED strategy
    /\ \/ /\ UNCHANGED now
          /\ \/ \E k \in Keys, c \in Costs : Take(k, c) \/ GiveBack(k, c)
             \/ \E keys \in {{k} : k \in Keys} \union {Keys} : Clear(keys)
             \/ \E k \in Keys, n \in 0..MaxSet : Assign(k, n)
       \/ Tick

Spec == Init /\ [][Next]_vars

=============================================================================
