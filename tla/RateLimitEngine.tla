--------------------------- MODULE RateLimitEngine --------------------------
(***************************************************************************)
(* A request on its way through the middleware: RateLimitEngine's          *)
(* consumeWithKey, with its penalty box, grouped windows and draft mode;   *)
(* the store or the stores it asks, behind an InMemoryShield where there   *)
(* is one; and the decrement after the response that skipFailedRequests    *)
(* and skipSuccessfulRequests ask for.  Requests of one process run        *)
(* concurrently; each cost is 1.                                           *)
(***************************************************************************)
EXTENDS InMemoryShield, FiniteSets, FiniteSetsExt

CONSTANTS
    Requests, Keys,
    Layouts,        \* the configurations to look at, see TypeOK
    Cap,            \* limit of each slot
    Window,         \* length of each slot's window (or bucket interval), in ticks
    PenaltyTime,    \* penaltyDurationMs, in ticks
    MaxTime,
    MaxTroubles     \* store failures and admin resets of a behaviour

\* Grouped windows have stores of their own: a shield wraps the only store of its limiter.
ASSUME EngineAssumption ==
    /\ IsFiniteSet(Requests)
    /\ Cap \in Seq(Nat \ {0}) /\ Window \in Seq(Nat \ {0}) /\ Len(Cap) = Len(Window)
    /\ Layouts \subseteq [slots : 1..Len(Cap), shield : {"none", "reset", "duration"},
                          draft : BOOLEAN, strategy : {"window", "bucket"},
                          threshold : Nat \ {0}]
    /\ \A x \in Layouts : x.shield # "none" => x.slots = 1
    /\ PenaltyTime \in Nat \ {0}
    /\ MaxTime \in Nat /\ MaxTroubles \in Nat

VARIABLES
    layout,
    now,
    rows,           \* per slot and key, the count of the inner store and its resetTime
    cache,          \* of the shield
    req,            \* per request, see Idle
    counted,        \* per request, the <<slot, resetTime>> of the windows that counted it
    violations, penaltyUntil,   \* per key, see recordViolation
    penalties,      \* how often each key was put into the penalty box
    resetting,      \* keys whose reset() is on its way to the inner store
    troubles,
    faults          \* ways in which a count or a block has gone wrong so far

vars == <<layout, now, rows, cache, req, counted, violations, penaltyUntil, penalties,
          resetting, troubles, faults>>

Slots == 1..layout.slots
NoRow == [count |-> 0, reset |-> 0]

\* pc: "idle", "asked" (the store of slot), "answered" (the promise is about to resolve),
\* "undo" (the slots in todo are decremented before the outcome is known to the
\* middleware), "admitted" (the response is being made), "refund" (after the response),
\* "done".  result: what the store answered; back: the slots already undone.
NoAnswer == [blocked |-> FALSE, unavailable |-> FALSE, threw |-> FALSE, hits |-> 0, reset |-> 0]
Idle == [pc |-> "idle", key |-> "none", slot |-> 0, todo |-> {}, back |-> {},
         result |-> NoAnswer, outcome |-> "none"]

\* "masked", "undrafted": a slot refused, but a slot before it had failed open, and the
\* merged result is that one's.
Outcomes == {"none", "allowed", "skipped", "failOpen", "draft", "blocked", "unavailable",
             "threw", "refused", "refunded", "masked", "undrafted"}

TypeOK ==
    /\ layout.slots \in 1..Len(Cap) /\ layout.shield \in {"none", "reset", "duration"}
    /\ layout.draft \in BOOLEAN /\ layout.threshold \in Nat \ {0}
    /\ layout.strategy \in {"window", "bucket"}
    /\ \A s \in Slots, k \in Keys : rows[s][k].count \in 0..Cardinality(Requests)
    /\ MaxBlockedKeys > 0 => Len(cache) <= MaxBlockedKeys
    /\ \A i, j \in DOMAIN cache : cache[i].key = cache[j].key => i = j
    /\ \A r \in Requests :
          /\ req[r].pc \in {"idle", "asked", "answered", "undo", "admitted", "refund", "done"}
          /\ req[r].todo \subseteq Slots /\ req[r].back \subseteq Slots /\ req[r].outcome \in Outcomes
    /\ \A k \in Keys : violations[k] \in 0..(layout.threshold - 1)

Init ==
    /\ layout \in Layouts /\ now = 0
    /\ rows = [s \in Slots |-> [k \in Keys |-> NoRow]]
    /\ cache = << >> /\ req = [r \in Requests |-> Idle]
    /\ counted = [r \in Requests |-> {}]
    /\ violations = [k \in Keys |-> 0] /\ penaltyUntil = [k \in Keys |-> 0]
    /\ penalties = [k \in Keys |-> 0] /\ resetting = {} /\ troubles = 0 /\ faults = {}

\* Mutant of Count: a window is taken as over one tick before its resetTime.
BugCountEndsEarly(s, k) == IF now + 1 < rows[s][k].reset THEN rows[s][k].count ELSE 0

\* The store as the engine sees it: a window that restarts at its resetTime, or a bucket
\* that one interval refills.
Count(s, k) == IF now < rows[s][k].reset THEN rows[s][k].count ELSE 0
Reset(s, k) == IF now < rows[s][k].reset THEN rows[s][k].reset ELSE now + Window[s]

-----------------------------------------------------------------------------
(* consumeWithKey up to its first await *)

\* skip() or the allowlist, in the engine: the request passes, nothing is counted.
Passthrough(r, k) ==
    /\ req[r].pc = "idle"
    /\ req' = [req EXCEPT ![r] = [@ EXCEPT !.pc = "admitted", !.key = k,
                                           !.outcome = "skipped"]]
    /\ UNCHANGED <<layout, now, rows, cache, counted, violations, penaltyUntil, penalties,
                   resetting, troubles, faults>>

\* Hono and NestJS ask skip() themselves: such a request never reaches the engine.
SkipBeforeEngine(r, k) ==
    /\ req[r].pc = "idle"
    /\ req' = [req EXCEPT ![r] = [@ EXCEPT !.pc = "done", !.key = k, !.outcome = "skipped"]]
    /\ UNCHANGED <<layout, now, rows, cache, counted, violations, penaltyUntil, penalties,
                   resetting, troubles, faults>>

\* An entry that is over is as good as none: deleting it, here or in a sweep, never shows.
IsPenaltyActive(k) == now < penaltyUntil[k]

\* The blocklist, KeyManager.isBlocked or the penalty box: the store is not asked.
Refuse(r, k) ==
    /\ req[r].pc = "idle" /\ IsPenaltyActive(k)
    /\ req' = [req EXCEPT ![r] = [@ EXCEPT !.pc = "done", !.key = k, !.outcome = "refused"]]
    /\ UNCHANGED <<layout, now, rows, cache, counted, violations, penaltyUntil, penalties,
                   resetting, troubles, faults>>

\* The shield's cached answer, or the promise of the (first) store.
Consume(r, k) ==
    /\ req[r].pc = "idle" /\ ~ IsPenaltyActive(k)
    /\ LET asked == [req[r] EXCEPT !.key = k, !.slot = 1] IN
       IF layout.shield # "none" /\ IsShielded(cache, k, now)
       THEN /\ req' = [req EXCEPT ![r] = [asked EXCEPT !.pc = "answered",
                                                       !.result.blocked = TRUE]]
            /\ UNCHANGED cache
       ELSE /\ req' = [req EXCEPT ![r] = [asked EXCEPT !.pc = "asked"]]
            /\ cache' = IF layout.shield = "none" THEN cache ELSE Unshield(cache, k)
    /\ UNCHANGED <<layout, now, rows, counted, violations, penaltyUntil, penalties, resetting,
                   troubles, faults>>

-----------------------------------------------------------------------------
(* The inner store *)

\* A window counts every hit, a bucket only those that it allows.
Executes(r) ==
    /\ req[r].pc = "asked"
    /\ LET s == req[r].slot  k == req[r].key
           blocked == Count(s, k) + 1 > Cap[s]
           counts == layout.strategy = "window" \/ ~blocked
           row == [count |-> IF counts THEN Count(s, k) + 1 ELSE Count(s, k),
                   reset |-> Reset(s, k)]
       IN /\ rows' = [rows EXCEPT ![s][k] = row]
          /\ counted' = IF counts THEN [counted EXCEPT ![r] = @ \union {<<s, row.reset>>}]
                      ELSE counted
          /\ req' = [req EXCEPT ![r].pc = "answered",
                        ![r].result = [blocked |-> blocked, unavailable |-> FALSE,
                            threw |-> FALSE, hits |-> row.count, reset |-> row.reset]]
    /\ UNCHANGED <<layout, now, cache, violations, penaltyUntil, penalties, resetting,
                   troubles, faults>>

\* The store cannot be reached: it rejects, or answers as onRedisError says.
Fails(r) ==
    /\ req[r].pc = "asked" /\ troubles < MaxTroubles
    /\ \E blocked, threw \in BOOLEAN :
          req' = [req EXCEPT ![r].pc = "answered",
                     ![r].result = [blocked |-> blocked /\ ~threw, unavailable |-> ~threw,
                         threw |-> threw, hits |-> 0, reset |-> now]]
    /\ troubles' = troubles + 1
    /\ UNCHANGED <<layout, now, rows, cache, counted, violations, penaltyUntil, penalties,
                   resetting, faults>>

\* inner.decrement; the error of one that fails is ignored.  The hit is not the request's
\* own if its window has gone, if it was never counted, or if it was taken back before.
DecrementRow(r, s) ==
    LET k == req[r].key
        own == /\ <<s, rows[s][k].reset>> \in counted[r]
               /\ s \notin req[r].back
    IN
    \/ /\ rows' = [rows EXCEPT ![s][k].count = IF Count(s, k) > 0 THEN @ - 1 ELSE @]
       /\ faults' = faults
            \union (IF ~own /\ Count(s, k) > 0 THEN {"tookOther"} ELSE {})
            \union (IF IsShielded(cache, k, now) THEN {"loweredBehindShield"} ELSE {})
       /\ UNCHANGED troubles
    \/ /\ troubles < MaxTroubles /\ troubles' = troubles + 1
       /\ faults' = faults \union {"undoLost"}
       /\ UNCHANGED rows

-----------------------------------------------------------------------------
(* consumeWithKey after the answer *)

\* mergeGroupedResults: a slot that failed open speaks for all, whatever blocks after it.
OutcomeOf(r) ==
    LET answer == req[r].result
        defers == layout.draft /\ ~answer.unavailable
    IN IF answer.threw THEN "threw"
       ELSE IF answer.blocked /\ req[r].outcome = "failOpen"
            THEN (IF defers THEN "undrafted" ELSE "masked")
       ELSE IF answer.blocked /\ answer.unavailable THEN "unavailable"
       ELSE IF answer.blocked THEN (IF defers THEN "draft" ELSE "blocked")
       ELSE IF answer.unavailable \/ req[r].outcome = "failOpen" THEN "failOpen"
       ELSE "allowed"

\* Mutant of ToUndo: a store that throws leaves the slots before it counted.
BugKeepsOnError(r) ==
    LET answer == req[r].result IN
    IF ~answer.blocked \/ OutcomeOf(r) = "undrafted" THEN {}
    ELSE IF OutcomeOf(r) = "draft" THEN 1..req[r].slot
    ELSE 1..(req[r].slot - 1)

\* The slots to undo: a block or a failure takes back the slots before it.  Draft mode
\* defers that to consumeWithKey, which takes back all of them, or none where the merged
\* result does not say that one blocked.
ToUndo(r) ==
    LET answer == req[r].result IN
    IF ~(answer.blocked \/ answer.threw) \/ OutcomeOf(r) = "undrafted" THEN {}
    ELSE IF OutcomeOf(r) = "draft" THEN 1..req[r].slot
    ELSE 1..(req[r].slot - 1)

\* The shield caches what reached blockOnConsumed (a cached answer has hits 0 here), then
\* the engine goes on: to the next slot, to the handler, or to undoing.  decrement() of the
\* shield drops the entry before it asks the inner store.
Deliver(r) ==
    /\ req[r].pc = "answered"
    /\ LET k == req[r].key  answer == req[r].result
           caches == layout.shield # "none" /\ answer.hits >= BlockOnConsumed
           cached == IF caches THEN CacheBlock(cache, k, answer, layout.shield, now) ELSE cache
           refused == answer.blocked \/ answer.threw
           more == ~refused /\ req[r].slot < layout.slots
       IN /\ cache' = IF layout.shield # "none" /\ ToUndo(r) # {} THEN Unshield(cached, k)
                      ELSE cached
          /\ faults' = IF caches /\ Count(1, k) < BlockOnConsumed
                       THEN faults \union {"lateAnswer"} ELSE faults
          /\ req' = [req EXCEPT ![r].outcome = OutcomeOf(r), ![r].todo = ToUndo(r),
                        ![r].result = NoAnswer,
                        ![r].slot = IF more THEN @ + 1 ELSE @,
                        ![r].pc = IF refused THEN "undo" ELSE IF more THEN "asked"
                                  ELSE "admitted"]
    /\ UNCHANGED <<layout, now, rows, counted, violations, penaltyUntil, penalties,
                   resetting, troubles>>

\* The loops of consumeGroupedWindows and of draft mode: one slot after the other.
Undo(r) ==
    /\ req[r].pc = "undo" /\ req[r].todo # {}
    /\ LET s == Min(req[r].todo) IN
       /\ DecrementRow(r, s)
       /\ req' = [req EXCEPT ![r].todo = @ \ {s}, ![r].back = @ \union {s}]
    /\ UNCHANGED <<layout, now, cache, counted, violations, penaltyUntil, penalties, resetting>>

RecordViolation(k) ==
    IF violations[k] + 1 >= layout.threshold
    THEN /\ penaltyUntil' = [penaltyUntil EXCEPT ![k] = now + PenaltyTime]
         /\ violations' = [violations EXCEPT ![k] = 0]
         /\ penalties' = [penalties EXCEPT ![k] = @ + 1]
    ELSE /\ violations' = [violations EXCEPT ![k] = @ + 1]
         /\ UNCHANGED <<penaltyUntil, penalties>>

\* Mutant of Violates: an outage counts against the client.
BugOutageIsViolation(r) == req[r].outcome \in {"blocked", "unavailable"}

\* isBlocked && !storeUnavailable, where draft mode has returned already.
Violates(r) == req[r].outcome = "blocked"

\* Draft mode lets the request through, and so does a result that is not marked as blocked;
\* a store that threw goes to next(err).
Conclude(r) ==
    /\ req[r].pc = "undo" /\ req[r].todo = {}
    /\ req' = [req EXCEPT ![r].pc = IF req[r].outcome \in {"draft", "masked", "undrafted"}
                                    THEN "admitted" ELSE "done"]
    /\ IF Violates(r) THEN RecordViolation(req[r].key)
       ELSE UNCHANGED <<violations, penaltyUntil, penalties>>
    /\ UNCHANGED <<layout, now, rows, cache, counted, resetting, troubles, faults>>

-----------------------------------------------------------------------------
(* The middleware, after the response *)

\* No rule applies, or the connection is aborted and 'finish' never fires.
Respond(r) ==
    /\ req[r].pc = "admitted"
    /\ req' = [req EXCEPT ![r].pc = "done"]
    /\ UNCHANGED <<layout, now, rows, cache, counted, violations, penaltyUntil, penalties,
                   resetting, troubles, faults>>

\* decrementStoresAfterConsume, for every request that the engine let through.
RespondAndRefund(r) ==
    /\ req[r].pc = "admitted"
    /\ req' = [req EXCEPT ![r].pc = "refund", ![r].todo = Slots]
    /\ cache' = IF layout.shield # "none" THEN Unshield(cache, req[r].key) ELSE cache
    /\ UNCHANGED <<layout, now, rows, counted, violations, penaltyUntil, penalties,
                   resetting, troubles, faults>>

\* The decrements of the slots are on their way together.
Refund(r) ==
    /\ req[r].pc = "refund"
    /\ \E s \in req[r].todo :
          /\ DecrementRow(r, s)
          /\ req' = [req EXCEPT ![r].todo = @ \ {s},
                        ![r].pc = IF req[r].todo = {s} THEN "done" ELSE @,
                        ![r].outcome = IF @ \in {"allowed", "failOpen", "masked", "undrafted"}
                                      THEN "refunded" ELSE @]
    /\ UNCHANGED <<layout, now, cache, counted, violations, penaltyUntil, penalties, resetting>>

-----------------------------------------------------------------------------
(* Administration, timers and time *)

\* reset(key) or delete(key) of the shielded store: the entry goes now, the row later.
AdminReset(k) ==
    /\ troubles < MaxTroubles /\ troubles' = troubles + 1 /\ k \notin resetting
    /\ resetting' = resetting \union {k}
    /\ cache' = Unshield(cache, k)
    /\ UNCHANGED <<layout, now, rows, req, counted, violations, penaltyUntil, penalties, faults>>

ResetRow(k) ==
    /\ k \in resetting /\ resetting' = resetting \ {k}
    /\ rows' = [rows EXCEPT ![1][k] = NoRow]
    /\ counted' = [r \in Requests |-> IF req[r].key = k THEN {c \in counted[r] : c[1] # 1}
                                      ELSE counted[r]]
    /\ faults' = IF IsShielded(cache, k, now) THEN faults \union {"loweredBehindShield"}
                 ELSE faults
    /\ UNCHANGED <<layout, now, cache, req, violations, penaltyUntil, penalties, troubles>>

\* The sweep timer of the shield.
SweepShield ==
    /\ cache # << >> /\ cache' = Sweep(cache, now) /\ cache' # cache
    /\ UNCHANGED <<layout, now, rows, req, counted, violations, penaltyUntil, penalties,
                   resetting, troubles, faults>>

\* violationWindowMs has passed since the violations of k.
ForgetViolations(k) ==
    /\ violations[k] > 0 /\ violations' = [violations EXCEPT ![k] = 0]
    /\ UNCHANGED <<layout, now, rows, cache, req, counted, penaltyUntil, penalties,
                   resetting, troubles, faults>>

Tick ==
    /\ now < MaxTime /\ now' = now + 1
    /\ UNCHANGED <<layout, rows, cache, req, counted, violations, penaltyUntil, penalties,
                   resetting, troubles, faults>>

Next ==
    \/ \E r \in Requests :
          \/ \E k \in Keys : Passthrough(r, k) \/ SkipBeforeEngine(r, k) \/ Refuse(r, k)
                          \/ Consume(r, k)
          \/ Executes(r) \/ Fails(r) \/ Deliver(r) \/ Undo(r) \/ Conclude(r)
          \/ Respond(r) \/ RespondAndRefund(r) \/ Refund(r)
    \/ \E k \in Keys : AdminReset(k) \/ ResetRow(k) \/ ForgetViolations(k)
    \/ SweepShield \/ Tick

Spec == Init /\ [][Next]_vars

-----------------------------------------------------------------------------
(* Properties *)

Of(k) == {r \in Requests : req[r].pc # "idle" /\ req[r].key = k}
CountedIn(r, s, k) == <<s, rows[s][k].reset>> \in counted[r]

\* The slots in which a settled request is to stay counted, if they counted it.
Charged(r) ==
    IF req[r].outcome \in {"allowed", "failOpen", "undrafted"} THEN Slots
    ELSE IF req[r].outcome \in {"blocked", "masked"} THEN {req[r].slot}
    ELSE {}

\* Once all requests of a key have settled, each window that is still open counts exactly
\* those that are to stay charged: every slot for an allowed request, the slot that blocked
\* for a blocked one, nothing after a draft, an error or a refund.  A block that the outage
\* of an earlier slot masked is charged as a block outside draft mode and as an allowed
\* request in it.  Except where a decrement was lost, or hit a window in which its request
\* had not been counted.
RollbackExact ==
    faults \cap {"tookOther", "undoLost"} = {} =>
        \A k \in Keys, s \in Slots :
            (\A r \in Of(k) : req[r].pc = "done") =>
                Count(s, k) = IF now < rows[s][k].reset
                              THEN Cardinality({r \in Of(k) : CountedIn(r, s, k)
                                                               /\ s \in Charged(r)})
                              ELSE 0

\* The slot answered that the request is within its limit, and the request went on.
LetThrough(r, s) ==
    /\ req[r].pc \in {"admitted", "done"}
    /\ \/ req[r].outcome \in {"allowed", "failOpen"}
       \/ req[r].outcome = "undrafted" /\ s # req[r].slot

\* The requests that one open window of a slot has let through never exceed its limit,
\* whatever rollbacks, refunds and resets run beside them, unless a decrement took back
\* the hit of another request.  (A request that the window refused may still be served, in
\* draft mode or where the outage of an earlier slot masks the refusal.)
AdmissionBounded ==
    "tookOther" \notin faults =>
        \A k \in Keys, s \in Slots :
            now < rows[s][k].reset =>
                Cardinality({r \in Of(k) : LetThrough(r, s) /\ CountedIn(r, s, k)}) <= Cap[s]

\* Draft mode leaves nothing of a request that some slot refused: the window counts no more
\* than the requests that every slot allowed, unless a decrement was lost.
DraftLeavesNothing ==
    layout.draft /\ faults \cap {"tookOther", "undoLost"} = {} =>
        \A k \in Keys, s \in Slots :
            (\A r \in Of(k) : req[r].pc = "done") =>
                Count(s, k) <= Cardinality({r \in Of(k) : req[r].outcome \notin
                                                              {"draft", "undrafted"}})

\* A shield without a block duration of its own never turns away a key whose open window
\* holds less than blockOnConsumed hits, unless the answer it cached was overtaken, or a
\* decrement or reset reached the store only after the key was cached again.
ShieldHonest ==
    layout.shield = "reset" /\ faults \cap {"lateAnswer", "loweredBehindShield"} = {} =>
        \A k \in Keys : IsShielded(cache, k, now) => Count(1, k) >= BlockOnConsumed

\* The penalty box is earned: violationsThreshold requests of the key itself were over a
\* limit for each penalty, and outages, drafts and errors never count.
PenaltyDeserved ==
    \A k \in Keys :
        Cardinality({r \in Of(k) : req[r].outcome = "blocked"})
            >= layout.threshold * penalties[k] + violations[k]

\* A request that skip() or the allowlist exempts leaves every count alone.
SkipLeavesCounts ==
    [][\A r \in Requests :
          req[r].outcome = "skipped" /\ req'[r] # req[r] => rows' = rows]_vars

=============================================================================
