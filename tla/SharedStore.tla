---------------------------- MODULE SharedStore ----------------------------
(***************************************************************************)
(* Callers on one client's quota in a shared store.  The four stores have  *)
(* the same operations; which store and which strategy run is chosen in    *)
(* Init and never changes.  A caller reads its own clock when it calls and *)
(* its statements reach the server later, one at a time, among those of    *)
(* other callers; up to MaxLag ticks pass between the two.                 *)
(***************************************************************************)
EXTENDS StoreRows, FiniteSets

CONSTANTS
    Callers,        \* each makes one increment and may undo it once
    Backends,       \* of "redis", "postgres", "mongo", "dynamo"
    MaxAttempts,    \* rounds of DynamoDB's loops (24 and 12 in the code)
    MaxTime, MaxLag,
    MaxEvents       \* failed statements, reset(), delete() and set() calls of a behaviour

ASSUME SharedAssumption ==
    /\ IsFiniteSet(Callers) /\ "no caller" \notin Callers
    /\ Backends \subseteq {"redis", "postgres", "mongo", "dynamo"}
    /\ MaxAttempts \in Nat \ {0, 1} /\ MaxTime \in Nat /\ MaxEvents \in Nat
    /\ MaxLag \in 0..(Window - 1) /\ MaxLag < Interval

Redis == INSTANCE RedisScripts
Pg == INSTANCE PgStore
Mongo == INSTANCE MongoStore
Dynamo == INSTANCE DynamoStore

VARIABLES
    backend, strategy,
    row,        \* the client's row, document, item or key
    now,        \* the server's clock
    lock,       \* the caller whose transaction holds the row (Postgres), or NoCaller
    call,       \* per caller, the increment or undo it is in, and what came of it
    admin,      \* reset(), delete() and set() calls so far
    errors,     \* failed statements so far
    leaks       \* ways in which the store has lost or invented hits so far

vars == <<backend, strategy, row, now, lock, call, admin, errors, leaks>>

Strategies == {"SLIDING_WINDOW", "FIXED_WINDOW", "TOKEN_BUCKET"}
NoCaller == "no caller"

\* op, t, leg, round, seen, cost and newest are the call's own; answer, at (server time
\* of the hit), filed (the time stamp or window it is filed under) and gone (undone, or
\* wiped by an operator) are kept to state the properties.
Idle == [op |-> "none", t |-> 0, leg |-> "end", round |-> 1, seen |-> NoRow, cost |-> 1,
         newest |-> FALSE, answer |-> "none", at |-> 0, filed |-> 0, gone |-> FALSE]

\* A call that is over and of no more consequence.
Undone == [Idle EXCEPT !.op = "undo", !.answer = "allowed", !.gone = TRUE]

IncrementStep(c) ==
    CASE backend = "redis" -> Redis!IncrementStep(strategy, row, call[c], now)
      [] backend = "postgres" -> Pg!IncrementStep(strategy, row, call[c], now)
      [] backend = "mongo" -> Mongo!IncrementStep(strategy, row, call[c], now)
      [] backend = "dynamo" -> Dynamo!IncrementStep(strategy, row, call[c], now)

DecrementStep(c) ==
    CASE backend = "redis" -> Redis!DecrementStep(strategy, row, call[c], now)
      [] backend = "postgres" -> Pg!DecrementStep(strategy, row, call[c], now)
      [] backend = "mongo" -> Mongo!DecrementStep(strategy, row, call[c], now)
      [] backend = "dynamo" -> Dynamo!DecrementStep(strategy, row, call[c], now)

SetRow(n) ==
    CASE backend = "redis" -> Redis!SetRow(strategy, n, now, now)
      [] backend = "postgres" -> Pg!SetRow(strategy, n, now, now)
      [] backend = "mongo" -> Mongo!SetRow(strategy, n, now, now)
      [] backend = "dynamo" -> Dynamo!SetRow(strategy, n, now, now)

\* What get() reports now.
Preview ==
    CASE backend = "redis" -> Redis!Preview(strategy, row, now)
      [] backend = "postgres" -> Pg!Preview(strategy, row, now)
      [] backend = "mongo" -> Mongo!Preview(strategy, row, now)
      [] backend = "dynamo" -> Dynamo!Preview(strategy, row, now)

\* The server's own clean-up; Redis expires keys in the scripts' view of them.
MayExpire ==
    CASE backend = "redis" -> FALSE
      [] backend = "postgres" -> Pg!MayExpire(row, now)
      [] backend = "mongo" -> Mongo!MayExpire(row, now)
      [] backend = "dynamo" -> Dynamo!MayExpire(row, now)

\* The weighted window of DynamoDB, the only approximate strategy.
Weighted == backend = "dynamo" /\ strategy = "SLIDING_WINDOW"

\* What a hit of time t is filed under in row r: its time stamp, its window, or the
\* refill it comes after.
Exact == strategy = "SLIDING_WINDOW" /\ ~ Weighted
FiledUnder(r, t) == IF Exact THEN t
                    ELSE IF strategy = "TOKEN_BUCKET" \/ backend = "dynamo" THEN r.at
                    ELSE r.exp

Unlocked(c) == lock \in {c, NoCaller}
Pending(c) == call[c].leg # "end"

-----------------------------------------------------------------------------
(* Ways in which hits are lost or invented.                                *)

\* Two bucket transactions found no row, and the later write forgets the earlier one.
InsertRace(c) == /\ backend = "postgres" /\ call[c].leg = "upsert"
                 /\ ~ Exists(call[c].seen) /\ Exists(row)

\* A caller found no window of DynamoDB, and by its third condition there is the
\* previous one, whose hits it drops.
BoundaryRace(c) == /\ Weighted /\ call[c].leg = "restart" /\ Exists(row)
                   /\ row.at = Dynamo!Boundary(call[c].t) - Window

\* A bucket's pipeline runs with a clock before the last refill.
ClockBehind(c) == /\ backend = "mongo" /\ strategy = "TOKEN_BUCKET"
                  /\ Exists(row) /\ call[c].t < row.at

\* An undo that comes after its hit has left the row takes another caller's hit, or
\* gives back a token that the refills have given back already.
LateUndo(c) == /\ Exists(row)
               /\ \/ call[c].gone
                  \/ strategy = "TOKEN_BUCKET" /\ "clockBehind" \in leaks
                  \/ IF Exact THEN \A i \in DOMAIN row.hits : row.hits[i] # call[c].filed
                     ELSE FiledUnder(row, 0) # call[c].filed

\* An undo in a sliding window takes the oldest (or newest) hit, which may be of
\* another age than the caller's own.
ShiftedUndo(c, newest) ==
    /\ Exact /\ row.hits # << >>
    /\ row.hits[IF newest THEN Len(row.hits) ELSE 1] # call[c].filed

\* An undo whose clock is in the next window of DynamoDB does nothing, though callers
\* with a slower clock still count the hit.
MissedUndo(c) == /\ backend = "dynamo" /\ strategy # "TOKEN_BUCKET"
                 /\ Exists(row) /\ row.at < Dynamo!Boundary(call[c].t)

\* The decrement of a Postgres bucket takes a snapshot before it waits for the row's lock.
Snapshots == backend = "postgres" /\ strategy = "TOKEN_BUCKET"

\* The statement of an undo that gives the hit back.
GivesBack(c) == call[c].leg = IF Snapshots THEN "write" ELSE "start"

\* The tokens it writes were read before others changed them.
StaleUndo(c) == Snapshots /\ Exists(row) /\ row.count # call[c].seen.count

-----------------------------------------------------------------------------

\* Every field of the row, the clock and the calls has its type; no loop of DynamoDB
\* goes beyond its rounds.
TypeOK ==
    /\ backend \in Backends /\ strategy \in Strategies
    /\ row \in [hits : Seq(0..MaxTime), count : Int, prev : Int, at : Int,
                exp : -1..(MaxTime + 3 * Window + 10 * Interval)]
    /\ now \in 0..MaxTime /\ lock \in Callers \union {NoCaller}
    /\ \A c \in Callers :
          /\ call[c].op \in {"none", "incr", "undo"}
          /\ call[c].leg \in {"start", "upsert", "roll", "restart", "write", "clamp", "end"}
          /\ call[c].round \in 1..MaxAttempts
          /\ call[c].answer \in {"none", "allowed", "blocked", "failed", "threw"}
    /\ admin \in 0..MaxEvents /\ errors \in 0..MaxEvents

Init ==
    /\ backend \in Backends /\ strategy \in Strategies
    /\ row = NoRow /\ now = 0 /\ lock = NoCaller
    /\ call = [c \in Callers |-> Idle]
    /\ admin = 0 /\ errors = 0 /\ leaks = {}

\* increment() starts: the clock is read.
Increment(c) ==
    /\ call[c].op = "none"
    /\ call' = [call EXCEPT ![c].op = "incr", ![c].t = now, ![c].leg = "start"]
    /\ UNCHANGED <<backend, strategy, row, now, lock, admin, errors, leaks>>

\* decrement() after the response: of an admitted hit, or of a blocked one where
\* blocked hits are counted, taking the newest hits.
Decrement(c) ==
    /\ call[c].op = "incr" /\ call[c].leg = "end"
    /\ \/ call[c].answer = "allowed"
       \/ call[c].answer = "blocked" /\ strategy # "TOKEN_BUCKET"
    /\ call' = [call EXCEPT ![c].op = "undo", ![c].t = now, ![c].leg = "start",
                            ![c].newest = (call[c].answer = "blocked")]
    /\ UNCHANGED <<backend, strategy, row, now, lock, admin, errors, leaks>>

\* The lock of SELECT ... FOR UPDATE, held until the transaction ends.
LockAfter(c, step) ==
    IF backend = "postgres" /\ step.leg = "upsert" /\ Exists(row) THEN c
    ELSE IF lock = c /\ step.leg = "end" THEN NoCaller
    ELSE lock

\* One statement of an increment reaches the server.
IncrementStatement(c) ==
    LET step == IncrementStep(c) IN
    /\ call[c].op = "incr" /\ Pending(c) /\ Unlocked(c)
    /\ row' = step.row
    /\ lock' = LockAfter(c, step)
    /\ call' = [call EXCEPT
                  ![c].leg = step.leg, ![c].seen = step.seen,
                  ![c].round = IF step.leg = "end" THEN 1
                               ELSE IF step.leg = "start" THEN @ + 1 ELSE @,
                  ![c].answer = step.answer,
                  ![c].t = IF step.leg = "end" /\ step.answer # "threw" THEN 0 ELSE @,
                  ![c].at = IF step.leg = "end" THEN now ELSE @,
                  ![c].filed = IF step.leg = "end" THEN FiledUnder(step.row, call[c].t)
                               ELSE @]
    /\ leaks' = leaks \union (IF InsertRace(c) THEN {"insertRace"} ELSE {})
                      \union (IF BoundaryRace(c) THEN {"boundaryRace"} ELSE {})
                      \union (IF ClockBehind(c) THEN {"clockBehind"} ELSE {})
    /\ UNCHANGED <<backend, strategy, now, admin, errors>>

\* The statement of a Postgres bucket's decrement begins: it reads the row as committed.
Snapshot(c) ==
    /\ Snapshots /\ Exists(row)
    /\ call[c].op = "undo" /\ call[c].leg = "start"
    /\ call' = [call EXCEPT ![c].leg = "write", ![c].seen = row]
    /\ UNCHANGED <<backend, strategy, row, now, lock, admin, errors, leaks>>

\* One statement of an undo reaches the server, or goes on once it has the row's lock.
DecrementStatement(c) ==
    LET step == DecrementStep(c) IN
    /\ call[c].op = "undo" /\ Pending(c) /\ Unlocked(c)
    /\ Snapshots /\ Exists(row) => call[c].leg = "write"
    /\ row' = step.row
    /\ call' = IF step.leg = "end" THEN [call EXCEPT ![c] = Undone]
               ELSE [call EXCEPT ![c].leg = step.leg, ![c].gone = TRUE]
    /\ leaks' = leaks \union (IF GivesBack(c) /\ LateUndo(c)
                              THEN {"lateUndo"} ELSE {})
                      \union (IF StaleUndo(c) THEN {"staleUndo"} ELSE {})
                      \union (IF ShiftedUndo(c, call[c].newest)
                              THEN {"shiftedUndo"} ELSE {})
                      \union (IF MissedUndo(c) THEN {"missedUndo"} ELSE {})
    /\ UNCHANGED <<backend, strategy, now, lock, admin, errors>>

\* The request or its reply is lost, or the transaction is rolled back: the caller is
\* answered by the error policy, and the last statement may have been executed or not.
StoreError(c) ==
    LET step == IncrementStep(c)
        executed == step.leg = "end" /\ step.answer # "threw"
    IN /\ Pending(c) /\ Unlocked(c)
       /\ admin + errors < MaxEvents /\ errors' = errors + 1
       /\ \/ row' = row
          \/ call[c].op = "incr" /\ executed /\ row' = step.row
       /\ lock' = IF lock = c THEN NoCaller ELSE lock
       /\ call' = [call EXCEPT
                     ![c].leg = "end", ![c].round = 1, ![c].seen = NoRow, ![c].t = 0,
                     ![c].at = IF call[c].op = "incr" THEN now ELSE @,
                     ![c].answer = IF call[c].op = "incr" THEN "failed" ELSE @]
       /\ leaks' = leaks \union
                   (IF /\ call[c].op = "incr"
                       /\ InsertRace(c) \/ BoundaryRace(c) \/ ClockBehind(c)
                    THEN {"insertRace", "boundaryRace", "clockBehind"} ELSE {})
       /\ UNCHANGED <<backend, strategy, now, admin>>

\* The hits so far are written off; an increment whose hit is on its way is not.
WriteOff == [c \in Callers |->
                IF call[c].answer # "none" THEN [call[c] EXCEPT !.gone = TRUE] ELSE call[c]]

\* The row version whose lock a decrement of Postgres waits for is deleted: the statement
\* updates no row, whatever is inserted before it goes on.
Deleted(calls) == [c \in Callers |->
                     IF calls[c].op = "undo" /\ calls[c].leg = "write" THEN Undone
                     ELSE calls[c]]

\* reset() and delete(), which the stores write twice.
Removed ==
    CASE backend = "redis" -> {Redis!ResetRow, Redis!DeleteRow}
      [] backend = "postgres" -> {Pg!ResetRow, Pg!DeleteRow}
      [] backend = "mongo" -> {Mongo!ResetRow, Mongo!DeleteRow}
      [] backend = "dynamo" -> {Dynamo!ResetRow, Dynamo!DeleteRow}

Reset ==
    /\ admin + errors < MaxEvents /\ lock = NoCaller
    /\ admin' = admin + 1
    /\ row' \in Removed
    /\ call' = Deleted(WriteOff)
    /\ UNCHANGED <<backend, strategy, now, lock, errors, leaks>>

\* set() of n hits.
Set(n) ==
    /\ admin + errors < MaxEvents /\ lock = NoCaller
    /\ admin' = admin + 1
    /\ row' = SetRow(n)
    /\ call' = WriteOff
    /\ leaks' = IF n > 0 THEN leaks \union {"set"} ELSE leaks
    /\ UNCHANGED <<backend, strategy, now, lock, errors>>

\* sweep(), or the time to live of a document or an item.
Expire ==
    /\ MayExpire /\ lock = NoCaller
    /\ row' = NoRow
    /\ call' = Deleted(call)
    /\ leaks' = IF Preview > 0 THEN leaks \union {"sweptLive"} ELSE leaks
    /\ UNCHANGED <<backend, strategy, now, lock, admin, errors>>

Tick ==
    /\ now < MaxTime
    /\ \A c \in Callers : Pending(c) => now < call[c].t + MaxLag
    /\ now' = now + 1
    /\ UNCHANGED <<backend, strategy, row, lock, call, admin, errors, leaks>>

Next ==
    \/ \E c \in Callers : \/ Increment(c) \/ Decrement(c)
                          \/ IncrementStatement(c)
                          \/ Snapshot(c) \/ DecrementStatement(c)
                          \/ StoreError(c)
    \/ Reset
    \/ \E n \in 0..Limit : Set(n)
    \/ Expire
    \/ Tick

Spec == Init /\ [][Next]_vars

-----------------------------------------------------------------------------

\* The quota: the most a client may be admitted in any Window - MaxLag (Interval -
\* MaxLag) ticks of the server's clock.
Span == IF strategy = "TOKEN_BUCKET" THEN Interval - MaxLag ELSE Window - MaxLag
Admitted(x) == {c \in Callers : /\ call[c].answer = "allowed" /\ ~ call[c].gone
                                /\ call[c].at \in (x - Span + 1)..x}
Quota(n) ==
    CASE strategy = "TOKEN_BUCKET" -> n <= BucketSize + TokensPerInterval
      [] strategy = "FIXED_WINDOW" -> n <= 2 * Limit
      [] Weighted -> n * Window <= Limit * Greatest(Window, 2 * Window - 2)
      [] OTHER -> n <= Limit

\* No interleaving of increments, undos, clean-ups and failures admits a client beyond
\* the quota of its strategy: the limit of a sliding window, less than twice the limit
\* of DynamoDB's weighted one, twice the limit of a fixed window (across its edge), the
\* bucket and one refill; unless hits were lost in one of the ways that leaks names, such as
\* two first takings of a Postgres bucket, or an undo that writes stale tokens over others'.
AdmissionBounded ==
    leaks \subseteq {"clockBehind", "set", "missedUndo"} =>
        \A x \in 0..now : Quota(Cardinality(Admitted(x)))

\* Hits that a refusal of caller c now may be due to.
Charged(c) ==
    {d \in Callers \ {c} :
        /\ call[d].answer \notin {"none", "threw"} /\ ~ call[d].gone
        /\ CASE strategy = "TOKEN_BUCKET" -> call[d].answer # "blocked"
             [] Weighted -> call[d].at > now - 2 * Window - MaxLag
             [] OTHER -> call[d].at > now - Window - MaxLag}

\* No client is refused below its limit: when an increment is blocked, hits as many as
\* the limit are still live (one at least, in DynamoDB's weighted window).  Undos give
\* back what was taken and clean-ups charge nothing; unless hits were invented in one of the
\* ways that leaks names: a clock behind, a stale or shifted undo, an operator's set().
BlockedOnlyWhenFull ==
    [][\A c \in Callers :
          /\ call[c].answer = "none" /\ call'[c].answer = "blocked"
          /\ leaks' \subseteq {"sweptLive", "insertRace", "boundaryRace"}
                             \union (IF Weighted THEN {} ELSE {"lateUndo"})
          => Cardinality(Charged(c)) >=
               (CASE strategy = "TOKEN_BUCKET" -> BucketSize
                  [] Weighted -> 1
                  [] OTHER -> Limit)]_vars

\* DynamoDB's loops give up only on a caller that cannot succeed any more: a later
\* window has begun, an operator has interfered, or other callers have written as often
\* as the loop has rounds: once by an increment, twice by an undo.
GivesUpOnlyWhenStale ==
    \A c \in Callers :
        call[c].answer = "threw" =>
            \/ /\ strategy # "TOKEN_BUCKET"
               /\ call[c].at >= Dynamo!Boundary(call[c].t) + Window
            \/ admin > 0
            \/ /\ strategy = "TOKEN_BUCKET"
               /\ Cardinality({d \in Callers \ {c} : call[d].answer # "none"})
                  + 2 * Cardinality({d \in Callers \ {c} : call[d].gone}) >= MaxAttempts

\* sweep() never deletes a sliding window that holds a live hit.
SweepSparesLiveHits ==
    backend = "postgres" /\ strategy = "SLIDING_WINDOW" /\ MayExpire => Preview = 0

\* A Postgres bucket is exact whatever undos its increments meet: the decrement, which
\* writes tokens that it read before it waited for the row, invents none.
UndoNeverOverAdmits ==
    leaks \subseteq {"staleUndo"} => \A x \in 0..now : Quota(Cardinality(Admitted(x)))

\* DynamoDB's sliding window errs by a tenth of the limit at most.
WeightedErrorSmall ==
    Weighted /\ leaks = {} =>
        \A x \in 0..now : 10 * Cardinality(Admitted(x)) <= 11 * Limit

\* What an increment that no other caller interrupts comes to (at most three legs).
Alone ==
    LET probe == [Idle EXCEPT !.t = now, !.leg = "start"]
        Next1(s) == [probe EXCEPT !.leg = s.leg, !.seen = s.seen]
        Step(r, p) == CASE backend = "redis" -> Redis!IncrementStep(strategy, r, p, now)
                        [] backend = "postgres" -> Pg!IncrementStep(strategy, r, p, now)
                        [] backend = "mongo" -> Mongo!IncrementStep(strategy, r, p, now)
                        [] backend = "dynamo" -> Dynamo!IncrementStep(strategy, r, p, now)
        s1 == Step(row, probe)
        s2 == IF s1.leg = "end" THEN s1 ELSE Step(s1.row, Next1(s1))
        s3 == IF s2.leg = "end" THEN s2 ELSE Step(s2.row, Next1(s2))
    IN s3

\* get() and increment() agree: get() reports a full quota if, and but for the weighted
\* window only if, an increment that comes alone would be refused.  In the weighted window
\* such an increment writes what simulateWeightedIncrement, the reference the tests compare
\* with, computes, whichever of its three conditions it gets through.
PreviewAgrees ==
    LET full == IF strategy = "TOKEN_BUCKET" THEN Preview >= BucketSize
                ELSE IF Weighted THEN Preview + Window > Limit * Window
                ELSE Preview >= Limit
        blocked == Alone.answer = "blocked"
    IN /\ blocked => full
       /\ full => blocked \/ Weighted
       /\ Weighted => Alone.row = Dynamo!SimulateWeightedIncrement(row, now, 1)

=============================================================================
