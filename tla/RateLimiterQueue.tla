-------------------------- MODULE RateLimiterQueue --------------------------
(***************************************************************************)
(* The FIFO of src/src/queue/RateLimiterQueue.ts in front of a rate limit  *)
(* store.  drain() is an async loop: it awaits the store between reading   *)
(* the head and acting on the answer, and removeTokens, queue timeouts,    *)
(* clear(), shutdown(), getTokensRemaining() and its own retry timer run   *)
(* in between.  clear() also lets a second loop start while the first is   *)
(* still awaiting, so the loops in flight are a set.                       *)
(*                                                                         *)
(* One key: the queue serialises all keys through one FIFO.  The reasons   *)
(* of a rejection, the delays of the timers and the result's remaining and *)
(* resetTime are left out: a timer may fire at any moment after it is set. *)
(***************************************************************************)
EXTENDS SequencesExt, Integers

CONSTANTS Calls,           \* number of calls of removeTokens
          Costs,           \* the costs they may ask for
          Loops,           \* identities for the drain loops in flight
          Limit,           \* maxRequests (the bucketSize of a token bucket)
          MaxQueueSize,    \* maxQueueSize
          Strategies,      \* strategies of the store
          PeekStrategies,  \* those under which getTokensRemaining is called
          MaxPolls,        \* bound: polls of shutdown()'s drain window
          MaxDisruptions,  \* bound: clear(), peeks and store errors together
          MaxRedundant     \* bound: further calls of shutdown()

ASSUME QueueAssumption ==
    /\ Calls \in Nat
    /\ IsFiniteSet(Loops)
    /\ Costs \subseteq Nat
    /\ Limit \in Nat \ {0}
    /\ MaxQueueSize \in Nat
    /\ Strategies \subseteq {"FIXED_WINDOW", "TOKEN_BUCKET"}
    /\ {MaxPolls, MaxDisruptions, MaxRedundant} \subseteq Nat

\* The calls of removeTokens, numbered in the order they are made.
Requests == 1..Calls
NoRequest == 0

VARIABLES queue,       \* queueHead .. queueTail
          outcome,     \* the promise of each call
          cost,        \* the cost of each queued call
          processing,  \* processing
          drainTimer,  \* drainTimer !== null
          loop,        \* drain loops suspended at an await
          peek,        \* getTokensRemaining in flight
          shut,        \* isShutdown and the locals of shutdown()
          unlinks,     \* shutdownQueueTimeoutUnlinks
          strategy,    \* strategy of queue and store
          level,       \* what the store holds: hits, or tokens missing
          ledger,      \* history: what the store should hold (see below)
          aborted,     \* history: a loop died on a store error, none since
          served,      \* history: calls resolved since shutdown began
          used         \* how often the bounded events happened

control == <<queue, outcome, cost, processing, drainTimer, loop, aborted>>
store == <<strategy, level, ledger>>
vars == <<queue, outcome, cost, processing, drainTimer, loop, peek, shut,
          unlinks, strategy, level, ledger, aborted, served, used>>

\* "incr": awaiting store.increment; "reply": the store has answered, the
\* continuation has not run; "stale", "retry": awaiting the undo of a stale
\* or of a blocked head.  late: the store's window has ended since it answered.
At(pc, r, blocked, late) == [pc |-> pc, req |-> r, blocked |-> blocked, late |-> late]
IdleLoop == At("idle", NoRequest, FALSE, FALSE)
Awaiting(r) == At("incr", r, FALSE, FALSE)
LoopState == {IdleLoop} \cup [pc : {"incr", "reply", "stale", "retry"}, req : Requests,
                              blocked : BOOLEAN, late : BOOLEAN]
Active == {l \in Loops : loop[l].pc # "idle"}

\* admitted: cost resolved in this window (ever, for a bucket); held: cost
\* counted by the store for calls not decided yet, heldOk the part of it that
\* the store has allowed; credit: capacity the store got back otherwise, by
\* refill, by an undo that arrived in a later window, or by the repetition of a
\* peek's decrement that had rejected after it was executed.
EmptyLedger == [admitted |-> 0, held |-> 0, heldOk |-> 0, credit |-> 0]
LedgerType == [admitted : Int, held : Int, heldOk : Int, credit : Int]
Booked(a, h, ok, c) ==
    [admitted |-> ledger.admitted + a, held |-> ledger.held + h,
     heldOk |-> ledger.heldOk + ok, credit |-> ledger.credit + c]

Events == {"clear", "peek", "error", "again"}

NotShut == [phase |-> "no", lenAtStart |-> 0, pollsLeft |-> 0, drained |-> 0]
isShutdown == shut.phase # "no"

TypeOK ==
    /\ queue \in Seq(Requests)
    /\ outcome \in [Requests -> {"new", "waiting", "resolved", "rejected"}]
    /\ cost \in [Requests -> 0..Limit]
    /\ processing \in BOOLEAN /\ drainTimer \in BOOLEAN /\ aborted \in BOOLEAN
    /\ loop \in [Loops -> LoopState]
    /\ peek \in {"idle", "held", "late", "uncounted"}
    /\ shut \in [phase : {"no", "polling", "done"}, lenAtStart : Nat,
                 pollsLeft : Nat, drained : Nat]
    /\ unlinks \in Nat /\ level \in Nat /\ served \in Nat
    /\ strategy \in {"FIXED_WINDOW", "TOKEN_BUCKET"}
    /\ ledger \in LedgerType
    /\ used \in [Events -> Nat]

Init ==
    /\ queue = <<>>
    /\ outcome = [r \in Requests |-> "new"]
    /\ cost = [r \in Requests |-> 0]
    /\ processing = FALSE /\ drainTimer = FALSE
    /\ loop = [l \in Loops |-> IdleLoop]
    /\ peek = "idle"
    /\ shut = NotShut
    /\ unlinks = 0
    /\ strategy \in Strategies
    /\ level = 0
    /\ ledger = EmptyLedger
    /\ aborted = FALSE /\ served = 0
    /\ used = [e \in Events |-> 0]

\* One of the bounded events happens.
Disrupt(event) ==
    /\ used["clear"] + used["peek"] + used["error"] < MaxDisruptions
    /\ used' = [used EXCEPT ![event] = @ + 1]

-----------------------------------------------------------------------------
(* The store, as the queue uses it                                         *)

Floor(n) == IF n < 0 THEN 0 ELSE n

\* increment: a window counts a blocked hit too, a bucket takes no token then.
Blocked(c) == level + c > Limit
Counted(blocked) == ~(strategy = "TOKEN_BUCKET" /\ blocked)
AfterIncrement(c) == IF Counted(Blocked(c)) THEN level + c ELSE level

\* Mutant: the counter is not kept at zero or above.
BugDecrementUnbounded(c) == level - c

AfterDecrement(c) == Floor(level - c)

\* The window ends: the next increment starts from nothing.
Roll ==
    /\ strategy = "FIXED_WINDOW"
    /\ level > 0
    /\ level' = 0
    /\ ledger' = EmptyLedger
    /\ loop' = [l \in Loops |->
                   At(loop[l].pc, loop[l].req, loop[l].blocked,
                      loop[l].pc \notin {"idle", "incr"})]
    /\ peek' = IF peek = "held" THEN "late" ELSE peek
    /\ UNCHANGED <<queue, outcome, cost, processing, drainTimer, shut, unlinks,
                   strategy, aborted, served, used>>

\* A refill interval passes.
Refill ==
    /\ strategy = "TOKEN_BUCKET"
    /\ level > 0
    /\ level' = level - 1
    /\ ledger' = Booked(0, 0, 0, 1)
    /\ UNCHANGED <<control, peek, shut, unlinks, strategy, served, used>>

-----------------------------------------------------------------------------
(* drain                                                                   *)

\* A drain loop begins with head r.
StartLoop(r) ==
    /\ Loops # Active
    /\ loop' = [loop EXCEPT ![CHOOSE l \in Loops \ Active : TRUE] = Awaiting(r)]

\* Mutant: drain() does not return when another loop is processing.
BugDrainUnguarded(q, p, t) ==
    IF q = <<>> THEN UNCHANGED loop /\ processing' = FALSE /\ aborted' = FALSE
    ELSE /\ processing' = TRUE /\ aborted' = FALSE
         /\ StartLoop(Head(q))

\* The synchronous part of drain(), called with queue q, processing p and
\* drainTimer t: return at once, find nothing to do, or send the first
\* increment.
Drain(q, p, t) ==
    \/ /\ p
       /\ processing' = TRUE
       /\ aborted' = (aborted /\ q # <<>>)
       /\ UNCHANGED loop
    \/ /\ ~p /\ q = <<>>
       /\ processing' = t
       /\ aborted' = FALSE
       /\ UNCHANGED loop
    \/ /\ ~p /\ q # <<>>
       /\ processing' = TRUE
       /\ aborted' = FALSE
       /\ StartLoop(Head(q))

\* The loop l goes round with queue q: the next head, or out through finally.
NextIteration(l, q) ==
    IF q = <<>>
    THEN /\ loop' = [loop EXCEPT ![l] = IdleLoop]
         /\ processing' = (processing /\ drainTimer)
         /\ aborted' = FALSE
    ELSE /\ loop' = [loop EXCEPT ![l] = Awaiting(Head(q))]
         /\ UNCHANGED <<processing, aborted>>

\* The store executes the increment that loop l awaits.
StoreIncrement(l) ==
    LET c == cost[loop[l].req]
        b == Blocked(c)
    IN  /\ loop[l].pc = "incr"
        /\ level' = AfterIncrement(c)
        /\ loop' = [loop EXCEPT ![l] = At("reply", loop[l].req, b, FALSE)]
        /\ ledger' = IF Counted(b) THEN Booked(0, c, IF b THEN 0 ELSE c, 0) ELSE ledger
        /\ UNCHANGED <<queue, outcome, cost, processing, drainTimer, peek, shut,
                       unlinks, strategy, aborted, served, used>>

\* Loop l's call is decided: its cost is no longer held.
Released(l) ==
    LET c == cost[loop[l].req]
        b == loop[l].blocked
    IN  IF loop[l].late \/ ~Counted(b) THEN ledger
        ELSE Booked(0, -c, IF b THEN 0 ELSE -c, 0)

IsHead(l) == queue # <<>> /\ Head(queue) = loop[l].req

\* The answer belongs to an entry that is no longer the head: undo it.
ResumeStale(l) ==
    /\ loop[l].pc = "reply" /\ ~IsHead(l)
    /\ loop' = [loop EXCEPT ![l] = At("stale", loop[l].req, loop[l].blocked, loop[l].late)]
    /\ UNCHANGED <<queue, outcome, cost, processing, drainTimer, aborted, peek,
                   shut, unlinks, store, served, used>>

\* Mutant: the answer is applied to whatever is at the head now.
BugResumeShiftsHead(l) ==
    /\ loop[l].pc = "reply" /\ queue # <<>> /\ ~loop[l].blocked
    /\ queue' = Tail(queue)
    /\ outcome' = [outcome EXCEPT ![loop[l].req] = "resolved"]
    /\ NextIteration(l, Tail(queue))
    /\ UNCHANGED <<cost, drainTimer, peek, shut, unlinks, store, served, used>>

\* Allowed: the head leaves the queue and its promise resolves.
ResumeAllowed(l) ==
    LET r == loop[l].req
    IN  /\ loop[l].pc = "reply" /\ IsHead(l) /\ ~loop[l].blocked
        /\ queue' = Tail(queue)
        /\ outcome' = [outcome EXCEPT ![r] = "resolved"]
        /\ ledger' = IF loop[l].late THEN ledger ELSE Booked(cost[r], -cost[r], -cost[r], 0)
        /\ served' = IF isShutdown THEN served + 1 ELSE served
        /\ NextIteration(l, Tail(queue))
        /\ UNCHANGED <<cost, drainTimer, peek, shut, unlinks, strategy, level, used>>

ResumeBlocked(l) ==
    /\ loop[l].pc = "reply" /\ IsHead(l) /\ loop[l].blocked
    /\ loop' = [loop EXCEPT ![l] = At("retry", loop[l].req, loop[l].blocked, loop[l].late)]
    /\ UNCHANGED <<queue, outcome, cost, processing, drainTimer, aborted, peek,
                   shut, unlinks, store, served, used>>

\* Mutant: a blocked token bucket increment is undone as well.
BugUndoAlways(l) ==
    /\ level' = AfterDecrement(cost[loop[l].req])
    /\ ledger' = Released(l)

\* undoIncrementAfterFailedOrStaleHead: the store executes the decrement, if
\* there is one, and the loop goes on.
UndoIncrement(l) ==
    LET c == cost[loop[l].req]
    IN  /\ level' = IF Counted(loop[l].blocked) THEN AfterDecrement(c) ELSE level
        /\ ledger' = IF loop[l].late /\ Counted(loop[l].blocked)
                     THEN Booked(0, 0, 0, c) ELSE Released(l)

UndoStale(l) ==
    /\ loop[l].pc = "stale"
    /\ UndoIncrement(l)
    /\ NextIteration(l, queue)
    /\ UNCHANGED <<queue, outcome, cost, drainTimer, peek, shut, unlinks,
                   strategy, served, used>>

\* After a blocked head: set the retry timer and return; finally leaves
\* processing set, as the timer is.
UndoBlocked(l) ==
    /\ loop[l].pc = "retry"
    /\ UndoIncrement(l)
    /\ drainTimer' = TRUE
    /\ loop' = [loop EXCEPT ![l] = IdleLoop]
    /\ UNCHANGED <<queue, outcome, cost, processing, aborted, peek, shut,
                   unlinks, strategy, served, used>>

\* A store call of loop l rejects, having been executed or not: the loop dies
\* through finally and its rejection is unhandled.
StoreError(l) ==
    /\ Disrupt("error")
    /\ \/ /\ loop[l].pc = "incr"
          /\ level' \in {level, AfterIncrement(cost[loop[l].req])}
          /\ UNCHANGED ledger
       \/ /\ loop[l].pc \in {"stale", "retry"} /\ Counted(loop[l].blocked)
          /\ UndoIncrement(l) \/ (level' = level /\ ledger' = Released(l))
    /\ loop' = [loop EXCEPT ![l] = IdleLoop]
    /\ processing' = (processing /\ drainTimer)
    /\ aborted' = TRUE
    /\ UNCHANGED <<queue, outcome, cost, drainTimer, peek, shut, unlinks,
                   strategy, served>>

\* Mutant: the timer's callback does not clear processing.
BugTimerKeepsProcessing ==
    /\ drainTimer
    /\ drainTimer' = FALSE
    /\ Drain(queue, processing, FALSE)
    /\ UNCHANGED <<queue, outcome, cost, peek, shut, unlinks, store, served, used>>

\* The retry timer fires.
DrainTimerFires ==
    /\ drainTimer
    /\ drainTimer' = FALSE
    /\ Drain(queue, FALSE, FALSE)
    /\ UNCHANGED <<queue, outcome, cost, peek, shut, unlinks, store, served, used>>

-----------------------------------------------------------------------------
(* removeTokens and its timer                                              *)

\* Rejected at once: shut down, queue full, invalid or excessive cost.
Refused(c) ==
    isShutdown \/ Len(queue) >= MaxQueueSize \/ c < 1 \/ c > Limit

NextCall(r) == outcome[r] = "new" /\ \A q \in 1..(r - 1) : outcome[q] # "new"

RemoveTokensRejected(r, c) ==
    /\ NextCall(r) /\ Refused(c)
    /\ outcome' = [outcome EXCEPT ![r] = "rejected"]
    /\ UNCHANGED <<queue, cost, processing, drainTimer, loop, aborted, peek,
                   shut, unlinks, store, served, used>>

RemoveTokens(r, c) ==
    /\ NextCall(r) /\ ~Refused(c)
    /\ outcome' = [outcome EXCEPT ![r] = "waiting"]
    /\ cost' = [cost EXCEPT ![r] = c]
    /\ queue' = Append(queue, r)
    /\ Drain(queue', processing, drainTimer)
    /\ UNCHANGED <<drainTimer, peek, shut, unlinks, store, served, used>>

\* Mutant: the head's timeout cancels the retry timer but keeps processing.
BugTimeoutKeepsProcessing(i) ==
    /\ queue' = RemoveAt(queue, i)
    /\ outcome' = [outcome EXCEPT ![queue[i]] = "rejected"]
    /\ unlinks' = IF isShutdown THEN unlinks + 1 ELSE unlinks
    /\ drainTimer' = (drainTimer /\ i # 1)
    /\ Drain(queue', processing, drainTimer')
    /\ UNCHANGED <<cost, peek, shut, store, served, used>>

\* Mutant: timeouts during shutdown() are not counted apart.
BugTimeoutUncounted(i) ==
    /\ queue' = RemoveAt(queue, i)
    /\ outcome' = [outcome EXCEPT ![queue[i]] = "rejected"]
    /\ drainTimer' = (drainTimer /\ i # 1)
    /\ Drain(queue', processing /\ ~(i = 1 /\ drainTimer), drainTimer')
    /\ UNCHANGED <<cost, peek, shut, unlinks, store, served, used>>

\* The timer of the entry at position i fires.
QueueTimeout(i) ==
    LET restart == i = 1 /\ drainTimer   \* wasHead && drainTimer !== null
    IN  /\ queue' = RemoveAt(queue, i)
        /\ outcome' = [outcome EXCEPT ![queue[i]] = "rejected"]
        /\ unlinks' = IF isShutdown THEN unlinks + 1 ELSE unlinks
        /\ drainTimer' = (drainTimer /\ ~restart)
        /\ Drain(queue', processing /\ ~restart, drainTimer')
        /\ UNCHANGED <<cost, peek, shut, store, served, used>>

-----------------------------------------------------------------------------
(* getTokensRemaining: increment, then decrement                           *)

PeekIncrement ==
    /\ peek = "idle" /\ ~isShutdown
    /\ strategy \in PeekStrategies
    /\ Disrupt("peek")
    /\ level' = AfterIncrement(1)
    /\ peek' = IF Counted(Blocked(1)) THEN "held" ELSE "uncounted"
    /\ ledger' = IF peek' = "held" THEN Booked(0, 1, 0, 0) ELSE ledger
    /\ UNCHANGED <<control, shut, unlinks, strategy, served>>

\* The decrement is sent whatever the increment answered.
PeekDecrement ==
    /\ peek # "idle"
    /\ level' = AfterDecrement(1)
    /\ ledger' = CASE peek = "held" -> Booked(0, -1, 0, 0)
                   [] peek = "late" -> Booked(0, 0, 0, 1)
                   [] peek = "uncounted" -> ledger
    /\ peek' = "idle"
    /\ UNCHANGED <<control, shut, unlinks, strategy, served, used>>

\* The increment is executed but rejects.
PeekIncrementFails ==
    /\ peek = "idle" /\ ~isShutdown
    /\ strategy \in PeekStrategies
    /\ Disrupt("error")
    /\ level' = AfterIncrement(1)
    /\ UNCHANGED <<control, peek, shut, unlinks, strategy, ledger, served>>

\* The decrement rejects and an undo is tried; each may have been executed or
\* not, so the one hit is given back up to two times.
PeekDecrementFails ==
    /\ peek # "idle"
    /\ \E given \in 0..2 :
         /\ given = 2 => peek # "uncounted"
         /\ level' = AfterDecrement(given)
         /\ ledger' = IF peek = "held" THEN Booked(0, -1, 0, Floor(given - 1))
                      ELSE IF peek = "late" THEN Booked(0, 0, 0, given) ELSE ledger
    /\ peek' = "idle"
    /\ UNCHANGED <<control, shut, unlinks, strategy, served, used>>

-----------------------------------------------------------------------------
(* clear and shutdown                                                      *)

\* clearPending: every waiter is rejected, the retry timer is cancelled and
\* processing is reset; loops that await the store are not told.
ClearPending ==
    /\ queue' = <<>>
    /\ outcome' = [r \in Requests |-> IF outcome[r] = "waiting" THEN "rejected"
                                                                ELSE outcome[r]]
    /\ drainTimer' = FALSE
    /\ processing' = FALSE
    /\ aborted' = FALSE
    /\ UNCHANGED cost

Clear ==
    /\ ~isShutdown
    /\ Disrupt("clear")
    /\ ClearPending
    /\ UNCHANGED <<loop, peek, shut, unlinks, store, served>>

\* drain() as shutdown() calls it: only the loop it starts survives if
\* clearPending follows at once.
StartsLoop ==
    IF processing \/ queue = <<>> THEN UNCHANGED loop
    ELSE StartLoop(Head(queue))

\* The end of shutdown(): account for what was drained and reject the rest.
ShutdownEnds(lenAtStart, timedOut) ==
    /\ shut' = [phase |-> "done", lenAtStart |-> lenAtStart, pollsLeft |-> 0,
                drained |-> Floor(lenAtStart - Len(queue) - timedOut)]
    /\ unlinks' = 0
    /\ StartsLoop
    /\ ClearPending

\* The first call of shutdown(), with a drain window of polls polls.
Shutdown(polls) ==
    /\ ~isShutdown
    /\ IF polls > 0 /\ queue # <<>>
       THEN /\ shut' = [phase |-> "polling", lenAtStart |-> Len(queue),
                        pollsLeft |-> polls, drained |-> 0]
            /\ unlinks' = 0
            /\ Drain(queue, processing, drainTimer)
            /\ UNCHANGED <<queue, outcome, cost, drainTimer>>
       ELSE ShutdownEnds(Len(queue), 0)
    /\ UNCHANGED <<peek, store, served, used>>

\* A poll of the drain window: drain() again, then go on or end.
ShutdownPoll ==
    /\ shut.phase = "polling"
    /\ IF shut.pollsLeft > 1 /\ queue # <<>>
       THEN /\ shut' = [shut EXCEPT !.pollsLeft = @ - 1]
            /\ Drain(queue, processing, drainTimer)
            /\ UNCHANGED <<queue, outcome, cost, drainTimer, unlinks>>
       ELSE ShutdownEnds(shut.lenAtStart, unlinks)
    /\ UNCHANGED <<peek, store, served, used>>

\* shutdown() called again, as by a second signal handler.
ShutdownAgain ==
    /\ isShutdown
    /\ used["again"] < MaxRedundant
    /\ used' = [used EXCEPT !["again"] = @ + 1]
    /\ unlinks' = 0
    /\ UNCHANGED <<control, peek, shut, store, served>>

-----------------------------------------------------------------------------

LoopStep(l) ==
    \/ StoreIncrement(l) \/ ResumeStale(l) \/ ResumeAllowed(l) \/ ResumeBlocked(l)
    \/ UndoStale(l) \/ UndoBlocked(l)

Next ==
    \/ \E l \in Loops : LoopStep(l) \/ StoreError(l)
    \/ \E r \in Requests, c \in Costs : RemoveTokens(r, c) \/ RemoveTokensRejected(r, c)
    \/ \E i \in DOMAIN queue : QueueTimeout(i)
    \/ DrainTimerFires
    \/ Roll \/ Refill
    \/ PeekIncrement \/ PeekIncrementFails \/ PeekDecrement \/ PeekDecrementFails
    \/ Clear
    \/ \E polls \in 0..MaxPolls : Shutdown(polls)
    \/ ShutdownPoll \/ ShutdownAgain

Spec == Init /\ [][Next]_vars

\* The store answers, timers fire, windows end, and a peek is completed.
\* Queue timeouts are optional and callers owe nothing.
Fairness ==
    /\ \A l \in Loops : WF_vars(LoopStep(l))
    /\ WF_vars(DrainTimerFires)
    /\ WF_vars(Roll \/ Refill)
    /\ WF_vars(PeekDecrement)
    /\ WF_vars(ShutdownPoll)

FairSpec == Spec /\ Fairness

-----------------------------------------------------------------------------
(* Properties                                                              *)

\* The queue never admits more than the limit allows: the cost resolved in a
\* window (ever, for a bucket) is at most maxRequests plus the credit: refills
\* and undos that came too late or twice.  In particular the drain loop undoes
\* stale and blocked increments once and only once.
AdmissionBounded == ledger.admitted <= Limit + ledger.credit

\* No lost wake-up: while calls wait, a drain loop is running or the retry
\* timer is set, unless a store error has killed the loop, and then the next
\* drain() is free to start (processing, drainTimer and the finally block).
DrainAlive ==
    queue # <<>> => Active # {} \/ drainTimer \/ (aborted /\ ~processing)

\* drain() is guarded against running twice, but clear() and the end of
\* shutdown() reset the guard while a loop may still await the store: there
\* is at most one loop more than such resets.
LoopsBounded ==
    Cardinality(Active) <= 1 + used["clear"] + (IF shut.phase = "done" THEN 1 ELSE 0)

\* The queue holds exactly the calls whose promise is pending, each once:
\* none is lost by a timeout, a clear or a stale answer, none settled twice.
QueueIsPending ==
    /\ \A i, j \in DOMAIN queue : queue[i] = queue[j] => i = j
    /\ Range(queue) = {r \in Requests : outcome[r] = "waiting"}

\* One shutdown() reports as drained exactly the calls resolved since it
\* began, although timeouts, resolutions and its polls interleave.
ShutdownReportExact ==
    shut.phase = "done" /\ used["again"] = 0 => shut.drained = served

\* shutdown() is documented as "Idempotent - safe to call from multiple signal
\* handlers", and its drained count as excluding the entries that leave by
\* queue_timeout: the report is exact however often it is called.
ShutdownIdempotent == shut.phase = "done" => shut.drained = served

\* Every queued call is settled in the end, unless a store error kills the
\* drain loop: blocked heads are retried and nobody starves behind them (the
\* calls are finitely many, so the queue must empty).
EveryCallSettles == (queue # <<>>) ~> (queue = <<>> \/ aborted)
=============================================================================
