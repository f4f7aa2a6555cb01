---------------------------- MODULE ClusterStore ----------------------------
(***************************************************************************)
(* ClusterStore in the workers of a Node cluster and ClusterStorePrimary   *)
(* in the primary process, with the IPC pipes between them.  The primary   *)
(* keeps one MemoryStore per keyPrefix for all the workers; one prefix and *)
(* one key are modelled, within one window (MemoryStore has a module of    *)
(* its own).  Pipes are FIFO.  A message that reaches the primary is       *)
(* chained to `dispatchSerial' and handled in a later microtask.  A worker *)
(* may die at any point; one that is forked to replace it is another       *)
(* member of Workers.                                                      *)
(***************************************************************************)
EXTENDS Integers, Sequences, FiniteSets

CONSTANTS
    Workers,
    Calls,      \* the calls a worker may make on its store, by name
    Kind,       \* what each is: [Calls -> {"increment", "reset", "shutdown"}]
    Limit,
    Offers,     \* what init may carry: "good", "tooNew" (version), "badStrategy"
    MaxCalls,   \* calls of all the workers together, undos apart
    MaxBatch,   \* messages read by the primary before its microtasks run
    MaxTroubles \* crashes, refused inits and destroy() calls of a behaviour

ASSUME ClusterAssumption ==
    /\ Kind \in [Calls -> {"increment", "reset", "shutdown"}]
    /\ Limit \in Nat /\ MaxCalls \in Nat /\ MaxTroubles \in Nat /\ MaxBatch \in Nat \ {0}
    /\ Offers \subseteq {"good", "tooNew", "badStrategy"}

VARIABLES
    offer, alive,
    ready,          \* per worker: "none" (no ClusterStore yet), "waiting", "ok", "failed"
    shutDown,       \* _shutDown
    deaf,           \* _listenerRemoved
    call,           \* per worker and call, its kind and how far it is
    toPrimary, toWorker,    \* the pipes, without what nobody listens to any more
    primary,        \* "before" init(), "up", "destroyed"
    dispatchSerial,
    hits,           \* hits counted by the prefix's MemoryStore, or NoStore
    counted,        \* the increments counted since the last reset
    faults,         \* how the count has ceased to be that of `counted'
    troubles

workerVars == <<offer, alive, ready, shutDown, deaf, call>>
vars == <<offer, alive, ready, shutDown, deaf, call, toPrimary, toWorker, primary,
          dispatchSerial, hits, counted, faults, troubles>>

NoStore == -1

Settled == {"allowed", "blocked", "resolved", "rejected", "timeout"}

\* An increment that was allowed may later be given back, as a call of kind "decrement".
TypeOK ==
    /\ \A w \in Workers : ready[w] \in {"none", "waiting", "ok", "failed"}
    /\ \A w \in Workers, c \in Calls :
          /\ call[w][c].kind \in {Kind[c]} \union
                (IF Kind[c] = "increment" THEN {"decrement"} ELSE {})
          /\ call[w][c].pc \in {"idle", "waiting", "pending"} \union Settled
    /\ primary \in {"before", "up", "destroyed"}
    /\ hits \in NoStore..MaxCalls
    /\ counted \subseteq Workers \X Calls

Init ==
    /\ offer \in [Workers -> Offers]
    /\ troubles = Cardinality({w \in Workers : offer[w] # "good"}) /\ troubles <= MaxTroubles
    /\ alive = [w \in Workers |-> TRUE]
    /\ ready = [w \in Workers |-> "none"]
    /\ shutDown = [w \in Workers |-> FALSE] /\ deaf = [w \in Workers |-> FALSE]
    /\ call = [w \in Workers |-> [c \in Calls |-> [kind |-> Kind[c], pc |-> "idle"]]]
    /\ toPrimary = [w \in Workers |-> << >>] /\ toWorker = [w \in Workers |-> << >>]
    /\ primary = "before" /\ dispatchSerial = << >> /\ hits = NoStore
    /\ counted = {} /\ faults = {}

-----------------------------------------------------------------------------
(* The worker *)

\* A request or its answer names the call and its kind: randomUUID() gives each an id.
Send(w, msg) == toPrimary' = [toPrimary EXCEPT ![w] = Append(@, msg)]
Request(w, c) == [type |-> call[w][c].kind, call |-> c]

Construct(w) ==
    /\ alive[w] /\ ready[w] = "none"
    /\ ready' = [ready EXCEPT ![w] = "waiting"]
    /\ Send(w, [type |-> "init", call |-> "none"])
    /\ UNCHANGED <<offer, alive, shutDown, deaf, call, toWorker, primary, dispatchSerial,
                   hits, counted, faults, troubles>>

\* Mutant of InitTimeout: the promise of init is not rejected.
BugInitTimeoutKeepsWaiting(w) ==
    /\ alive[w] /\ ready[w] = "waiting"
    /\ deaf' = [deaf EXCEPT ![w] = TRUE]
    /\ toWorker' = [toWorker EXCEPT ![w] = << >>]
    /\ UNCHANGED <<offer, alive, ready, shutDown, call, toPrimary, primary,
                   dispatchSerial, hits, counted, faults, troubles>>

\* The constructor's timer, while init is not acknowledged.
InitTimeout(w) ==
    /\ alive[w] /\ ready[w] = "waiting"
    /\ ready' = [ready EXCEPT ![w] = "failed"]
    /\ deaf' = [deaf EXCEPT ![w] = TRUE]
    /\ toWorker' = [toWorker EXCEPT ![w] = << >>]
    /\ UNCHANGED <<offer, alive, shutDown, call, toPrimary, primary,
                   dispatchSerial, hits, counted, faults, troubles>>

SetPc(w, c, pc) == call' = [call EXCEPT ![w][c].pc = pc]

Made == {wc \in Workers \X Calls : call[wc[1]][wc[2]].pc # "idle"}

\* A call is made before _ready is settled and awaits it.
Start(w, c) ==
    /\ alive[w] /\ ready[w] = "waiting" /\ call[w][c].pc = "idle"
    /\ Cardinality(Made) < MaxCalls
    /\ SetPc(w, c, "waiting")
    /\ UNCHANGED <<offer, alive, ready, shutDown, deaf, toPrimary, toWorker, primary,
                   dispatchSerial, hits, counted, faults, troubles>>

\* An increment that was allowed is given back: its decrement() is about to run.
StartUndo(w, c) ==
    /\ alive[w] /\ call[w][c] = [kind |-> "increment", pc |-> "allowed"]
    /\ call' = [call EXCEPT ![w][c] = [kind |-> "decrement", pc |-> "waiting"]]
    /\ UNCHANGED <<offer, alive, ready, shutDown, deaf, toPrimary, toWorker, primary,
                   dispatchSerial, hits, counted, faults, troubles>>

Runs(w, c) ==
    /\ alive[w] /\ ready[w] \in {"ok", "failed"}
    /\ \/ call[w][c].pc = "waiting"
       \/ call[w][c].pc = "idle" /\ Cardinality(Made) < MaxCalls

\* Mutant of Ask: the request does not wait for init_ack.
BugAsksBeforeReady(w, c) ==
    /\ alive[w] /\ ready[w] # "none" /\ call[w][c].kind # "shutdown"
    /\ call[w][c].pc = "waiting"
    /\ SetPc(w, c, "pending")
    /\ Send(w, Request(w, c))
    /\ UNCHANGED <<offer, alive, ready, shutDown, deaf, toWorker, primary, dispatchSerial,
                   hits, counted, faults, troubles>>

\* When _ready is settled: refuse, or register the promise and send the request.
Ask(w, c) ==
    /\ Runs(w, c) /\ call[w][c].kind # "shutdown"
    /\ \/ /\ ready[w] = "failed" \/ shutDown[w]
          /\ SetPc(w, c, "rejected")
          /\ UNCHANGED toPrimary
       \/ /\ ready[w] = "ok" /\ ~shutDown[w]
          /\ SetPc(w, c, "pending")
          /\ Send(w, Request(w, c))
    /\ UNCHANGED <<offer, alive, ready, shutDown, deaf, toWorker, primary, dispatchSerial,
                   hits, counted, faults, troubles>>

\* Mutant of AskShutdown: the pending promises are not rejected.
BugShutdownLeavesPending(w, c) ==
    /\ Runs(w, c) /\ call[w][c].kind = "shutdown"
    /\ \/ /\ deaf[w]
          /\ SetPc(w, c, "resolved")
          /\ UNCHANGED <<shutDown, toPrimary>>
       \/ /\ ~deaf[w]
          /\ shutDown' = [shutDown EXCEPT ![w] = TRUE]
          /\ SetPc(w, c, "pending")
          /\ Send(w, Request(w, c))
    /\ UNCHANGED <<offer, alive, ready, deaf, toWorker, primary, dispatchSerial, hits,
                   counted, faults, troubles>>

\* shutdown() after _ready: reject everything that is pending and tell the primary.
AskShutdown(w, c) ==
    /\ Runs(w, c) /\ call[w][c].kind = "shutdown"
    /\ \/ /\ deaf[w]
          /\ SetPc(w, c, "resolved")
          /\ UNCHANGED <<shutDown, toPrimary>>
       \/ /\ ~deaf[w]
          /\ shutDown' = [shutDown EXCEPT ![w] = TRUE]
          /\ call' = [call EXCEPT ![w] = [d \in Calls |->
                [kind |-> call[w][d].kind,
                 pc |-> IF d = c THEN "pending"
                        ELSE IF call[w][d].pc = "pending" THEN "rejected" ELSE call[w][d].pc]]]
          /\ Send(w, Request(w, c))
    /\ UNCHANGED <<offer, alive, ready, deaf, toWorker, primary, dispatchSerial, hits,
                   counted, faults, troubles>>

\* The timer of a request.
Timeout(w, c) ==
    /\ alive[w] /\ call[w][c].pc = "pending"
    /\ SetPc(w, c, "timeout")
    /\ UNCHANGED <<offer, alive, ready, shutDown, deaf, toPrimary, toWorker, primary,
                   dispatchSerial, hits, counted, faults, troubles>>

\* How an answer settles the promise: dispatchResult and dispatchAck.
Outcome(kind, answer) ==
    IF kind = "shutdown" \/ answer = "ack" THEN "resolved"
    ELSE IF answer = "missing" THEN "rejected" ELSE answer

IsPending(w, msg) == /\ msg.type = "answer"
                     /\ call[w][msg.call] = [kind |-> msg.kind, pc |-> "pending"]

\* handleIncomingMessage; the listener goes with a refused init or an answered shutdown.
Receive(w) ==
    /\ alive[w] /\ toWorker[w] # << >>
    /\ LET msg == Head(toWorker[w])
           initAnswered == msg.type \in {"init_ack", "init_nack"} /\ ready[w] = "waiting"
           last == \/ msg.type = "init_nack" /\ initAnswered
                   \/ IsPending(w, msg) /\ msg.kind = "shutdown"
       IN /\ ready' = IF ~initAnswered THEN ready ELSE
               [ready EXCEPT ![w] = IF msg.type = "init_ack" THEN "ok" ELSE "failed"]
          /\ deaf' = [deaf EXCEPT ![w] = last]
          /\ toWorker' = [toWorker EXCEPT ![w] = IF last THEN << >> ELSE Tail(@)]
          /\ call' = IF ~IsPending(w, msg) THEN call ELSE
               [call EXCEPT ![w][msg.call].pc = Outcome(msg.kind, msg.answer)]
    /\ UNCHANGED <<offer, alive, shutDown, toPrimary, primary, dispatchSerial, hits, counted,
                   faults, troubles>>

\* The process dies: what it wrote last may not reach the primary.
Crash(w) ==
    /\ alive[w] /\ troubles < MaxTroubles
    /\ alive' = [alive EXCEPT ![w] = FALSE]
    /\ \E n \in 0..Len(toPrimary[w]) :
          toPrimary' = [toPrimary EXCEPT ![w] = SubSeq(@, 1, n)]
    /\ toWorker' = [toWorker EXCEPT ![w] = << >>]
    /\ troubles' = troubles + 1
    /\ UNCHANGED <<offer, ready, shutDown, deaf, call, primary, dispatchSerial, hits,
                   counted, faults>>

-----------------------------------------------------------------------------
(* The primary *)

PrimaryInit ==
    /\ primary = "before"
    /\ primary' = "up"
    /\ UNCHANGED <<workerVars, toPrimary, toWorker, dispatchSerial, hits, counted, faults,
                   troubles>>

\* handleMessage; without a listener the message is lost.
Arrive(w) ==
    /\ toPrimary[w] # << >> /\ Len(dispatchSerial) < MaxBatch
    /\ toPrimary' = [toPrimary EXCEPT ![w] = Tail(@)]
    /\ dispatchSerial' = IF primary = "up"
          THEN Append(dispatchSerial, [worker |-> w, msg |-> Head(toPrimary[w])])
          ELSE dispatchSerial
    /\ UNCHANGED <<workerVars, toWorker, primary, hits, counted, faults, troubles>>

\* Mutant of Reply: an answer is dropped when the channel is not empty.
BugReplyToIdleWorkersOnly(w, msg) ==
    toWorker' = IF alive[w] /\ ~deaf[w] /\ (msg.type = "answer" => toWorker[w] = << >>)
                THEN [toWorker EXCEPT ![w] = Append(@, msg)] ELSE toWorker

Reply(w, msg) ==
    toWorker' = IF alive[w] /\ ~deaf[w] THEN [toWorker EXCEPT ![w] = Append(@, msg)]
                ELSE toWorker

Answer(msg, answer) ==
    [type |-> "answer", kind |-> msg.type, call |-> msg.call, answer |-> answer]

\* Mutant of HandleInit: every init makes a new store.
BugInitReplacesStore(w) ==
    /\ hits' = 0
    /\ Reply(w, [type |-> "init_ack"])
    /\ UNCHANGED <<counted, faults>>

\* A store is created for the first worker that asks and shared with the others.  A strategy
\* the primary does not know throws, and the catch of handleMessage does not answer an init.
HandleInit(w) ==
    /\ hits' = IF hits = NoStore /\ offer[w] = "good" THEN 0 ELSE hits
    /\ \/ /\ offer[w] = "tooNew"
          /\ Reply(w, [type |-> "init_nack"])
       \/ /\ offer[w] = "good" \/ (offer[w] = "badStrategy" /\ hits # NoStore)
          /\ Reply(w, [type |-> "init_ack"])
       \/ /\ offer[w] = "badStrategy" /\ hits = NoStore
          /\ UNCHANGED toWorker
    /\ UNCHANGED <<counted, faults>>

\* A window counts the hits it blocks, too.
HandleIncrement(w, msg) ==
    /\ hits # NoStore
    /\ hits' = hits + 1 /\ counted' = counted \union {<<w, msg.call>>}
    /\ Reply(w, Answer(msg, IF hits < Limit THEN "allowed" ELSE "blocked"))
    /\ UNCHANGED faults

\* A hit that is no longer counted is given back at the cost of another one.
HandleDecrement(w, msg) ==
    /\ hits # NoStore
    /\ hits' = IF hits > 0 THEN hits - 1 ELSE 0
    /\ counted' = counted \ {<<w, msg.call>>}
    /\ faults' = IF hits > 0 /\ <<w, msg.call>> \notin counted
                 THEN faults \union {"staleUndo"} ELSE faults
    /\ Reply(w, Answer(msg, "ack"))

HandleReset(w, msg) ==
    /\ hits # NoStore
    /\ hits' = 0 /\ counted' = {}
    /\ Reply(w, Answer(msg, "ack"))
    /\ UNCHANGED faults

\* The store of all the workers is shut down and forgotten.
HandleShutdown(w, msg) ==
    /\ hits # NoStore
    /\ hits' = NoStore
    /\ faults' = IF counted # {} THEN faults \union {"shutdown"} ELSE faults
    /\ Reply(w, Answer(msg, "ack"))
    /\ UNCHANGED counted

HandleMissing(w, msg) ==
    /\ hits = NoStore
    /\ Reply(w, Answer(msg, "missing"))
    /\ UNCHANGED <<hits, counted, faults>>

Dispatch ==
    /\ dispatchSerial # << >>
    /\ dispatchSerial' = Tail(dispatchSerial)
    /\ LET w == Head(dispatchSerial).worker  msg == Head(dispatchSerial).msg IN
       \/ msg.type = "init" /\ HandleInit(w)
       \/ msg.type # "init" /\ HandleMissing(w, msg)
       \/ msg.type = "increment" /\ HandleIncrement(w, msg)
       \/ msg.type = "decrement" /\ HandleDecrement(w, msg)
       \/ msg.type = "reset" /\ HandleReset(w, msg)
       \/ msg.type = "shutdown" /\ HandleShutdown(w, msg)
    /\ UNCHANGED <<workerVars, toPrimary, primary, troubles>>

\* destroy(): the listener goes and the stores are cleared; what is queued still runs.
Destroy ==
    /\ primary = "up" /\ troubles < MaxTroubles
    /\ primary' = "destroyed" /\ hits' = NoStore /\ troubles' = troubles + 1
    /\ faults' = IF counted # {} THEN faults \union {"shutdown"} ELSE faults
    /\ UNCHANGED <<workerVars, toPrimary, toWorker, dispatchSerial, counted>>

-----------------------------------------------------------------------------
WorkerStep(w) ==
    \/ Construct(w) \/ InitTimeout(w) \/ Receive(w) \/ Crash(w) \/ Arrive(w)
    \/ \E c \in Calls : Start(w, c) \/ StartUndo(w, c) \/ Ask(w, c) \/ AskShutdown(w, c)
                           \/ Timeout(w, c)

Next == PrimaryInit \/ Dispatch \/ Destroy \/ \E w \in Workers : WorkerStep(w)

\* A worker's timers fire and its continuations run (each of them once, so fairness of them
\* together is fairness of each); the primary owes it nothing.
Continues(w) ==
    \/ InitTimeout(w)
    \/ \E c \in Calls : /\ call[w][c].pc # "idle"
                        /\ Ask(w, c) \/ AskShutdown(w, c) \/ Timeout(w, c)

Fairness == \A w \in Workers : WF_vars(Continues(w))

Spec == Init /\ [][Next]_vars /\ Fairness

-----------------------------------------------------------------------------
(* Properties *)

\* The workers together admit no more than the limit since the last reset(), whichever of
\* them constructs its store late, times out or dies.  Two things break this: a shutdown()
\* by any worker (or destroy()) forgets the hits of all, and a decrement() of a hit that a
\* reset() has already cleared takes away somebody else's.
AdmissionBounded ==
    faults = {} =>
        Cardinality({wc \in counted :
            call[wc[1]][wc[2]] = [kind |-> "increment", pc |-> "allowed"]}) <= Limit

\* "Store not initialized" is only ever answered once some worker has called shutdown() or
\* the primary was destroyed: a worker whose init was acknowledged is never ahead of the
\* primary's map, although its init may have been lost, late or refused.
MissingOnlyAfterShutdown ==
    \A w \in Workers : \A i \in DOMAIN toWorker[w] :
        toWorker[w][i].type = "answer" /\ toWorker[w][i].answer = "missing" =>
            primary = "destroyed" \/ \E v \in Workers : shutDown[v]

\* A hit the primary has counted is known to its caller, or its answer is on the way, or the
\* caller gave up (its timer fired, its store was shut down, its process died): the primary
\* never counts a hit without an answer that the worker still listens for.
CountedIsAnswered ==
    \A wc \in counted :
        LET w == wc[1]  c == wc[2] IN
        \/ ~alive[w] \/ call[w][c].kind = "decrement"
        \/ call[w][c].pc \in {"allowed", "blocked", "timeout", "rejected"}
        \/ /\ call[w][c].pc = "pending"
           /\ \E i \in DOMAIN toWorker[w] : /\ toWorker[w][i].type = "answer"
                                             /\ toWorker[w][i].call = c
                                             /\ toWorker[w][i].kind = "increment"
                                             /\ toWorker[w][i].answer \in {"allowed", "blocked"}

\* When shutdown() has resolved, the worker hears nothing more, no promise is left open, and
\* none of its requests is still to be executed by the primary, also when two shutdown()
\* calls overlap or an earlier one timed out.
ShutdownIsFinal ==
    \A w \in Workers :
        alive[w] /\ shutDown[w]
           /\ (\E c \in Calls : Kind[c] = "shutdown" /\ call[w][c].pc = "resolved") =>
        /\ deaf[w] /\ \A c \in Calls : call[w][c].pc # "pending"
        /\ toPrimary[w] = << >>
        /\ \A i \in DOMAIN dispatchSerial : dispatchSerial[i].worker # w

\* Every call settles in a worker that stays alive, even if the primary never listens: as
\* there are MaxCalls calls, a time comes when none is open.
EveryCallSettles ==
    []<>(\A w \in Workers, c \in Calls :
            alive[w] => call[w][c].pc \notin {"waiting", "pending"})

=============================================================================
