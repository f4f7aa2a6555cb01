----------------------- MODULE RateLimiterQueueProofs -----------------------
(***************************************************************************)
(* Proofs about RateLimiterQueue for any number of calls, costs, loops and *)
(* any bounds: types, no lost wake-up, the bound on concurrent loops, the  *)
(* queue as the list of the open promises, the report of shutdown(), and   *)
(* the bound on what is admitted in a window.                              *)
(***************************************************************************)
EXTENDS RateLimiterQueue, FiniteSetTheorems, SequenceTheorems, TLAPS

-----------------------------------------------------------------------------
(* Type correctness                                                        *)

LEMMA AwaitingType ==
    ASSUME NEW r \in Requests
    PROVE  Awaiting(r) \in LoopState
BY DEF Awaiting, At, LoopState

LEMMA IdleType == IdleLoop \in LoopState
BY DEF LoopState

LEMMA StartLoopType ==
    ASSUME TypeOK, NEW r \in Requests, StartLoop(r)
    PROVE  loop' \in [Loops -> LoopState]
BY AwaitingType DEF StartLoop, TypeOK

LEMMA HeadType ==
    ASSUME NEW q \in Seq(Requests), q # <<>>
    PROVE  Head(q) \in Requests /\ Tail(q) \in Seq(Requests)
OBVIOUS

LEMMA DrainType ==
    ASSUME TypeOK, NEW q \in Seq(Requests), NEW p \in BOOLEAN, NEW t \in BOOLEAN,
           Drain(q, p, t)
    PROVE  /\ loop' \in [Loops -> LoopState]
           /\ processing' \in BOOLEAN
           /\ aborted' \in BOOLEAN
BY StartLoopType, HeadType DEF Drain, TypeOK

LEMMA NextIterationType ==
    ASSUME TypeOK, NEW l \in Loops, NEW q \in Seq(Requests), NextIteration(l, q)
    PROVE  /\ loop' \in [Loops -> LoopState]
           /\ processing' \in BOOLEAN
           /\ aborted' \in BOOLEAN
BY AwaitingType, IdleType, HeadType DEF NextIteration, TypeOK

LEMMA RemoveAtType ==
    ASSUME NEW S, NEW q \in Seq(S), NEW i \in DOMAIN q
    PROVE  RemoveAt(q, i) \in Seq(S)
BY DEF RemoveAt

LEMMA InitType == Init => TypeOK
<1> SUFFICES ASSUME Init PROVE TypeOK
  OBVIOUS
<1>1. loop \in [Loops -> LoopState]
  BY IdleType DEF Init
<1>2. ledger \in LedgerType
  BY DEF Init, EmptyLedger, LedgerType
<1>3. shut \in [phase : {"no", "polling", "done"}, lenAtStart : Nat,
                pollsLeft : Nat, drained : Nat]
  BY DEF Init, NotShut
<1>4. /\ queue \in Seq(Requests)
      /\ outcome \in [Requests -> {"new", "waiting", "resolved", "rejected"}]
      /\ cost \in [Requests -> 0..Limit]
  BY QueueAssumption DEF Init
<1>5. strategy \in {"FIXED_WINDOW", "TOKEN_BUCKET"}
  BY QueueAssumption DEF Init
<1>6. used \in [Events -> Nat]
  BY DEF Init
<1> QED BY <1>1, <1>2, <1>3, <1>4, <1>5, <1>6 DEF Init, TypeOK

LEMMA BookedType ==
    ASSUME TypeOK, NEW a \in Int, NEW h \in Int, NEW ok \in Int, NEW c \in Int
    PROVE  Booked(a, h, ok, c) \in LedgerType
BY DEF Booked, TypeOK, LedgerType

LEMMA LedgerTyped == TypeOK => ledger \in LedgerType
BY DEF TypeOK

LEMMA DisruptType ==
    ASSUME TypeOK, NEW e \in Events, Disrupt(e)
    PROVE  used' \in [Events -> Nat]
BY DEF TypeOK, Disrupt

\* What the steps of a suspended loop need to know of it and of its call.
LEMMA LoopFields ==
    ASSUME TypeOK, NEW l \in Loops, loop[l].pc # "idle"
    PROVE  /\ loop[l].req \in Requests
           /\ cost[loop[l].req] \in 0..Limit
           /\ loop[l].blocked \in BOOLEAN
           /\ loop[l].late \in BOOLEAN
           /\ loop[l].pc \in {"incr", "reply", "stale", "retry"}
BY DEF TypeOK, LoopState, IdleLoop, At

LEMMA AtType ==
    ASSUME NEW pc \in {"incr", "reply", "stale", "retry"},
           NEW r \in Requests, NEW b \in BOOLEAN, NEW t \in BOOLEAN
    PROVE  At(pc, r, b, t) \in LoopState
BY DEF At, LoopState

\* Replacing the state of one loop.
LEMMA LoopUpdate ==
    ASSUME TypeOK, NEW l \in Loops, NEW s \in LoopState, loop' = [loop EXCEPT ![l] = s]
    PROVE  loop' \in [Loops -> LoopState]
BY DEF TypeOK

LEMMA ReleasedType ==
    ASSUME TypeOK, NEW l \in Loops, loop[l].pc # "idle"
    PROVE  Released(l) \in LedgerType
<1>1. cost[loop[l].req] \in Int /\ -cost[loop[l].req] \in Int
  BY LoopFields, QueueAssumption
<1>2. \/ Released(l) = ledger
      \/ Released(l) = Booked(0, -cost[loop[l].req], 0, 0)
      \/ Released(l) = Booked(0, -cost[loop[l].req], -cost[loop[l].req], 0)
  BY LoopFields DEF Released
<1>3. /\ Booked(0, -cost[loop[l].req], 0, 0) \in LedgerType
      /\ Booked(0, -cost[loop[l].req], -cost[loop[l].req], 0) \in LedgerType
  BY <1>1, BookedType
<1> QED BY <1>2, <1>3, LedgerTyped

LEMMA UndoType ==
    ASSUME TypeOK, NEW l \in Loops, loop[l].pc # "idle", UndoIncrement(l)
    PROVE  /\ level' \in Nat
           /\ ledger' \in LedgerType
<1>1. cost[loop[l].req] \in Nat
  BY LoopFields, QueueAssumption
<1>2. level' \in Nat
  BY <1>1 DEF UndoIncrement, AfterDecrement, Floor, TypeOK
<1>3. ledger' = Booked(0, 0, 0, cost[loop[l].req]) \/ ledger' = Released(l)
  BY DEF UndoIncrement
<1> QED BY <1>1, <1>2, <1>3, BookedType, ReleasedType

LEMMA StoreIncrementType ==
    ASSUME TypeOK, NEW l \in Loops, StoreIncrement(l)
    PROVE  TypeOK'
<1>1. /\ loop[l].req \in Requests /\ cost[loop[l].req] \in Nat
  BY LoopFields, QueueAssumption DEF StoreIncrement
<1>2. Blocked(cost[loop[l].req]) \in BOOLEAN
  BY DEF Blocked
<1>3. loop' \in [Loops -> LoopState]
  BY <1>1, <1>2, AtType, LoopUpdate DEF StoreIncrement
<1>4. level' \in Nat
  BY <1>1 DEF StoreIncrement, AfterIncrement, TypeOK
<1>5. ledger' \in LedgerType
  <2>1. \/ ledger' = ledger
        \/ ledger' = Booked(0, cost[loop[l].req], 0, 0)
        \/ ledger' = Booked(0, cost[loop[l].req], cost[loop[l].req], 0)
    BY <1>2 DEF StoreIncrement
  <2>2. 0 \in Int /\ cost[loop[l].req] \in Int
    BY <1>1
  <2> QED BY <2>1, <2>2, BookedType, LedgerTyped
<1> QED BY <1>3, <1>4, <1>5 DEF StoreIncrement, TypeOK

LEMMA ResumeType ==
    ASSUME TypeOK, NEW l \in Loops, ResumeStale(l) \/ ResumeAllowed(l) \/ ResumeBlocked(l)
    PROVE  TypeOK'
<1>1. loop[l].pc # "idle"
  BY DEF ResumeStale, ResumeAllowed, ResumeBlocked
<1>2. ASSUME NEW pc \in {"stale", "retry"},
             loop' = [loop EXCEPT ![l] = At(pc, loop[l].req, loop[l].blocked, loop[l].late)]
      PROVE  loop' \in [Loops -> LoopState]
  BY <1>1, <1>2, AtType, LoopUpdate, LoopFields
<1>3. CASE ResumeStale(l)
  BY <1>2, <1>3 DEF ResumeStale, TypeOK, store
<1>4. CASE ResumeBlocked(l)
  BY <1>2, <1>4 DEF ResumeBlocked, TypeOK, store
<1>5. CASE ResumeAllowed(l)
  <2>1. Tail(queue) \in Seq(Requests)
    BY <1>5, HeadType DEF ResumeAllowed, IsHead, TypeOK
  <2>2. loop' \in [Loops -> LoopState] /\ processing' \in BOOLEAN /\ aborted' \in BOOLEAN
    BY <1>5, <2>1, NextIterationType DEF ResumeAllowed
  <2>3. ledger' \in LedgerType
    <3>1. cost[loop[l].req] \in Int
      BY <1>1, LoopFields, QueueAssumption
    <3>2. ledger' = ledger \/ ledger' = Booked(cost[loop[l].req], -cost[loop[l].req], -cost[loop[l].req], 0)
      BY <1>5 DEF ResumeAllowed
    <3>3. -cost[loop[l].req] \in Int
      BY <3>1
    <3> QED BY <3>1, <3>2, <3>3, BookedType, LedgerTyped
  <2>4. outcome' \in [Requests -> {"new", "waiting", "resolved", "rejected"}]
    BY <1>5 DEF ResumeAllowed, TypeOK
  <2>5. served' \in Nat
    BY <1>5 DEF ResumeAllowed, TypeOK
  <2> QED BY <1>5, <2>1, <2>2, <2>3, <2>4, <2>5 DEF ResumeAllowed, TypeOK
<1> QED BY <1>3, <1>4, <1>5

LEMMA UndoStepType ==
    ASSUME TypeOK, NEW l \in Loops, UndoStale(l) \/ UndoBlocked(l)
    PROVE  TypeOK'
<1>1. /\ level' \in Nat
      /\ ledger' \in LedgerType
  BY UndoType DEF UndoStale, UndoBlocked
<1>2. CASE UndoStale(l)
  <2>1. loop' \in [Loops -> LoopState] /\ processing' \in BOOLEAN /\ aborted' \in BOOLEAN
    BY <1>2, NextIterationType DEF UndoStale, TypeOK
  <2> QED BY <1>1, <1>2, <2>1 DEF UndoStale, TypeOK
<1>3. CASE UndoBlocked(l)
  <2>1. loop' \in [Loops -> LoopState]
    BY <1>3, IdleType, LoopUpdate DEF UndoBlocked
  <2> QED BY <1>1, <1>3, <2>1 DEF UndoBlocked, TypeOK
<1> QED BY <1>2, <1>3

LEMMA StoreErrorType ==
    ASSUME TypeOK, NEW l \in Loops, StoreError(l)
    PROVE  TypeOK'
<1>1. loop[l].pc # "idle"
  BY DEF StoreError
<1>2. loop' \in [Loops -> LoopState]
  BY IdleType, LoopUpdate DEF StoreError
<1>3. level \in Nat /\ AfterIncrement(cost[loop[l].req]) \in Nat
  BY <1>1, LoopFields, QueueAssumption DEF AfterIncrement, TypeOK
<1>4. level' \in Nat /\ ledger' \in LedgerType
  <2>1. CASE level' \in {level, AfterIncrement(cost[loop[l].req])} /\ UNCHANGED ledger
    BY <1>3, <2>1, LedgerTyped
  <2>2. CASE UndoIncrement(l)
    BY <1>1, <2>2, UndoType
  <2>3. CASE level' = level /\ ledger' = Released(l)
    BY <1>1, <1>3, <2>3, ReleasedType
  <2> QED BY <2>1, <2>2, <2>3 DEF StoreError
<1>5. used' \in [Events -> Nat]
  BY DisruptType DEF StoreError, Events
<1> QED BY <1>2, <1>4, <1>5 DEF StoreError, TypeOK

LEMMA RemoveTokensType ==
    ASSUME TypeOK, NEW r \in Requests, NEW c \in Costs,
           RemoveTokens(r, c) \/ RemoveTokensRejected(r, c)
    PROVE  TypeOK'
<1>1. outcome' \in [Requests -> {"new", "waiting", "resolved", "rejected"}]
  BY DEF RemoveTokens, RemoveTokensRejected, TypeOK
<1>2. CASE RemoveTokensRejected(r, c)
  BY <1>1, <1>2 DEF RemoveTokensRejected, TypeOK, store
<1>3. CASE RemoveTokens(r, c)
  <2>1. queue' \in Seq(Requests)
    BY <1>3 DEF RemoveTokens, TypeOK
  <2>2. cost' \in [Requests -> 0..Limit]
    <3>1. c \in 0..Limit
      BY <1>3, QueueAssumption DEF RemoveTokens, Refused
    <3> QED BY <1>3, <3>1 DEF RemoveTokens, TypeOK
  <2>3. loop' \in [Loops -> LoopState] /\ processing' \in BOOLEAN /\ aborted' \in BOOLEAN
    BY <1>3, <2>1, DrainType DEF RemoveTokens, TypeOK
  <2> QED BY <1>1, <1>3, <2>1, <2>2, <2>3 DEF RemoveTokens, TypeOK, store
<1> QED BY <1>2, <1>3

LEMMA TimerType ==
    ASSUME TypeOK, DrainTimerFires \/ (\E i \in DOMAIN queue : QueueTimeout(i))
    PROVE  TypeOK'
<1>1. CASE DrainTimerFires
  <2>1. loop' \in [Loops -> LoopState] /\ processing' \in BOOLEAN /\ aborted' \in BOOLEAN
    BY <1>1, DrainType DEF DrainTimerFires, TypeOK
  <2> QED BY <1>1, <2>1 DEF DrainTimerFires, TypeOK, store
<1>2. ASSUME NEW i \in DOMAIN queue, QueueTimeout(i) PROVE TypeOK'
  <2>1. queue' \in Seq(Requests)
    BY <1>2, RemoveAtType DEF QueueTimeout, TypeOK
  <2>2. outcome' \in [Requests -> {"new", "waiting", "resolved", "rejected"}]
    BY <1>2 DEF QueueTimeout, TypeOK
  <2>3. drainTimer' \in BOOLEAN
    BY <1>2 DEF QueueTimeout, TypeOK
  <2>4. unlinks' \in Nat
    BY <1>2 DEF QueueTimeout, TypeOK
  <2>5. (processing /\ ~(i = 1 /\ drainTimer)) \in BOOLEAN
    OBVIOUS
  <2>6. loop' \in [Loops -> LoopState] /\ processing' \in BOOLEAN /\ aborted' \in BOOLEAN
    BY <1>2, <2>1, <2>3, <2>5, DrainType DEF QueueTimeout
  <2> QED BY <1>2, <2>1, <2>2, <2>3, <2>4, <2>6 DEF QueueTimeout, TypeOK, store
<1> QED BY <1>1, <1>2

LEMMA StoreTimeType ==
    ASSUME TypeOK, Roll \/ Refill
    PROVE  TypeOK'
<1>1. CASE Roll
  <2>1. ledger' \in LedgerType
    BY <1>1 DEF Roll, EmptyLedger, LedgerType
  <2>2. ASSUME NEW l \in Loops
        PROVE  At(loop[l].pc, loop[l].req, loop[l].blocked, loop[l].pc \notin {"idle", "incr"})
                 \in LoopState
    <3>1. CASE loop[l].pc = "idle"
      <4>1. loop[l] = IdleLoop
        BY <3>1 DEF TypeOK, LoopState
      <4>2. loop[l].pc = "idle" /\ loop[l].req = NoRequest /\ loop[l].blocked = FALSE
        BY <4>1 DEF IdleLoop, At
      <4>3. (loop[l].pc \notin {"idle", "incr"}) = FALSE
        BY <4>2
      <4> QED BY <4>2, <4>3, IdleType DEF IdleLoop
    <3>2. CASE loop[l].pc # "idle"
      BY <3>2, LoopFields, AtType
    <3> QED BY <3>1, <3>2
  <2>3. loop' \in [Loops -> LoopState]
    BY <1>1, <2>2 DEF Roll
  <2>4. peek' \in {"idle", "held", "late", "uncounted"}
    BY <1>1 DEF Roll, TypeOK
  <2> QED BY <1>1, <2>1, <2>3, <2>4 DEF Roll, TypeOK
<1>2. CASE Refill
  <2>1. ledger' \in LedgerType
    BY <1>2, BookedType DEF Refill
  <2>2. level' \in Nat
    BY <1>2 DEF Refill, TypeOK
  <2> QED BY <1>2, <2>1, <2>2 DEF Refill, TypeOK, control
<1> QED BY <1>1, <1>2

LEMMA PeekType ==
    ASSUME TypeOK, PeekIncrement \/ PeekIncrementFails \/ PeekDecrement \/ PeekDecrementFails
    PROVE  TypeOK'
<1>1. ledger' \in LedgerType
  <2>1. CASE PeekIncrement \/ PeekIncrementFails \/ PeekDecrement
    <3>1. ledger' \in {ledger, Booked(0, 1, 0, 0), Booked(0, -1, 0, 0), Booked(0, 0, 0, 1)}
      BY <2>1 DEF PeekIncrement, PeekIncrementFails, PeekDecrement, TypeOK
    <3> QED BY <3>1, BookedType, LedgerTyped
  <2>2. CASE PeekDecrementFails
    <3>1. PICK given \in 0..2 :
            ledger' \in {ledger, Booked(0, -1, 0, Floor(given - 1)), Booked(0, 0, 0, given)}
      BY <2>2 DEF PeekDecrementFails
    <3>2. Floor(given - 1) \in Int /\ given \in Int
      BY DEF Floor
    <3> QED BY <3>1, <3>2, BookedType, LedgerTyped
  <2> QED BY <2>1, <2>2
<1>2. level' \in Nat
  BY DEF PeekIncrement, PeekIncrementFails, PeekDecrement, PeekDecrementFails, AfterIncrement,
         AfterDecrement, Floor, TypeOK
<1>3. used' \in [Events -> Nat]
  BY DisruptType DEF PeekIncrement, PeekIncrementFails, PeekDecrement, PeekDecrementFails, Events, TypeOK
<1>4. peek' \in {"idle", "held", "late", "uncounted"}
  BY DEF PeekIncrement, PeekIncrementFails, PeekDecrement, PeekDecrementFails
<1> QED
  BY <1>1, <1>2, <1>3, <1>4
     DEF PeekIncrement, PeekIncrementFails, PeekDecrement, PeekDecrementFails, TypeOK, control

LEMMA ClearPendingType ==
    ASSUME TypeOK, ClearPending
    PROVE  /\ queue' \in Seq(Requests)
           /\ outcome' \in [Requests -> {"new", "waiting", "resolved", "rejected"}]
           /\ cost' \in [Requests -> 0..Limit]
           /\ drainTimer' \in BOOLEAN /\ processing' \in BOOLEAN /\ aborted' \in BOOLEAN
<1>1. outcome' \in [Requests -> {"new", "waiting", "resolved", "rejected"}]
  BY DEF ClearPending, TypeOK
<1>2. queue' \in Seq(Requests)
  BY DEF ClearPending
<1>3. cost' \in [Requests -> 0..Limit]
  BY DEF ClearPending, TypeOK
<1> QED BY <1>1, <1>2, <1>3 DEF ClearPending

LEMMA ClearType == TypeOK /\ Clear => TypeOK'
<1> SUFFICES ASSUME TypeOK, Clear PROVE TypeOK'
  OBVIOUS
<1>1. used' \in [Events -> Nat]
  BY DisruptType DEF Clear, Events
<1>2. UNCHANGED <<loop, peek, shut, unlinks, strategy, level, ledger, served>>
  BY DEF Clear, store
<1>3. ClearPending
  BY DEF Clear
<1> QED BY <1>1, <1>2, <1>3, ClearPendingType DEF TypeOK

ShutType == [phase : {"no", "polling", "done"}, lenAtStart : Nat,
             pollsLeft : Nat, drained : Nat]

LEMMA ShutdownEndsType ==
    ASSUME TypeOK, NEW len \in Nat, NEW n \in Nat, ShutdownEnds(len, n)
    PROVE  /\ shut' \in ShutType
           /\ unlinks' \in Nat
           /\ loop' \in [Loops -> LoopState]
<1>1. Len(queue) \in Nat
  BY DEF TypeOK
<1>2. shut' \in ShutType
  BY <1>1 DEF ShutdownEnds, ShutType, Floor
<1>3. loop' \in [Loops -> LoopState]
  BY StartLoopType, HeadType DEF ShutdownEnds, StartsLoop, TypeOK
<1> QED BY <1>2, <1>3 DEF ShutdownEnds

LEMMA ShutdownType ==
    ASSUME TypeOK, (\E polls \in 0..MaxPolls : Shutdown(polls)) \/ ShutdownPoll \/ ShutdownAgain
    PROVE  TypeOK'
<1>1. ASSUME NEW polls \in 0..MaxPolls, Shutdown(polls) PROVE TypeOK'
  <2>1. polls \in Nat /\ Len(queue) \in Nat
    BY QueueAssumption DEF TypeOK
  <2>2. CASE polls > 0 /\ queue # <<>>
    <3>1. shut' \in ShutType
      BY <1>1, <2>1, <2>2 DEF Shutdown, ShutType
    <3>2. loop' \in [Loops -> LoopState] /\ processing' \in BOOLEAN /\ aborted' \in BOOLEAN
      BY <1>1, <2>2, DrainType DEF Shutdown, TypeOK
    <3> QED BY <1>1, <2>2, <3>1, <3>2 DEF Shutdown, TypeOK, store, ShutType
  <2>3. CASE ~(polls > 0 /\ queue # <<>>)
    <3>1. ShutdownEnds(Len(queue), 0) /\ ClearPending
      BY <1>1, <2>3 DEF Shutdown, ShutdownEnds
    <3> QED
      BY <1>1, <2>1, <3>1, ShutdownEndsType, ClearPendingType
         DEF Shutdown, TypeOK, store, ShutType
  <2> QED BY <2>2, <2>3
<1>2. CASE ShutdownPoll
  <2>1. CASE shut.pollsLeft > 1 /\ queue # <<>>
    <3>1. shut' \in ShutType
      BY <1>2, <2>1 DEF ShutdownPoll, ShutType, TypeOK
    <3>2. loop' \in [Loops -> LoopState] /\ processing' \in BOOLEAN /\ aborted' \in BOOLEAN
      BY <1>2, <2>1, DrainType DEF ShutdownPoll, TypeOK
    <3> QED BY <1>2, <2>1, <3>1, <3>2 DEF ShutdownPoll, TypeOK, store, ShutType
  <2>2. CASE ~(shut.pollsLeft > 1 /\ queue # <<>>)
    <3>1. ShutdownEnds(shut.lenAtStart, unlinks) /\ ClearPending
      BY <1>2, <2>2 DEF ShutdownPoll, ShutdownEnds
    <3>2. shut.lenAtStart \in Nat /\ unlinks \in Nat
      BY DEF TypeOK
    <3> QED
      BY <1>2, <3>1, <3>2, ShutdownEndsType, ClearPendingType
         DEF ShutdownPoll, TypeOK, store, ShutType
  <2> QED BY <2>1, <2>2
<1>3. CASE ShutdownAgain
  BY <1>3 DEF ShutdownAgain, TypeOK, control, store, Events
<1> QED BY <1>1, <1>2, <1>3

LEMMA TypeNext == TypeOK /\ [Next]_vars => TypeOK'
<1> SUFFICES ASSUME TypeOK, [Next]_vars PROVE TypeOK'
  OBVIOUS
<1>1. ASSUME NEW l \in Loops, LoopStep(l) \/ StoreError(l) PROVE TypeOK'
  BY <1>1, StoreIncrementType, ResumeType, UndoStepType, StoreErrorType DEF LoopStep
<1>2. CASE UNCHANGED vars
  BY <1>2 DEF vars, TypeOK
<1> QED
  BY <1>1, <1>2, RemoveTokensType, TimerType, StoreTimeType, PeekType, ClearType,
     ShutdownType DEF Next

\* Type correctness of the queue under every interleaving of its callers,
\* timers, store answers and store errors.
THEOREM TypeCorrect == Spec => []TypeOK
BY InitType, TypeNext, PTL DEF Spec

-----------------------------------------------------------------------------
(* No lost wake-up, and the number of concurrent loops                     *)

B(x) == IF x THEN 1 ELSE 0

\* Whoever sets processing leaves a loop or the timer behind, and a waiting
\* call has a loop, the timer or a dead loop to blame.
WakeupInv ==
    /\ processing => Active # {} \/ drainTimer
    /\ queue # <<>> => Active # {} \/ drainTimer \/ aborted

\* A loop, the timer and a cleared processing flag are three forms of one
\* permission to drain; only a reset by clearPending creates another one.
Budget ==
    Cardinality(Active) + B(drainTimer) + B(~processing)
        <= 1 + used["clear"] + B(shut.phase = "done")

ControlInv == TypeOK /\ WakeupInv /\ Budget

LEMMA ActiveFinite ==
    /\ Active \subseteq Loops
    /\ IsFiniteSet(Active)
    /\ Cardinality(Active) \in Nat
<1>1. Active \subseteq Loops
  BY DEF Active
<1> QED BY <1>1, QueueAssumption, FS_Subset, FS_CardinalityType

\* A loop starts.
LEMMA ActiveStart ==
    ASSUME TypeOK, NEW r \in Requests, StartLoop(r)
    PROVE  Active' # {} /\ Cardinality(Active') = Cardinality(Active) + 1
<1>1. PICK l \in Loops \ Active : loop' = [loop EXCEPT ![l] = Awaiting(r)]
  BY ActiveFinite DEF StartLoop
<1>2. Active' = Active \cup {l}
  BY <1>1 DEF Active, Awaiting, At, TypeOK
<1> QED BY <1>1, <1>2, ActiveFinite, FS_AddElement

\* A loop ends.
LEMMA ActiveEnd ==
    ASSUME TypeOK, NEW l \in Loops, loop[l].pc # "idle", loop' = [loop EXCEPT ![l] = IdleLoop]
    PROVE  Cardinality(Active') = Cardinality(Active) - 1
<1>1. l \in Active
  BY DEF Active
<1>2. Active' = Active \ {l}
  BY DEF Active, IdleLoop, At, TypeOK
<1> QED BY <1>1, <1>2, ActiveFinite, FS_RemoveElement

\* A loop goes on to another await.
LEMMA ActiveStays ==
    ASSUME TypeOK, NEW l \in Loops, loop[l].pc # "idle",
           NEW pc \in {"incr", "reply", "stale", "retry"}, NEW r, NEW b, NEW t,
           loop' = [loop EXCEPT ![l] = At(pc, r, b, t)]
    PROVE  Active' = Active /\ l \in Active
BY DEF Active, At, TypeOK

LEMMA DrainEffect ==
    ASSUME TypeOK, NEW q \in Seq(Requests), NEW p \in BOOLEAN, NEW t \in BOOLEAN,
           Drain(q, p, t)
    PROVE  \/ /\ p /\ processing' /\ Active' = Active
              /\ q # <<>> => aborted' = aborted
           \/ /\ ~p /\ q = <<>> /\ processing' = t /\ Active' = Active
           \/ /\ ~p /\ q # <<>> /\ processing'
              /\ Active' # {} /\ Cardinality(Active') = Cardinality(Active) + 1
<1>1. CASE p
  BY <1>1 DEF Drain, Active, TypeOK
<1>2. CASE ~p /\ q = <<>>
  BY <1>2 DEF Drain, Active
<1>3. CASE ~p /\ q # <<>>
  BY <1>3, HeadType, ActiveStart DEF Drain
<1> QED BY <1>1, <1>2, <1>3

LEMMA NextIterationEffect ==
    ASSUME TypeOK, NEW l \in Loops, loop[l].pc # "idle", NEW q \in Seq(Requests),
           NextIteration(l, q)
    PROVE  \/ /\ q = <<>> /\ processing' = (processing /\ drainTimer)
              /\ Cardinality(Active') = Cardinality(Active) - 1
           \/ /\ q # <<>> /\ Active' = Active /\ Active # {}
              /\ UNCHANGED <<processing, aborted>>
<1>1. CASE q = <<>>
  BY <1>1, ActiveEnd DEF NextIteration
<1>2. CASE q # <<>>
  BY <1>2, ActiveStays DEF NextIteration, Awaiting
<1> QED BY <1>1, <1>2

LEMMA InitControl == Init => ControlInv
<1> SUFFICES ASSUME Init PROVE ControlInv
  OBVIOUS
<1>1. Active = {}
  BY DEF Init, Active, IdleLoop, At
<1>2. Cardinality(Active) = 0
  BY <1>1, FS_EmptySet
<1> QED
  BY <1>2, InitType DEF ControlInv, WakeupInv, Budget, B, Init, NotShut, Events

\* The steps of a loop, one disjunct of LoopStep or StoreError at a time.
LEMMA LoopControl ==
    ASSUME ControlInv, NEW l \in Loops, LoopStep(l) \/ StoreError(l)
    PROVE  WakeupInv' /\ Budget'
<1> USE DEF ControlInv
<1>0. Cardinality(Active) \in Nat /\ used["clear"] \in Nat
  BY ActiveFinite DEF TypeOK, Events
<1>1. ASSUME Active' = Active, l \in Active,
             UNCHANGED <<queue, processing, drainTimer, aborted, shut, used>>
      PROVE  WakeupInv' /\ Budget'
  BY <1>1 DEF WakeupInv, Budget
<1>2. CASE StoreIncrement(l)
  BY <1>1, <1>2, ActiveStays DEF StoreIncrement
<1>3. CASE ResumeStale(l)
  BY <1>1, <1>3, ActiveStays DEF ResumeStale
<1>4. CASE ResumeBlocked(l)
  BY <1>1, <1>4, ActiveStays DEF ResumeBlocked
<1>5. CASE ResumeAllowed(l)
  <2>1. Tail(queue) \in Seq(Requests)
    BY <1>5, HeadType DEF ResumeAllowed, IsHead, TypeOK
  <2>2. /\ loop[l].pc # "idle" /\ NextIteration(l, Tail(queue))
        /\ queue' = Tail(queue) /\ UNCHANGED <<drainTimer, shut, used>>
    BY <1>5 DEF ResumeAllowed
  <2>3. \/ /\ queue' = <<>> /\ processing' = (processing /\ drainTimer)
           /\ Cardinality(Active') = Cardinality(Active) - 1
        \/ /\ queue' # <<>> /\ Active' = Active /\ Active # {}
           /\ UNCHANGED <<processing, aborted>>
    BY <2>1, <2>2, NextIterationEffect
  <2>4. processing \in BOOLEAN /\ drainTimer \in BOOLEAN
    BY DEF TypeOK
  <2>5. CASE queue' = <<>>
    BY <1>0, <2>2, <2>3, <2>4, <2>5 DEF WakeupInv, Budget, B
  <2>6. CASE queue' # <<>>
    BY <1>0, <2>2, <2>3, <2>4, <2>6 DEF WakeupInv, Budget, B
  <2> QED BY <2>5, <2>6
<1>6. CASE UndoStale(l)
  <2>1. /\ loop[l].pc # "idle" /\ NextIteration(l, queue)
        /\ UNCHANGED <<queue, drainTimer, shut, used>>
    BY <1>6 DEF UndoStale
  <2> QED
    BY <1>0, <2>1, NextIterationEffect DEF WakeupInv, Budget, B, TypeOK
<1>7. CASE UndoBlocked(l)
  <2>1. Cardinality(Active') = Cardinality(Active) - 1
    BY <1>7, ActiveEnd DEF UndoBlocked
  <2> QED BY <1>0, <1>7, <2>1 DEF UndoBlocked, WakeupInv, Budget, B, TypeOK
<1>8. CASE StoreError(l)
  <2>1. Cardinality(Active') = Cardinality(Active) - 1
    BY <1>8, ActiveEnd DEF StoreError
  <2>2. used'["clear"] = used["clear"]
    BY <1>8 DEF StoreError, Disrupt, TypeOK, Events
  <2> QED BY <1>0, <1>8, <2>1, <2>2 DEF StoreError, WakeupInv, Budget, B, TypeOK
<1> QED BY <1>2, <1>3, <1>4, <1>5, <1>6, <1>7, <1>8 DEF LoopStep

\* Calls of drain() with the current flags: removeTokens and shutdown()'s polls.
LEMMA PlainDrainControl ==
    ASSUME ControlInv, queue' \in Seq(Requests), queue' # <<>>,
           Drain(queue', processing, drainTimer), UNCHANGED <<drainTimer, used>>,
           shut'.phase = "done" <=> shut.phase = "done"
    PROVE  WakeupInv' /\ Budget'
<1>1. Cardinality(Active) \in Nat /\ used["clear"] \in Nat
  BY ActiveFinite DEF ControlInv, TypeOK, Events
<1>2. processing \in BOOLEAN /\ drainTimer \in BOOLEAN
  BY DEF ControlInv, TypeOK
<1> QED
  BY <1>1, <1>2, DrainEffect DEF ControlInv, WakeupInv, Budget, B

LEMMA RemoveTokensControl ==
    ASSUME ControlInv, NEW r \in Requests, NEW c \in Costs, RemoveTokens(r, c)
    PROVE  WakeupInv' /\ Budget'
<1>1. queue' \in Seq(Requests) /\ queue' # <<>>
  BY DEF RemoveTokens, ControlInv, TypeOK
<1> QED BY <1>1, PlainDrainControl DEF RemoveTokens

LEMMA TimerControl ==
    ASSUME ControlInv, DrainTimerFires \/ (\E i \in DOMAIN queue : QueueTimeout(i))
    PROVE  WakeupInv' /\ Budget'
<1> USE DEF ControlInv
<1>0. Cardinality(Active) \in Nat /\ used["clear"] \in Nat
  BY ActiveFinite DEF TypeOK, Events
<1>1. CASE DrainTimerFires
  <2>1. queue \in Seq(Requests) /\ FALSE \in BOOLEAN
    BY DEF TypeOK
  <2>2. Drain(queue, FALSE, FALSE) /\ drainTimer /\ ~drainTimer' /\ UNCHANGED <<queue, shut, used>>
    BY <1>1 DEF DrainTimerFires, TypeOK
  <2>3. \/ /\ queue = <<>> /\ processing' = FALSE /\ Active' = Active
        \/ /\ queue # <<>> /\ processing'
           /\ Active' # {} /\ Cardinality(Active') = Cardinality(Active) + 1
    BY <2>1, <2>2, DrainEffect
  <2> QED BY <1>0, <2>2, <2>3 DEF WakeupInv, Budget, B
<1>2. ASSUME NEW i \in DOMAIN queue, QueueTimeout(i) PROVE WakeupInv' /\ Budget'
  <2> DEFINE restart == i = 1 /\ drainTimer
  <2>1. queue' \in Seq(Requests)
    BY <1>2, RemoveAtType DEF QueueTimeout, TypeOK
  <2>2. drainTimer' \in BOOLEAN /\ (processing /\ ~restart) \in BOOLEAN
    BY <1>2 DEF QueueTimeout, TypeOK
  <2>3. queue # <<>>
    BY DEF TypeOK
  <2>4. Drain(queue', processing /\ ~restart, drainTimer') /\ UNCHANGED <<shut, used>>
    BY <1>2 DEF QueueTimeout
  <2>5. drainTimer' = (drainTimer /\ ~restart)
    BY <1>2 DEF QueueTimeout
  <2>6. CASE restart
    <3>1. ~drainTimer' /\ drainTimer
      BY <2>5, <2>6
    <3>2. \/ /\ queue' = <<>> /\ ~processing' /\ Active' = Active
          \/ /\ queue' # <<>> /\ processing'
             /\ Active' # {} /\ Cardinality(Active') = Cardinality(Active) + 1
      BY <2>1, <2>2, <2>4, <2>6, <3>1, DrainEffect
    <3> QED BY <1>0, <2>4, <3>1, <3>2 DEF WakeupInv, Budget, B
  <2>7. CASE ~restart
    <3>1. drainTimer' = drainTimer
      BY <2>5, <2>7 DEF TypeOK
    <3>2. \/ /\ processing /\ processing' /\ Active' = Active
             /\ queue' # <<>> => aborted' = aborted
          \/ /\ ~processing /\ queue' = <<>> /\ processing' = drainTimer /\ Active' = Active
          \/ /\ ~processing /\ queue' # <<>> /\ processing'
             /\ Active' # {} /\ Cardinality(Active') = Cardinality(Active) + 1
      BY <2>1, <2>2, <2>4, <2>7, <3>1, DrainEffect
    <3> QED BY <1>0, <2>3, <2>4, <3>1, <3>2 DEF WakeupInv, Budget, B, TypeOK
  <2> QED BY <2>6, <2>7
<1> QED BY <1>1, <1>2

LEMMA ClearControl == ControlInv /\ Clear => WakeupInv' /\ Budget'
<1> SUFFICES ASSUME ControlInv, Clear PROVE WakeupInv' /\ Budget'
  OBVIOUS
<1>1. Active' = Active
  BY DEF Clear, Active
<1>2. used'["clear"] = used["clear"] + 1
  BY DEF Clear, Disrupt, ControlInv, TypeOK, Events
<1>3. Cardinality(Active) \in Nat /\ used["clear"] \in Nat
  BY ActiveFinite DEF ControlInv, TypeOK, Events
<1> QED
  BY <1>1, <1>2, <1>3 DEF Clear, ClearPending, ControlInv, WakeupInv, Budget, B

\* The reset at the end of shutdown() pays for the loop that it may orphan.
LEMMA ShutdownEndsControl ==
    ASSUME ControlInv, NEW len, NEW n, ShutdownEnds(len, n), shut.phase # "done",
           UNCHANGED used
    PROVE  WakeupInv' /\ Budget'
<1>1. Cardinality(Active) \in Nat /\ used["clear"] \in Nat
  BY ActiveFinite DEF ControlInv, TypeOK, Events
<1>2. \/ Active' = Active
      \/ ~processing /\ Cardinality(Active') = Cardinality(Active) + 1
  BY ActiveStart, HeadType DEF ShutdownEnds, StartsLoop, Active, ControlInv, TypeOK
<1>3. /\ queue' = <<>> /\ ~processing' /\ ~drainTimer'
      /\ shut'.phase = "done"
  BY DEF ShutdownEnds, ClearPending
<1> QED BY <1>1, <1>2, <1>3 DEF ControlInv, WakeupInv, Budget, B

LEMMA ShutdownControl ==
    ASSUME ControlInv, (\E polls \in 0..MaxPolls : Shutdown(polls)) \/ ShutdownPoll
    PROVE  WakeupInv' /\ Budget'
<1>0. queue \in Seq(Requests)
  BY DEF ControlInv, TypeOK
<1>1. ASSUME NEW polls \in 0..MaxPolls, Shutdown(polls) PROVE WakeupInv' /\ Budget'
  <2>1. CASE polls > 0 /\ queue # <<>>
    BY <1>0, <1>1, <2>1, PlainDrainControl DEF Shutdown, isShutdown
  <2>2. CASE ~(polls > 0 /\ queue # <<>>)
    BY <1>1, <2>2, ShutdownEndsControl DEF Shutdown, isShutdown
  <2> QED BY <2>1, <2>2
<1>2. CASE ShutdownPoll
  <2>1. CASE shut.pollsLeft > 1 /\ queue # <<>>
    <3>1. shut'.phase = shut.phase
      BY <1>2, <2>1 DEF ShutdownPoll, ControlInv, TypeOK
    <3> QED BY <1>0, <1>2, <2>1, <3>1, PlainDrainControl DEF ShutdownPoll
  <2>2. CASE ~(shut.pollsLeft > 1 /\ queue # <<>>)
    BY <1>2, <2>2, ShutdownEndsControl DEF ShutdownPoll
  <2> QED BY <2>1, <2>2
<1> QED BY <1>1, <1>2

\* Steps that leave the control state alone.
LEMMA OtherControl ==
    ASSUME ControlInv, UNCHANGED <<queue, processing, drainTimer, aborted, shut>>,
           Active' = Active, used'["clear"] = used["clear"]
    PROVE  WakeupInv' /\ Budget'
BY DEF ControlInv, WakeupInv, Budget

LEMMA NextControl == ControlInv /\ [Next]_vars => ControlInv'
<1> SUFFICES ASSUME ControlInv, [Next]_vars PROVE ControlInv'
  OBVIOUS
<1>1. TypeOK'
  BY TypeNext DEF ControlInv
<1>2. CASE \E l \in Loops : LoopStep(l) \/ StoreError(l)
  BY <1>1, <1>2, LoopControl DEF ControlInv
<1>3. ASSUME NEW r \in Requests, NEW c \in Costs, RemoveTokensRejected(r, c)
      PROVE  ControlInv'
  BY <1>1, <1>3, OtherControl DEF RemoveTokensRejected, Active, ControlInv
<1>4. CASE Roll
  <2>1. Active' = Active
    BY <1>4 DEF Roll, Active, At
  <2> QED BY <1>1, <1>4, <2>1, OtherControl DEF Roll, ControlInv
<1>5. CASE Refill
  BY <1>1, <1>5, OtherControl DEF Refill, Active, control, ControlInv
<1>6. CASE PeekIncrement \/ PeekIncrementFails \/ PeekDecrement \/ PeekDecrementFails
  <2>1. used'["clear"] = used["clear"]
    BY <1>6 DEF PeekIncrement, PeekIncrementFails, PeekDecrement, PeekDecrementFails, Disrupt,
                ControlInv, TypeOK, Events
  <2>2. UNCHANGED <<queue, processing, drainTimer, aborted, shut, loop>>
    BY <1>6 DEF PeekIncrement, PeekIncrementFails, PeekDecrement, PeekDecrementFails, control
  <2> QED BY <1>1, <2>1, <2>2, OtherControl DEF Active, ControlInv
<1>7. CASE ShutdownAgain
  <2>1. used'["clear"] = used["clear"]
    BY <1>7 DEF ShutdownAgain, ControlInv, TypeOK, Events
  <2> QED BY <1>1, <1>7, <2>1, OtherControl DEF ShutdownAgain, Active, control, ControlInv
<1>8. CASE UNCHANGED vars
  BY <1>1, <1>8, OtherControl DEF vars, Active, ControlInv
<1>9. CASE \E r \in Requests, c \in Costs : RemoveTokens(r, c)
  BY <1>1, <1>9, RemoveTokensControl DEF ControlInv
<1>10. CASE DrainTimerFires \/ (\E i \in DOMAIN queue : QueueTimeout(i))
  BY <1>1, <1>10, TimerControl DEF ControlInv
<1>11. CASE Clear
  BY <1>1, <1>11, ClearControl DEF ControlInv
<1>12. CASE (\E polls \in 0..MaxPolls : Shutdown(polls)) \/ ShutdownPoll
  BY <1>1, <1>12, ShutdownControl DEF ControlInv
<1> QED
  BY <1>2, <1>3, <1>4, <1>5, <1>6, <1>7, <1>8, <1>9, <1>10, <1>11, <1>12 DEF Next

LEMMA ControlInductive == Spec => []ControlInv
BY InitControl, NextControl, PTL DEF Spec

\* While calls wait, a drain loop runs or the retry timer is set, unless a
\* store error has killed the loop (and the next drain() may start one).
THEOREM NoLostWakeup == Spec => []DrainAlive
<1>1. ControlInv => DrainAlive
  BY DEF ControlInv, WakeupInv, DrainAlive, TypeOK
<1> QED BY <1>1, ControlInductive, PTL

\* However clear(), timeouts, store errors and shutdown() interleave, at most
\* one drain loop per reset of processing runs beside the regular one.
THEOREM ConcurrentLoopsBounded == Spec => []LoopsBounded
<1>1. ControlInv => LoopsBounded
  BY ActiveFinite DEF ControlInv, Budget, B, LoopsBounded, TypeOK, Events
<1> QED BY <1>1, ControlInductive, PTL

-----------------------------------------------------------------------------
(* The queue and the promises                                              *)

Distinct(q) == \A i, j \in DOMAIN q : q[i] = q[j] => i = j

LEMMA AppendDistinct ==
    ASSUME NEW q \in Seq(Requests), Distinct(q), NEW r \in Requests, r \notin Range(q)
    PROVE  /\ Distinct(Append(q, r))
           /\ Range(Append(q, r)) = Range(q) \cup {r}
<1>1. /\ DOMAIN q = 1..Len(q) /\ Len(q) \in Nat
      /\ DOMAIN Append(q, r) = 1..(Len(q) + 1)
      /\ \A i \in 1..Len(q) : Append(q, r)[i] = q[i]
      /\ Append(q, r)[Len(q) + 1] = r
  OBVIOUS
<1>2. Distinct(Append(q, r))
  BY <1>1 DEF Distinct, Range
<1>3. Range(Append(q, r)) \subseteq Range(q) \cup {r}
  BY <1>1 DEF Range
<1>4. Range(q) \cup {r} \subseteq Range(Append(q, r))
  <2>1. r \in Range(Append(q, r))
    BY <1>1 DEF Range
  <2>2. ASSUME NEW i \in 1..Len(q) PROVE q[i] \in Range(Append(q, r))
    BY <1>1 DEF Range
  <2> QED BY <1>1, <2>1, <2>2 DEF Range
<1> QED BY <1>2, <1>3, <1>4

LEMMA TailDistinct ==
    ASSUME NEW q \in Seq(Requests), Distinct(q), q # <<>>
    PROVE  /\ Distinct(Tail(q))
           /\ Range(Tail(q)) = Range(q) \ {Head(q)}
<1>1. /\ DOMAIN Tail(q) = 1..(Len(q) - 1) /\ DOMAIN q = 1..Len(q) /\ Len(q) \in Nat \ {0}
      /\ \A i \in 1..(Len(q) - 1) : Tail(q)[i] = q[i + 1]
      /\ Head(q) = q[1]
  OBVIOUS
<1>2. Distinct(Tail(q))
  BY <1>1 DEF Distinct
<1>3. Range(Tail(q)) \subseteq Range(q) \ {Head(q)}
  BY <1>1 DEF Distinct, Range
<1>4. ASSUME NEW x \in Range(q), x # Head(q) PROVE x \in Range(Tail(q))
  <2>1. PICK i \in 1..Len(q) : x = q[i]
    BY <1>1 DEF Range
  <2>2. i - 1 \in 1..(Len(q) - 1) /\ Tail(q)[i - 1] = x
    BY <1>1, <1>4, <2>1
  <2> QED BY <1>1, <2>2 DEF Range
<1> QED BY <1>2, <1>3, <1>4

\* What remains of a sequence without its i-th element.
LEMMA RemoveAtElements ==
    ASSUME NEW q \in Seq(Requests), NEW i \in DOMAIN q
    PROVE  /\ DOMAIN q = 1..Len(q) /\ Len(q) \in Nat \ {0} /\ i \in 1..Len(q)
           /\ DOMAIN RemoveAt(q, i) = 1..(Len(q) - 1) /\ Len(RemoveAt(q, i)) = Len(q) - 1
           /\ \A j \in 1..(Len(q) - 1) :
                 RemoveAt(q, i)[j] = IF j < i THEN q[j] ELSE q[j + 1]
<1> DEFINE p == RemoveAt(q, i)
           front == SubSeq(q, 1, i - 1)
           back == SubSeq(q, i + 1, Len(q))
<1>1. DOMAIN q = 1..Len(q) /\ Len(q) \in Nat \ {0} /\ i \in 1..Len(q)
  OBVIOUS
<1>2. /\ front \in Seq(Requests) /\ Len(front) = i - 1
      /\ \A j \in 1..(i - 1) : front[j] = q[j]
  BY <1>1
<1>3. /\ back \in Seq(Requests) /\ Len(back) = Len(q) - i
      /\ \A j \in 1..(Len(q) - i) : back[j] = q[j + i]
  BY <1>1
<1>4. p = front \o back
  BY DEF RemoveAt
<1> HIDE DEF p, front, back
<1>5. /\ p \in Seq(Requests) /\ Len(p) = Len(front) + Len(back)
      /\ \A j \in 1..(Len(front) + Len(back)) :
            p[j] = IF j <= Len(front) THEN front[j] ELSE back[j - Len(front)]
  BY <1>2, <1>3, <1>4, ConcatProperties
<1>6. DOMAIN p = 1..(Len(q) - 1) /\ Len(p) = Len(q) - 1
  BY <1>1, <1>2, <1>3, <1>5
<1>7. ASSUME NEW j \in 1..(Len(q) - 1) PROVE p[j] = IF j < i THEN q[j] ELSE q[j + 1]
  <2>1. CASE j < i
    BY <1>1, <1>2, <1>3, <1>5, <2>1
  <2>2. CASE ~(j < i)
    <3>1. j - (i - 1) \in 1..(Len(q) - i) /\ ~(j <= i - 1) /\ (j - (i - 1)) + i = j + 1
      BY <1>1, <2>2
    <3>2. p[j] = back[j - (i - 1)]
      <4>1. /\ Len(front) = i - 1 /\ ~(j <= Len(front))
            /\ j \in 1..(Len(front) + Len(back))
        BY <1>1, <1>2, <1>3, <3>1
      <4> QED BY <1>5, <4>1
    <3>3. back[j - (i - 1)] = q[j + 1]
      BY <1>1, <1>3, <3>1
    <3> QED BY <2>2, <3>2, <3>3
  <2> QED BY <2>1, <2>2
<1> QED BY <1>1, <1>6, <1>7 DEF p

LEMMA RemoveAtDistinct ==
    ASSUME NEW q \in Seq(Requests), Distinct(q), NEW i \in DOMAIN q
    PROVE  /\ Distinct(RemoveAt(q, i))
           /\ Range(RemoveAt(q, i)) = Range(q) \ {q[i]}
<1> DEFINE p == RemoveAt(q, i)
<1>1. /\ DOMAIN q = 1..Len(q) /\ Len(q) \in Nat \ {0} /\ i \in 1..Len(q)
      /\ DOMAIN p = 1..(Len(q) - 1)
      /\ \A j \in 1..(Len(q) - 1) : p[j] = IF j < i THEN q[j] ELSE q[j + 1]
  BY RemoveAtElements
<1> HIDE DEF p
<1>2. Distinct(p)
  BY <1>1 DEF Distinct
<1>3. Range(p) \subseteq Range(q) \ {q[i]}
  BY <1>1 DEF Distinct, Range
<1>4. ASSUME NEW x \in Range(q), x # q[i] PROVE x \in Range(p)
  <2>1. PICK j \in 1..Len(q) : x = q[j]
    BY <1>1 DEF Range
  <2>2. CASE j < i
    BY <1>1, <2>1, <2>2 DEF Range
  <2>3. CASE j > i
    <3>1. j - 1 \in 1..(Len(q) - 1) /\ p[j - 1] = x
      BY <1>1, <2>1, <2>3
    <3> QED BY <1>1, <3>1 DEF Range
  <2> QED BY <1>1, <1>4, <2>1, <2>2, <2>3
<1> QED BY <1>1, <1>2, <1>3, <1>4 DEF p

\* A promise is pending if and only if its entry is in the queue.
LEMMA PendingInit == Init => QueueIsPending
BY DEF Init, QueueIsPending, Range

LEMMA PendingStep ==
    ASSUME TypeOK, QueueIsPending, [Next]_vars
    PROVE  QueueIsPending'
<1> DEFINE Waiting == {r \in Requests : outcome[r] = "waiting"}
<1>0. /\ queue \in Seq(Requests) /\ Distinct(queue) /\ Range(queue) = Waiting
      /\ outcome \in [Requests -> {"new", "waiting", "resolved", "rejected"}]
  BY DEF TypeOK, QueueIsPending, Distinct
<1>00. QueueIsPending' <=> Distinct(queue') /\ Range(queue') = Waiting'
  BY DEF QueueIsPending, Distinct
<1>1. ASSUME UNCHANGED <<queue, outcome>> PROVE QueueIsPending'
  BY <1>1 DEF QueueIsPending
<1>2. ASSUME ClearPending PROVE QueueIsPending'
  <2>1. queue' = <<>> /\ Waiting' = {}
    BY <1>0, <1>2 DEF ClearPending
  <2> QED BY <1>00, <2>1 DEF Distinct, Range
<1>3. ASSUME NEW l \in Loops, LoopStep(l) \/ StoreError(l) PROVE QueueIsPending'
  <2>1. CASE ResumeAllowed(l)
    <3>1. queue # <<>> /\ queue' = Tail(queue)
          /\ outcome' = [outcome EXCEPT ![Head(queue)] = "resolved"]
      BY <2>1 DEF ResumeAllowed, IsHead
    <3>2. Head(queue) \in Requests
      BY <1>0, <3>1
    <3>3. Waiting' = Waiting \ {Head(queue)}
      BY <1>0, <3>1, <3>2
    <3> QED BY <1>0, <1>00, <3>1, <3>3, TailDistinct
  <2>2. CASE ~ResumeAllowed(l)
    BY <1>1, <1>3, <2>2 DEF LoopStep, StoreIncrement, ResumeStale, ResumeBlocked, UndoStale,
                             UndoBlocked, StoreError
  <2> QED BY <2>1, <2>2
<1>4. ASSUME NEW r \in Requests, NEW c \in Costs, RemoveTokens(r, c) \/ RemoveTokensRejected(r, c)
      PROVE QueueIsPending'
  <2>1. r \notin Waiting
    BY <1>4 DEF RemoveTokens, RemoveTokensRejected, NextCall
  <2>2. CASE RemoveTokensRejected(r, c)
    <3>1. Waiting' = Waiting /\ queue' = queue
      BY <1>0, <2>1, <2>2 DEF RemoveTokensRejected
    <3> QED BY <1>0, <1>00, <3>1
  <2>3. CASE RemoveTokens(r, c)
    <3>1. Waiting' = Waiting \cup {r} /\ queue' = Append(queue, r)
      BY <1>0, <2>1, <2>3 DEF RemoveTokens
    <3> QED BY <1>0, <1>00, <2>1, <3>1, AppendDistinct
  <2> QED BY <1>4, <2>2, <2>3
<1>5. ASSUME NEW i \in DOMAIN queue, QueueTimeout(i) PROVE QueueIsPending'
  <2>1. queue[i] \in Requests
    BY <1>0
  <2>2. queue' = RemoveAt(queue, i) /\ Waiting' = Waiting \ {queue[i]}
    BY <1>0, <1>5, <2>1 DEF QueueTimeout
  <2> QED BY <1>0, <1>00, <2>2, RemoveAtDistinct
<1>6. ASSUME NEW polls \in 0..MaxPolls, Shutdown(polls) PROVE QueueIsPending'
  BY <1>1, <1>2, <1>6 DEF Shutdown, ShutdownEnds
<1>7. CASE ShutdownPoll
  BY <1>1, <1>2, <1>7 DEF ShutdownPoll, ShutdownEnds
<1>8. CASE Clear
  BY <1>2, <1>8 DEF Clear
<1>9. CASE DrainTimerFires \/ Roll \/ Refill \/ ShutdownAgain
  BY <1>1, <1>9 DEF DrainTimerFires, Roll, Refill, ShutdownAgain, control
<1>10. CASE PeekIncrement \/ PeekIncrementFails \/ PeekDecrement \/ PeekDecrementFails
  BY <1>1, <1>10 DEF PeekIncrement, PeekIncrementFails, PeekDecrement, PeekDecrementFails, control
<1>11. CASE UNCHANGED vars
  BY <1>1, <1>11 DEF vars
<1> QED
  BY <1>3, <1>4, <1>5, <1>6, <1>7, <1>8, <1>9, <1>10, <1>11 DEF Next

\* The FIFO holds exactly the calls whose promise is pending, each once, under every
\* interleaving of drain loops, queue timeouts, clear() and shutdown(): no call is
\* forgotten with its promise open, none is settled twice.
THEOREM PromisesAreQueued == Spec => []QueueIsPending
<1>1. TypeOK /\ QueueIsPending /\ [Next]_vars => QueueIsPending'
  BY PendingStep
<1> QED BY <1>1, PendingInit, TypeCorrect, PTL DEF Spec

-----------------------------------------------------------------------------
(* The report of shutdown()                                                *)

\* What shutdown() found in the queue has been resolved, has timed out or is
\* still there; once it has ended, the queue stays empty.
ShutdownAccount ==
    /\ shut.phase = "no" => served = 0
    /\ shut.phase = "polling" /\ used["again"] = 0 =>
          shut.lenAtStart = Len(queue) + served + unlinks
    /\ shut.phase = "done" => queue = <<>>
    /\ ShutdownReportExact

LEMMA AccountInit == Init => ShutdownAccount
BY DEF Init, NotShut, ShutdownAccount, ShutdownReportExact

\* The end of shutdown(), after served resolutions and timedOut timeouts.
LEMMA EndOfShutdown ==
    ASSUME TypeOK, NEW lenAtStart, NEW timedOut, ShutdownEnds(lenAtStart, timedOut),
           UNCHANGED <<served, used>>,
           used["again"] = 0 => lenAtStart = Len(queue) + served + timedOut,
           timedOut \in Nat
    PROVE  ShutdownAccount'
<1>1. shut'.phase = "done" /\ queue' = <<>>
  BY DEF ShutdownEnds, ClearPending
<1>2. Len(queue) \in Nat /\ served \in Nat
  BY DEF TypeOK
<1>3. ASSUME used["again"] = 0 PROVE shut'.drained = served
  BY <1>2, <1>3 DEF ShutdownEnds, Floor
<1> QED BY <1>1, <1>3 DEF ShutdownAccount, ShutdownReportExact

LEMMA AccountStep ==
    ASSUME TypeOK, ShutdownAccount, [Next]_vars
    PROVE  ShutdownAccount'
<1>0. /\ queue \in Seq(Requests) /\ Len(queue) \in Nat /\ served \in Nat /\ unlinks \in Nat
      /\ shut.phase \in {"no", "polling", "done"} /\ used \in [Events -> Nat]
  BY DEF TypeOK
<1>1. ASSUME UNCHANGED <<shut, served, queue, unlinks>>, used'["again"] = used["again"]
      PROVE  ShutdownAccount'
  BY <1>1 DEF ShutdownAccount, ShutdownReportExact
<1>2. ASSUME NEW event \in {"clear", "peek", "error"}, Disrupt(event)
      PROVE  used'["again"] = used["again"]
  BY <1>0, <1>2 DEF Disrupt, Events
<1>3. ASSUME NEW l \in Loops, LoopStep(l) PROVE ShutdownAccount'
  <2>1. CASE ResumeAllowed(l)
    <3>1. /\ queue # <<>> /\ queue' = Tail(queue) /\ UNCHANGED <<shut, unlinks, used>>
          /\ served' = IF isShutdown THEN served + 1 ELSE served
      BY <2>1 DEF ResumeAllowed, IsHead
    <3>2. Len(queue') = Len(queue) - 1
      BY <1>0, <3>1
    <3> QED BY <1>0, <3>1, <3>2 DEF ShutdownAccount, ShutdownReportExact, isShutdown
  <2>2. CASE ~ResumeAllowed(l)
    BY <1>1, <1>3, <2>2 DEF LoopStep, StoreIncrement, ResumeStale, ResumeBlocked, UndoStale,
                             UndoBlocked
  <2> QED BY <2>1, <2>2
<1>4. ASSUME NEW l \in Loops, StoreError(l) PROVE ShutdownAccount'
  BY <1>1, <1>2, <1>4 DEF StoreError
<1>5. ASSUME NEW r \in Requests, NEW c \in Costs, RemoveTokens(r, c) \/ RemoveTokensRejected(r, c)
      PROVE ShutdownAccount'
  <2>1. CASE RemoveTokens(r, c)
    BY <1>0, <2>1 DEF RemoveTokens, Refused, isShutdown, ShutdownAccount, ShutdownReportExact
  <2>2. CASE RemoveTokensRejected(r, c)
    BY <1>1, <2>2 DEF RemoveTokensRejected
  <2> QED BY <1>5, <2>1, <2>2
<1>6. ASSUME NEW i \in DOMAIN queue, QueueTimeout(i) PROVE ShutdownAccount'
  <2>1. /\ queue # <<>> /\ queue' = RemoveAt(queue, i) /\ UNCHANGED <<shut, served, used>>
        /\ unlinks' = IF isShutdown THEN unlinks + 1 ELSE unlinks
    BY <1>6 DEF QueueTimeout
  <2>2. Len(queue') = Len(queue) - 1
    BY <1>0, <2>1, RemoveAtElements
  <2> QED BY <1>0, <2>1, <2>2 DEF ShutdownAccount, ShutdownReportExact, isShutdown
<1>7. ASSUME NEW polls \in 0..MaxPolls, Shutdown(polls) PROVE ShutdownAccount'
  <2>1. shut.phase = "no" /\ served = 0 /\ UNCHANGED <<served, used>>
    BY <1>7 DEF Shutdown, isShutdown, ShutdownAccount
  <2>2. CASE ShutdownEnds(Len(queue), 0)
    BY <1>0, <2>1, <2>2, EndOfShutdown
  <2>3. CASE ~ShutdownEnds(Len(queue), 0)
    <3>1. /\ shut' = [phase |-> "polling", lenAtStart |-> Len(queue), pollsLeft |-> polls, drained |-> 0]
          /\ unlinks' = 0 /\ queue' = queue
      BY <1>7, <2>3 DEF Shutdown
    <3> QED BY <1>0, <2>1, <3>1 DEF ShutdownAccount, ShutdownReportExact
  <2> QED BY <2>2, <2>3
<1>8. CASE ShutdownPoll
  <2>1. shut.phase = "polling" /\ UNCHANGED <<served, used>>
    BY <1>8 DEF ShutdownPoll
  <2>2. CASE ShutdownEnds(shut.lenAtStart, unlinks)
    <3>1. used["again"] = 0 => shut.lenAtStart = Len(queue) + served + unlinks
      BY <2>1 DEF ShutdownAccount
    <3> QED BY <1>0, <2>1, <2>2, <3>1, EndOfShutdown
  <2>3. CASE ~ShutdownEnds(shut.lenAtStart, unlinks)
    <3>1. /\ shut' = [shut EXCEPT !.pollsLeft = @ - 1] /\ UNCHANGED <<queue, unlinks>>
      BY <1>8, <2>3 DEF ShutdownPoll
    <3>2. shut'.phase = "polling" /\ shut'.lenAtStart = shut.lenAtStart
      BY <2>1, <3>1 DEF TypeOK
    <3> QED BY <2>1, <3>1, <3>2 DEF ShutdownAccount, ShutdownReportExact
  <2> QED BY <2>2, <2>3
<1>9. CASE ShutdownAgain
  <2>1. /\ shut.phase # "no" /\ UNCHANGED <<shut, served, queue>> /\ used'["again"] = used["again"] + 1
    BY <1>0, <1>9 DEF ShutdownAgain, control, isShutdown, Events
  <2>2. used'["again"] # 0
    BY <1>0, <2>1 DEF Events
  <2> QED BY <2>1, <2>2 DEF ShutdownAccount, ShutdownReportExact
<1>10. CASE Clear
  BY <1>0, <1>2, <1>10 DEF Clear, isShutdown, ShutdownAccount, ShutdownReportExact
<1>11. CASE DrainTimerFires \/ Roll \/ Refill
  BY <1>1, <1>11 DEF DrainTimerFires, Roll, Refill, control
<1>12. CASE PeekIncrement \/ PeekIncrementFails
  BY <1>1, <1>2, <1>12 DEF PeekIncrement, PeekIncrementFails, control
<1>13. CASE PeekDecrement \/ PeekDecrementFails
  BY <1>1, <1>13 DEF PeekDecrement, PeekDecrementFails, control
<1>14. CASE UNCHANGED vars
  BY <1>1, <1>14 DEF vars
<1> QED
  BY <1>3, <1>4, <1>5, <1>6, <1>7, <1>8, <1>9, <1>10, <1>11, <1>12, <1>13, <1>14 DEF Next

\* A single shutdown() reports as drained exactly the calls that were resolved since
\* it began, however its polls interleave with resolutions and queue timeouts: the
\* entries that leave by timeout are subtracted once each.
THEOREM ShutdownReport == Spec => []ShutdownReportExact
<1>1. TypeOK /\ ShutdownAccount /\ [Next]_vars => ShutdownAccount'
  BY AccountStep
<1>2. ShutdownAccount => ShutdownReportExact
  BY DEF ShutdownAccount
<1> QED BY <1>1, <1>2, AccountInit, TypeCorrect, PTL DEF Spec

-----------------------------------------------------------------------------
(* Admission                                                               *)

\* A sum over the loops as a cardinality: one slot for each unit held.
Amounts == [Loops -> 0..Limit]
Slots(f) == {s \in Loops \X (1..Limit) : s[2] <= f[s[1]]}
Total(f) == Cardinality(Slots(f))

LEMMA SlotsSplit ==
    ASSUME NEW f \in Amounts, NEW l \in Loops
    PROVE  /\ Total(f) \in Nat
           /\ Cardinality({s \in Slots(f) : s[1] # l}) \in Nat
           /\ Total(f) = Cardinality({s \in Slots(f) : s[1] # l}) + f[l]
<1> DEFINE others == {s \in Slots(f) : s[1] # l}
           unit == {l}
           units == 1..f[l]
           mine == unit \X units
<1>1. Limit \in Nat /\ f[l] \in Nat /\ f[l] <= Limit
  BY QueueAssumption DEF Amounts
<1>2. IsFiniteSet(Slots(f))
  <2>1. IsFiniteSet(Loops) /\ IsFiniteSet(1..Limit)
    BY <1>1, QueueAssumption, FS_Interval
  <2>2. IsFiniteSet(Loops \X (1..Limit))
    BY <2>1, FS_Product
  <2> QED BY <2>2, FS_Subset DEF Slots
<1>3. IsFiniteSet(others)
  BY <1>2, FS_Subset
<1>4. IsFiniteSet(mine) /\ Cardinality(mine) = f[l]
  <2>1. IsFiniteSet(unit) /\ Cardinality(unit) = 1
    BY FS_Singleton
  <2>2. IsFiniteSet(units) /\ Cardinality(units) = f[l]
    <3>1. PICK n \in Nat : n = f[l]
      BY <1>1
    <3>2. IsFiniteSet(1..n) /\ Cardinality(1..n) = IF 1 > n THEN 0 ELSE n - 1 + 1
      BY FS_Interval, 1 \in Int, n \in Int
    <3>3. Cardinality(1..n) = n
      BY <3>2
    <3> QED BY <3>1, <3>2, <3>3
  <2> HIDE DEF unit, units
  <2>3. IsFiniteSet(mine) /\ Cardinality(mine) = Cardinality(unit) * Cardinality(units)
    BY <2>1, <2>2, FS_Product
  <2> QED BY <1>1, <2>1, <2>2, <2>3
<1>5. Slots(f) = others \cup mine
  <2>1. ASSUME NEW s \in Slots(f), s[1] = l PROVE s \in mine
    <3>1. s \in Loops \X (1..Limit) /\ s[2] <= f[l]
      BY <2>1 DEF Slots
    <3>2. s = <<s[1], s[2]>> /\ s[2] \in 1..Limit
      BY <3>1
    <3> QED BY <1>1, <2>1, <3>1, <3>2
  <2>2. ASSUME NEW s \in mine PROVE s \in Slots(f)
    BY <1>1 DEF Slots
  <2> QED BY <2>1, <2>2
<1>6. others \cap mine = {}
  OBVIOUS
<1>7. Cardinality(others) \in Nat /\ Cardinality(Slots(f)) \in Nat
  BY <1>2, <1>3, FS_CardinalityType
<1> HIDE DEF others, mine
<1>8. Cardinality(others \cap mine) = 0
  BY <1>6, FS_EmptySet
<1>9. Cardinality(Slots(f)) = Cardinality(others) + f[l]
  <2>1. Cardinality(others \cup mine)
          = Cardinality(others) + Cardinality(mine) - Cardinality(others \cap mine)
    BY <1>3, <1>4, FS_Union, Zenon
  <2> QED BY <1>1, <1>4, <1>5, <1>7, <1>8, <2>1
<1> QED BY <1>7, <1>9 DEF others, Total

\* Only loop l changes what it holds.
LEMMA TotalMoves ==
    ASSUME NEW f \in Amounts, NEW l \in Loops, NEW c \in 0..Limit
    PROVE  /\ [f EXCEPT ![l] = c] \in Amounts
           /\ Total([f EXCEPT ![l] = c]) = Total(f) - f[l] + c
<1> DEFINE g == [f EXCEPT ![l] = c]
<1>1. g \in Amounts /\ g[l] = c /\ \A m \in Loops \ {l} : g[m] = f[m]
  BY DEF Amounts
<1>2. Limit \in Nat /\ f[l] \in Nat
  BY QueueAssumption DEF Amounts
<1> DEFINE restF == {s \in Slots(f) : s[1] # l}
           restG == {s \in Slots(g) : s[1] # l}
<1>3. restG = restF
  BY <1>1 DEF Slots
<1> HIDE DEF g
<1>4. Cardinality(restF) \in Nat /\ Total(f) = Cardinality(restF) + f[l]
  BY SlotsSplit
<1>5. Total(g) = Cardinality(restG) + c
  BY <1>1, SlotsSplit
<1> HIDE DEF restF, restG
<1>6. Total(g) = Total(f) - f[l] + c
  BY <1>2, <1>3, <1>4, <1>5
<1> QED BY <1>1, <1>6 DEF g

LEMMA TotalType ==
    ASSUME NEW f \in Amounts
    PROVE  Total(f) \in Nat
<1>1. IsFiniteSet(Loops) /\ IsFiniteSet(1..Limit)
  BY QueueAssumption, FS_Interval
<1>2. IsFiniteSet(Loops \X (1..Limit))
  BY <1>1, FS_Product
<1>3. IsFiniteSet(Slots(f))
  BY <1>2, FS_Subset DEF Slots
<1> QED BY <1>3, FS_CardinalityType DEF Total

LEMMA TotalZero ==
    ASSUME NEW f, \A l \in Loops : f[l] = 0
    PROVE  Total(f) = 0
<1>1. Slots(f) = {}
  BY QueueAssumption DEF Slots
<1> QED BY <1>1, FS_EmptySet DEF Total

\* Loop l awaits the decision on an increment that the store has counted in
\* the present window, and that it has answered with kind.
Kinds == {"allowed", "blocked"}
Holds(l, kind) ==
    /\ loop[l].pc \in {"reply", "stale", "retry"}
    /\ ~loop[l].late /\ Counted(loop[l].blocked)
    /\ kind = IF loop[l].blocked THEN "blocked" ELSE "allowed"
Amount(kind) == [l \in Loops |-> IF Holds(l, kind) THEN cost[loop[l].req] ELSE 0]
PeekHeld == IF peek = "held" THEN 1 ELSE 0

\* The ledger's held is what the loops and the peek in flight hold.
HeldInv ==
    /\ ledger.heldOk = Total(Amount("allowed"))
    /\ ledger.held = Total(Amount("allowed")) + Total(Amount("blocked")) + PeekHeld

\* The store knows of all that was admitted or is held.
BoundInv ==
    /\ ledger.admitted + ledger.held <= level + ledger.credit
    /\ ledger.admitted + ledger.heldOk <= Limit + ledger.credit

\* A loop works for a call that has been made, so its cost is settled.
LoopsKnown == \A l \in Loops : loop[l].pc # "idle" => outcome[loop[l].req] # "new"

AdmissionInv == HeldInv /\ BoundInv /\ peek # "uncounted"

LEMMA AmountType ==
    ASSUME TypeOK, NEW kind \in Kinds
    PROVE  Amount(kind) \in Amounts
<1>1. ASSUME NEW l \in Loops, Holds(l, kind) PROVE cost[loop[l].req] \in 0..Limit
  BY <1>1, LoopFields DEF Holds
<1>2. 0 \in 0..Limit
  BY QueueAssumption
<1> QED BY <1>1, <1>2 DEF Amount, Amounts

LEMMA LoopsKnownInit == Init => LoopsKnown
BY DEF Init, LoopsKnown, IdleLoop, At

\* A head that a drain loop takes up belongs to a call that has been made.
LEMMA LoopsKnownStep ==
    ASSUME TypeOK, QueueIsPending, QueueIsPending', LoopsKnown, [Next]_vars
    PROVE  LoopsKnown'
<1>0. /\ loop \in [Loops -> LoopState]
      /\ queue \in Seq(Requests)
      /\ outcome \in [Requests -> {"new", "waiting", "resolved", "rejected"}]
  BY DEF TypeOK
<1>1. ASSUME NEW l \in Loops, loop[l].pc # "idle" PROVE loop[l].req \in Requests
  BY <1>1, LoopFields
<1>3. ASSUME NEW q \in Seq(Requests), q # <<>>, q = queue
      PROVE  Head(q) \in Requests /\ outcome[Head(q)] # "new"
  <2>1. Head(q) \in Range(queue)
    BY <1>3 DEF Range
  <2> QED BY <2>1 DEF QueueIsPending
<1>4. ASSUME queue' \in Seq(Requests), queue' # <<>>
      PROVE  Head(queue') \in Requests /\ outcome'[Head(queue')] # "new"
  <2>1. Head(queue') \in Range(queue')
    BY <1>4 DEF Range
  <2> QED BY <2>1 DEF QueueIsPending
\* Loops that Drain may start.
<1>5. ASSUME NEW r \in Requests, outcome'[r] # "new", StartLoop(r),
             \A s \in Requests : outcome[s] # "new" => outcome'[s] # "new"
      PROVE  LoopsKnown'
  <2>1. PICK m : loop' = [loop EXCEPT ![m] = Awaiting(r)]
    BY <1>5 DEF StartLoop
  <2>2. \A l \in Loops : loop'[l] = loop[l] \/ loop'[l] = Awaiting(r)
    BY <1>0, <2>1
  <2> QED BY <1>1, <1>5, <2>2 DEF LoopsKnown, Awaiting, At
<1>6. ASSUME UNCHANGED loop, \A s \in Requests : outcome[s] # "new" => outcome'[s] # "new"
      PROVE  LoopsKnown'
  BY <1>1, <1>6 DEF LoopsKnown
<1>7. ASSUME NEW p, NEW t, Drain(queue', p, t), queue' \in Seq(Requests),
             \A s \in Requests : outcome[s] # "new" => outcome'[s] # "new"
      PROVE  LoopsKnown'
  BY <1>4, <1>5, <1>6, <1>7 DEF Drain
<1>8. ASSUME NEW l \in Loops, NEW q \in Seq(Requests), NextIteration(l, q), q = queue',
             \A s \in Requests : outcome[s] # "new" => outcome'[s] # "new"
      PROVE  LoopsKnown'
  <2>1. CASE q = <<>>
    <3>1. \A m \in Loops : loop'[m] = loop[m] \/ loop'[m].pc = "idle"
      BY <1>0, <1>8, <2>1 DEF NextIteration, IdleLoop, At
    <3> QED BY <1>1, <1>8, <3>1 DEF LoopsKnown
  <2>2. CASE q # <<>>
    <3>1. \A m \in Loops : loop'[m] = loop[m] \/ loop'[m] = Awaiting(Head(q))
      BY <1>0, <1>8, <2>2 DEF NextIteration
    <3> QED BY <1>1, <1>4, <1>8, <2>2, <3>1 DEF LoopsKnown, Awaiting, At
  <2> QED BY <2>1, <2>2
<1>9. ASSUME NEW l \in Loops, NEW pc, NEW b, NEW t, loop[l].pc # "idle", UNCHANGED outcome,
             loop' = [loop EXCEPT ![l] = At(pc, loop[l].req, b, t)]
      PROVE  LoopsKnown'
  <2>1. \A m \in Loops : loop'[m] = loop[m] \/ (m = l /\ loop'[m].req = loop[l].req)
    BY <1>0, <1>9 DEF At
  <2> QED BY <1>1, <1>9, <2>1 DEF LoopsKnown
<1>10. ASSUME NEW l \in Loops, loop' = [loop EXCEPT ![l] = IdleLoop], UNCHANGED outcome
       PROVE  LoopsKnown'
  <2>1. \A m \in Loops : loop'[m] = loop[m] \/ loop'[m].pc = "idle"
    BY <1>0, <1>10 DEF IdleLoop, At
  <2> QED BY <1>1, <1>10, <2>1 DEF LoopsKnown
<1>11. ASSUME NEW l \in Loops, LoopStep(l) \/ StoreError(l) PROVE LoopsKnown'
  <2>1. CASE StoreIncrement(l)
    BY <1>9, <2>1 DEF StoreIncrement
  <2>2. CASE ResumeStale(l)
    BY <1>9, <2>2 DEF ResumeStale
  <2>3. CASE ResumeBlocked(l)
    BY <1>9, <2>3 DEF ResumeBlocked
  <2>4. CASE ResumeAllowed(l)
    <3>1. \A s \in Requests : outcome[s] # "new" => outcome'[s] # "new"
      BY <1>0, <2>4 DEF ResumeAllowed
    <3>2. Tail(queue) \in Seq(Requests) /\ queue' = Tail(queue) /\ NextIteration(l, Tail(queue))
      BY <1>0, <2>4, HeadType DEF ResumeAllowed, IsHead
    <3> QED BY <1>8, <3>1, <3>2
  <2>5. CASE UndoStale(l)
    BY <1>0, <1>8, <2>5 DEF UndoStale
  <2>6. CASE UndoBlocked(l)
    BY <1>10, <2>6 DEF UndoBlocked
  <2>7. CASE StoreError(l)
    BY <1>10, <2>7 DEF StoreError
  <2> QED BY <1>11, <2>1, <2>2, <2>3, <2>4, <2>5, <2>6, <2>7 DEF LoopStep
<1>12. ASSUME NEW r \in Requests, NEW c \in Costs, RemoveTokens(r, c) \/ RemoveTokensRejected(r, c)
       PROVE LoopsKnown'
  <2>1. \A s \in Requests : outcome[s] # "new" => outcome'[s] # "new"
    BY <1>0, <1>12 DEF RemoveTokens, RemoveTokensRejected
  <2>2. CASE RemoveTokensRejected(r, c)
    BY <1>6, <2>1, <2>2 DEF RemoveTokensRejected
  <2>3. CASE RemoveTokens(r, c)
    BY <1>0, <1>7, <2>1, <2>3 DEF RemoveTokens
  <2> QED BY <1>12, <2>2, <2>3
<1>13. ASSUME NEW i \in DOMAIN queue, QueueTimeout(i) PROVE LoopsKnown'
  <2>1. \A s \in Requests : outcome[s] # "new" => outcome'[s] # "new"
    BY <1>0, <1>13 DEF QueueTimeout
  <2>2. queue' \in Seq(Requests)
    BY <1>0, <1>13, RemoveAtType DEF QueueTimeout
  <2> QED BY <1>7, <1>13, <2>1, <2>2 DEF QueueTimeout
<1>14. CASE DrainTimerFires
  BY <1>0, <1>7, <1>14 DEF DrainTimerFires
<1>15. ASSUME NEW len, NEW timedOut, ShutdownEnds(len, timedOut) PROVE LoopsKnown'
  <2>1. \A s \in Requests : outcome[s] # "new" => outcome'[s] # "new"
    BY <1>0, <1>15 DEF ShutdownEnds, ClearPending
  <2>2. UNCHANGED loop \/ (queue # <<>> /\ StartLoop(Head(queue)))
    BY <1>15 DEF ShutdownEnds, StartsLoop
  <2> QED BY <1>0, <1>3, <1>5, <1>6, <2>1, <2>2
<1>16. ASSUME NEW polls \in 0..MaxPolls, Shutdown(polls) PROVE LoopsKnown'
  BY <1>0, <1>7, <1>15, <1>16 DEF Shutdown
<1>17. CASE ShutdownPoll
  BY <1>0, <1>7, <1>15, <1>17 DEF ShutdownPoll
<1>18. CASE Clear
  <2>1. \A s \in Requests : outcome[s] # "new" => outcome'[s] # "new"
    BY <1>0, <1>18 DEF Clear, ClearPending
  <2> QED BY <1>6, <1>18, <2>1 DEF Clear
<1>19. CASE Roll
  <2>1. \A m \in Loops : loop'[m].pc = loop[m].pc /\ loop'[m].req = loop[m].req
    BY <1>19 DEF Roll, At
  <2> QED BY <1>1, <1>19, <2>1 DEF Roll, LoopsKnown
<1>20. CASE Refill \/ ShutdownAgain \/ UNCHANGED vars
  BY <1>6, <1>20 DEF Refill, ShutdownAgain, control, vars
<1>21. CASE PeekIncrement \/ PeekIncrementFails \/ PeekDecrement \/ PeekDecrementFails
  BY <1>6, <1>21 DEF PeekIncrement, PeekIncrementFails, PeekDecrement, PeekDecrementFails, control
<1> QED
  BY <1>11, <1>12, <1>13, <1>14, <1>16, <1>17, <1>18, <1>19, <1>20, <1>21 DEF Next

LEMMA AmountOf ==
    ASSUME NEW kind \in Kinds, NEW l \in Loops
    PROVE  Amount(kind)[l] = IF Holds(l, kind) THEN cost[loop[l].req] ELSE 0
BY DEF Amount

\* Loop l moves on and holds ok of an allowed and no of a blocked increment.
LEMMA HeldMoves ==
    ASSUME TypeOK, HeldInv, UNCHANGED <<cost, strategy, peek>>,
           NEW l \in Loops, NEW x, loop' = [loop EXCEPT ![l] = x],
           NEW ok \in 0..Limit, Amount("allowed")'[l] = ok,
           NEW no \in 0..Limit, Amount("blocked")'[l] = no,
           ledger'.heldOk = ledger.heldOk - Amount("allowed")[l] + ok,
           ledger'.held = ledger.held - Amount("allowed")[l] - Amount("blocked")[l] + ok + no
    PROVE  HeldInv'
<1>0. HeldInv' <=> /\ ledger'.heldOk = Total(Amount("allowed")')
                   /\ ledger'.held = Total(Amount("allowed")') + Total(Amount("blocked")') + PeekHeld'
  BY DEF HeldInv, Total, Slots
<1>1. ASSUME NEW kind \in Kinds, NEW c \in 0..Limit, Amount(kind)'[l] = c
      PROVE  /\ Total(Amount(kind)) \in Nat /\ Amount(kind)[l] \in Nat
             /\ Total(Amount(kind)') = Total(Amount(kind)) - Amount(kind)[l] + c
  <2>1. Amount(kind) \in Amounts
    BY AmountType
  <2>2. \A m \in Loops \ {l} : Amount(kind)'[m] = Amount(kind)[m]
    <3>1. \A m \in Loops \ {l} : loop'[m] = loop[m]
      BY DEF TypeOK
    <3> QED BY <3>1 DEF Amount, Holds, Counted
  <2>3. Amount(kind)' = [Amount(kind) EXCEPT ![l] = c]
    <3>1. DOMAIN Amount(kind)' = Loops /\ Amount(kind)' = [m \in Loops |-> Amount(kind)'[m]]
      BY DEF Amount
    <3> HIDE DEF Amount
    <3> QED BY <1>1, <2>1, <2>2, <3>1 DEF Amounts
  <2>4. Amount(kind)[l] \in Nat
    BY <2>1, QueueAssumption DEF Amounts
  <2>5. Total(Amount(kind)) \in Nat
    BY <2>1, TotalType
  <2>6. Total([Amount(kind) EXCEPT ![l] = c]) = Total(Amount(kind)) - Amount(kind)[l] + c
    BY <2>1, TotalMoves
  <2> QED BY <2>3, <2>4, <2>5, <2>6
<1>2. ok \in Nat /\ no \in Nat /\ PeekHeld' = PeekHeld /\ PeekHeld \in {0, 1}
  BY QueueAssumption DEF PeekHeld
<1>3. Total(Amount("allowed")') = Total(Amount("allowed")) - Amount("allowed")[l] + ok
  BY <1>1 DEF Kinds
<1>4. Total(Amount("blocked")') = Total(Amount("blocked")) - Amount("blocked")[l] + no
  BY <1>1 DEF Kinds
<1>5. /\ Total(Amount("allowed")) \in Nat /\ Amount("allowed")[l] \in Nat
      /\ Total(Amount("blocked")) \in Nat /\ Amount("blocked")[l] \in Nat
  <2>1. ASSUME NEW kind \in Kinds PROVE Total(Amount(kind)) \in Nat /\ Amount(kind)[l] \in Nat
    BY AmountType, TotalType, QueueAssumption DEF Amounts
  <2> QED BY <2>1 DEF Kinds
<1> QED BY <1>0, <1>2, <1>3, <1>4, <1>5 DEF HeldInv

\* No loop changes what it holds.
LEMMA HeldKept ==
    ASSUME TypeOK, HeldInv,
           \A kind \in Kinds : Amount(kind)' = Amount(kind),
           ledger'.heldOk = ledger.heldOk,
           ledger'.held = ledger.held - PeekHeld + PeekHeld'
    PROVE  HeldInv'
<1>0. HeldInv' <=> /\ ledger'.heldOk = Total(Amount("allowed")')
                   /\ ledger'.held = Total(Amount("allowed")') + Total(Amount("blocked")') + PeekHeld'
  BY DEF HeldInv, Total, Slots
<1>1. Total(Amount("allowed")) \in Nat /\ Total(Amount("blocked")) \in Nat
  BY AmountType, TotalType DEF Kinds
<1>2. PeekHeld \in Nat /\ PeekHeld' \in Nat
  BY DEF PeekHeld
<1> QED BY <1>0, <1>1, <1>2 DEF HeldInv, Kinds

\* A loop that starts holds nothing yet, and queueing a call does not change
\* the cost of the calls the loops work for.
LEMMA StartKeepsAmounts ==
    ASSUME TypeOK, UNCHANGED strategy,
           \A m \in Loops : loop[m].pc # "idle" => cost'[loop[m].req] = cost[loop[m].req],
           UNCHANGED loop \/ \E r \in Requests : StartLoop(r),
           NEW kind \in Kinds
    PROVE  Amount(kind)' = Amount(kind)
<1>1. CASE UNCHANGED loop
  BY <1>1 DEF Amount, Holds, Counted
<1>2. ASSUME NEW r \in Requests, StartLoop(r) PROVE Amount(kind)' = Amount(kind)
  <2>1. Loops \ Active # {}
    BY <1>2 DEF StartLoop, Active
  <2>2. PICK m \in Loops \ Active : loop' = [loop EXCEPT ![m] = Awaiting(r)]
    BY <1>2, <2>1 DEF StartLoop
  <2>3. loop[m].pc = "idle" /\ loop'[m].pc = "incr"
    BY <2>2 DEF Active, TypeOK, Awaiting, At
  <2>4. ASSUME NEW n \in Loops, n # m PROVE loop'[n] = loop[n]
    BY <2>2, <2>4 DEF TypeOK
  <2> QED BY <2>3, <2>4 DEF Amount, Holds, Counted
<1> QED BY <1>1, <1>2

LEMMA DrainStarts ==
    ASSUME NEW q \in Seq(Requests), NEW p, NEW t, Drain(q, p, t)
    PROVE  UNCHANGED loop \/ \E r \in Requests : StartLoop(r)
BY HeadType DEF Drain

\* What a decided or failed undo books for loop l.
LEMMA UndoBooks ==
    ASSUME TypeOK, NEW l \in Loops, loop[l].pc \in {"stale", "retry"},
           UndoIncrement(l) \/ (level' = level /\ ledger' = Released(l))
    PROVE  /\ ledger'.heldOk = ledger.heldOk - Amount("allowed")[l]
           /\ ledger'.held = ledger.held - Amount("allowed")[l] - Amount("blocked")[l]
           /\ ledger'.admitted = ledger.admitted
           /\ ledger'.credit \in Int /\ ledger'.credit >= ledger.credit
           /\ level' + ledger'.credit
                >= level + ledger.credit - Amount("allowed")[l] - Amount("blocked")[l]
<1> DEFINE c == cost[loop[l].req]
           b == loop[l].blocked
<1>1. c \in Nat /\ b \in BOOLEAN /\ loop[l].late \in BOOLEAN
  BY LoopFields, QueueAssumption
<1>2. level \in Nat /\ ledger \in LedgerType
  BY DEF TypeOK
<1>3. Amount("allowed")[l] = IF ~b /\ ~loop[l].late /\ Counted(b) THEN c ELSE 0
  BY <1>1, AmountOf DEF Holds, Kinds
<1>4. Amount("blocked")[l] = IF b /\ ~loop[l].late /\ Counted(b) THEN c ELSE 0
  BY <1>1, AmountOf DEF Holds, Kinds
<1>5. Floor(level - c) \in Nat /\ Floor(level - c) >= level - c
  BY <1>1, <1>2 DEF Floor
<1> HIDE DEF c, b
<1>6. CASE loop[l].late /\ Counted(b) /\ UndoIncrement(l)
  <2>1. level' = Floor(level - c) /\ ledger' = Booked(0, 0, 0, c)
    BY <1>6 DEF UndoIncrement, AfterDecrement, c, b
  <2>2. Amount("allowed")[l] = 0 /\ Amount("blocked")[l] = 0
    BY <1>3, <1>4, <1>6
  <2> QED BY <1>1, <1>2, <1>5, <2>1, <2>2 DEF Booked, LedgerType
<1>7. CASE ~Counted(b) \/ (loop[l].late /\ ~UndoIncrement(l))
  <2>1. level' = level /\ ledger' = ledger
    BY <1>7 DEF UndoIncrement, Released, c, b
  <2>2. Amount("allowed")[l] = 0 /\ Amount("blocked")[l] = 0
    BY <1>3, <1>4, <1>7
  <2> QED BY <1>2, <2>1, <2>2 DEF LedgerType
<1>8. CASE ~loop[l].late /\ Counted(b)
  <2>1. ledger' = Booked(0, -c, IF b THEN 0 ELSE -c, 0)
    BY <1>8 DEF UndoIncrement, Released, c, b
  <2>2. level' = Floor(level - c) \/ level' = level
    BY <1>8 DEF UndoIncrement, AfterDecrement, c, b
  <2>3. CASE b
    <3>1. Amount("allowed")[l] = 0 /\ Amount("blocked")[l] = c /\ ledger' = Booked(0, -c, 0, 0)
      BY <1>3, <1>4, <1>8, <2>1, <2>3
    <3> QED BY <1>1, <1>2, <1>5, <2>2, <3>1 DEF Booked, LedgerType
  <2>4. CASE ~b
    <3>1. Amount("allowed")[l] = c /\ Amount("blocked")[l] = 0 /\ ledger' = Booked(0, -c, -c, 0)
      BY <1>3, <1>4, <1>8, <2>1, <2>4
    <3> QED BY <1>1, <1>2, <1>5, <2>2, <3>1 DEF Booked, LedgerType
  <2> QED BY <2>3, <2>4
<1> QED BY <1>1, <1>6, <1>7, <1>8

\* Where a loop goes from an iteration, it holds nothing.
LEMMA NextIterationLoop ==
    ASSUME NEW l \in Loops, NEW q, NextIteration(l, q)
    PROVE  \E x : loop' = [loop EXCEPT ![l] = x] /\ x.pc \in {"idle", "incr"}
<1>1. CASE q = <<>>
  <2>1. loop' = [loop EXCEPT ![l] = IdleLoop] /\ IdleLoop.pc = "idle"
    BY <1>1 DEF NextIteration, IdleLoop, At
  <2> QED BY <2>1
<1>2. CASE q # <<>>
  <2>1. loop' = [loop EXCEPT ![l] = Awaiting(Head(q))] /\ Awaiting(Head(q)).pc = "incr"
    BY <1>2 DEF NextIteration, Awaiting, At
  <2> QED BY <2>1
<1> QED BY <1>1, <1>2

LEMMA AdmissionInit == Init => AdmissionInv
<1> SUFFICES ASSUME Init PROVE AdmissionInv
  OBVIOUS
<1>1. \A kind \in Kinds : \A l \in Loops : Amount(kind)[l] = 0
  BY DEF Init, IdleLoop, At, Amount, Holds
<1>2. Total(Amount("allowed")) = 0 /\ Total(Amount("blocked")) = 0
  BY <1>1, TotalZero DEF Kinds
<1> QED
  BY <1>2, QueueAssumption DEF Init, EmptyLedger, AdmissionInv, HeldInv, BoundInv, PeekHeld

\* Facts of HeldInv that the bounds need: nothing is held in the negative.
LEMMA HeldPositive ==
    ASSUME TypeOK, HeldInv
    PROVE  /\ ledger.heldOk >= 0 /\ ledger.heldOk <= ledger.held
           /\ ledger.admitted \in Int /\ ledger.held \in Int
           /\ ledger.heldOk \in Int /\ ledger.credit \in Int
           /\ level \in Nat /\ Limit \in Nat
<1>1. Total(Amount("allowed")) \in Nat /\ Total(Amount("blocked")) \in Nat
  BY AmountType, TotalType DEF Kinds
<1>2. PeekHeld \in Nat
  BY DEF PeekHeld
<1>3. ledger \in LedgerType /\ level \in Nat /\ Limit \in Nat
  BY QueueAssumption DEF TypeOK
<1>4. /\ ledger.admitted \in Int /\ ledger.held \in Int
      /\ ledger.heldOk \in Int /\ ledger.credit \in Int
  BY <1>3 DEF LedgerType
<1> QED BY <1>1, <1>2, <1>3, <1>4 DEF HeldInv

LEMMA AdmissionLoop ==
    ASSUME TypeOK, AdmissionInv, NEW l \in Loops, LoopStep(l) \/ StoreError(l)
    PROVE  AdmissionInv'
<1>0. peek' = peek /\ strategy' = strategy /\ cost' = cost
  BY DEF LoopStep, StoreIncrement, ResumeStale, ResumeAllowed, ResumeBlocked, UndoStale,
         UndoBlocked, StoreError, store
<1>00. /\ 0 \in 0..Limit /\ Limit \in Nat /\ HeldInv /\ BoundInv
       /\ loop \in [Loops -> LoopState]
  BY QueueAssumption DEF AdmissionInv, TypeOK
<1>1. /\ ledger.heldOk >= 0 /\ ledger.heldOk <= ledger.held
      /\ ledger.admitted \in Int /\ ledger.held \in Int
      /\ ledger.heldOk \in Int /\ ledger.credit \in Int /\ level \in Nat
  BY <1>00, HeldPositive
<1>2. \A kind \in Kinds : Amount(kind)'[l] = IF Holds(l, kind)' THEN cost[loop'[l].req] ELSE 0
  BY <1>0 DEF Amount
<1>3. \A kind \in Kinds : Amount(kind)[l] = IF Holds(l, kind) THEN cost[loop[l].req] ELSE 0
  BY DEF Amount
<1>4. ASSUME NEW x, loop' = [loop EXCEPT ![l] = x], x.pc \in {"idle", "incr"},
             ledger'.heldOk = ledger.heldOk - Amount("allowed")[l],
             ledger'.held = ledger.held - Amount("allowed")[l] - Amount("blocked")[l]
      PROVE  HeldInv'
  <2>1. loop'[l] = x
    BY <1>00, <1>4
  <2>2. Amount("allowed")'[l] = 0 /\ Amount("blocked")'[l] = 0
    BY <1>2, <1>4, <2>1 DEF Holds, Kinds
  <2>3. /\ Amount("allowed")[l] \in Nat /\ Amount("blocked")[l] \in Nat
    BY AmountType, QueueAssumption DEF Amounts, Kinds
  <2>4. /\ ledger'.heldOk = ledger.heldOk - Amount("allowed")[l] + 0
        /\ ledger'.held = ledger.held - Amount("allowed")[l] - Amount("blocked")[l] + 0 + 0
    BY <1>1, <1>4, <2>3
  <2> QED BY <1>0, <1>00, <1>4, <2>2, <2>4, HeldMoves
<1>5. CASE StoreIncrement(l)
  <2> DEFINE c == cost[loop[l].req]
             b == Blocked(c)
  <2>1. loop[l].pc = "incr" /\ c \in 0..Limit /\ c \in Nat
    BY <1>00, <1>5, LoopFields DEF StoreIncrement
  <2>2. loop' = [loop EXCEPT ![l] = At("reply", loop[l].req, b, FALSE)]
    BY <1>5 DEF StoreIncrement
  <2>3. loop'[l].pc = "reply" /\ loop'[l].req = loop[l].req /\ loop'[l].blocked = b /\ ~loop'[l].late
    BY <1>00, <2>2 DEF At
  <2>4. Amount("allowed")[l] = 0 /\ Amount("blocked")[l] = 0
    BY <1>3, <2>1 DEF Holds, Kinds
  <2>5. CASE b /\ Counted(b)
    <3>1. Amount("allowed")'[l] = 0 /\ Amount("blocked")'[l] = c
      BY <1>0, <1>2, <2>3, <2>5 DEF Holds, Kinds, Counted
    <3>2. ledger' = Booked(0, c, 0, 0) /\ level' = level + c
      BY <1>5, <2>5 DEF StoreIncrement, AfterIncrement
    <3>3. /\ ledger'.heldOk = ledger.heldOk /\ ledger'.held = ledger.held + c
          /\ ledger'.admitted = ledger.admitted /\ ledger'.credit = ledger.credit
      BY <1>1, <3>2 DEF Booked
    <3>4. HeldInv'
      <4>1. /\ ledger'.heldOk = ledger.heldOk - Amount("allowed")[l] + 0
            /\ ledger'.held = ledger.held - Amount("allowed")[l] - Amount("blocked")[l] + 0 + c
        BY <1>1, <2>1, <2>4, <3>3
      <4> QED BY <1>0, <1>00, <2>1, <2>2, <3>1, <4>1, HeldMoves
    <3>5. BoundInv'
      BY <1>00, <1>1, <2>1, <3>2, <3>3 DEF BoundInv
    <3> QED BY <1>0, <3>4, <3>5 DEF AdmissionInv
  <2>6. CASE ~b
    <3>1. Amount("allowed")'[l] = c /\ Amount("blocked")'[l] = 0
      BY <1>0, <1>2, <2>3, <2>6 DEF Holds, Kinds, Counted
    <3>2. ledger' = Booked(0, c, c, 0) /\ level' = level + c /\ level + c <= Limit
      BY <1>00, <1>1, <1>5, <2>1, <2>6 DEF StoreIncrement, AfterIncrement, Counted, Blocked
    <3>3. /\ ledger'.heldOk = ledger.heldOk + c /\ ledger'.held = ledger.held + c
          /\ ledger'.admitted = ledger.admitted /\ ledger'.credit = ledger.credit
      BY <1>1, <3>2 DEF Booked
    <3>4. HeldInv'
      <4>1. /\ ledger'.heldOk = ledger.heldOk - Amount("allowed")[l] + c
            /\ ledger'.held = ledger.held - Amount("allowed")[l] - Amount("blocked")[l] + c + 0
        BY <1>1, <2>1, <2>4, <3>3
      <4> QED BY <1>0, <1>00, <2>1, <2>2, <3>1, <4>1, HeldMoves
    <3>5. BoundInv'
      BY <1>00, <1>1, <2>1, <3>2, <3>3 DEF BoundInv
    <3> QED BY <1>0, <3>4, <3>5 DEF AdmissionInv
  <2>7. CASE b /\ ~Counted(b)
    <3>1. Amount("allowed")'[l] = 0 /\ Amount("blocked")'[l] = 0
      BY <1>0, <1>2, <2>3, <2>7 DEF Holds, Kinds, Counted
    <3>2. ledger' = ledger /\ level' = level
      BY <1>5, <2>7 DEF StoreIncrement, AfterIncrement
    <3>4. HeldInv'
      <4>1. /\ ledger'.heldOk = ledger.heldOk - Amount("allowed")[l] + 0
            /\ ledger'.held = ledger.held - Amount("allowed")[l] - Amount("blocked")[l] + 0 + 0
        BY <1>1, <2>4, <3>2
      <4> QED BY <1>0, <1>00, <2>1, <2>2, <3>1, <4>1, HeldMoves
    <3>5. BoundInv'
      BY <1>00, <3>2 DEF BoundInv
    <3> QED BY <1>0, <3>4, <3>5 DEF AdmissionInv
  <2> QED BY <2>5, <2>6, <2>7
<1>6. CASE ResumeStale(l) \/ ResumeBlocked(l)
  <2>1. /\ ledger' = ledger /\ level' = level /\ loop[l].pc = "reply"
        /\ \E pc \in {"stale", "retry"} :
              loop' = [loop EXCEPT ![l] = At(pc, loop[l].req, loop[l].blocked, loop[l].late)]
    BY <1>6 DEF ResumeStale, ResumeBlocked, store
  <2>2. ASSUME NEW kind \in Kinds PROVE Amount(kind)' = Amount(kind)
    <3>1. \A m \in Loops \ {l} : loop'[m] = loop[m]
      BY <1>00, <2>1
    <3>2. /\ loop'[l].pc \in {"stale", "retry"} /\ loop'[l].req = loop[l].req
          /\ loop'[l].blocked = loop[l].blocked /\ loop'[l].late = loop[l].late
      BY <1>00, <2>1 DEF At
    <3> QED BY <1>0, <2>1, <3>1, <3>2 DEF Amount, Holds, Counted
  <2>3. PeekHeld \in Nat /\ PeekHeld' = PeekHeld
    BY <1>0 DEF PeekHeld
  <2>4. ledger'.held = ledger.held - PeekHeld + PeekHeld'
    BY <1>1, <2>1, <2>3
  <2>5. HeldInv'
    BY <1>00, <2>1, <2>2, <2>4, HeldKept
  <2> QED BY <1>0, <1>00, <2>1, <2>5 DEF AdmissionInv, BoundInv
<1>7. CASE ResumeAllowed(l)
  <2> DEFINE c == cost[loop[l].req]
  <2>1. loop[l].pc = "reply" /\ loop[l].blocked = FALSE /\ c \in Nat
    BY <1>00, <1>7, LoopFields DEF ResumeAllowed
  <2>2. PICK x : loop' = [loop EXCEPT ![l] = x] /\ x.pc \in {"idle", "incr"}
    BY <1>7, NextIterationLoop DEF ResumeAllowed
  <2>3. /\ Amount("allowed")[l] = (IF loop[l].late THEN 0 ELSE c)
        /\ Amount("blocked")[l] = 0
    BY <1>3, <2>1 DEF Holds, Kinds, Counted
  <2>4. level' = level /\ ledger' = IF loop[l].late THEN ledger ELSE Booked(c, -c, -c, 0)
    BY <1>7 DEF ResumeAllowed
  <2> HIDE DEF c
  <2>5. /\ ledger'.heldOk = ledger.heldOk - Amount("allowed")[l]
        /\ ledger'.held = ledger.held - Amount("allowed")[l] - Amount("blocked")[l]
        /\ ledger'.admitted = ledger.admitted + Amount("allowed")[l]
        /\ ledger'.credit = ledger.credit
    BY <1>1, <2>1, <2>3, <2>4 DEF Booked
  <2>6. HeldInv'
    BY <1>4, <2>2, <2>5
  <2>7. BoundInv'
    <3>1. Amount("allowed")[l] \in Nat /\ Amount("blocked")[l] = 0
      BY <2>1, <2>3
    <3> QED BY <1>00, <1>1, <2>4, <2>5, <3>1 DEF BoundInv
  <2> QED BY <1>0, <2>6, <2>7 DEF AdmissionInv
<1>8. ASSUME loop[l].pc \in {"stale", "retry"}, NEW x, loop' = [loop EXCEPT ![l] = x],
             x.pc \in {"idle", "incr"}, UndoIncrement(l) \/ (level' = level /\ ledger' = Released(l))
      PROVE  AdmissionInv'
  <2>1. /\ ledger'.heldOk = ledger.heldOk - Amount("allowed")[l]
        /\ ledger'.held = ledger.held - Amount("allowed")[l] - Amount("blocked")[l]
        /\ ledger'.admitted = ledger.admitted
        /\ ledger'.credit \in Int /\ ledger'.credit >= ledger.credit
        /\ level' + ledger'.credit
             >= level + ledger.credit - Amount("allowed")[l] - Amount("blocked")[l]
    BY <1>8, UndoBooks
  <2>2. Amount("allowed")[l] \in Nat /\ Amount("blocked")[l] \in Nat
    BY AmountType, QueueAssumption DEF Amounts, Kinds
  <2>3. level' \in Nat
    <3>1. cost[loop[l].req] \in Nat
      BY <1>00, <1>8, LoopFields
    <3> QED BY <1>1, <1>8, <3>1 DEF UndoIncrement, AfterDecrement, Floor
  <2>4. BoundInv'
    BY <1>00, <1>1, <2>1, <2>2, <2>3 DEF BoundInv
  <2>5. HeldInv'
    BY <1>4, <1>8, <2>1
  <2> QED BY <1>0, <2>4, <2>5 DEF AdmissionInv
<1>9. CASE UndoStale(l)
  <2>1. PICK x : loop' = [loop EXCEPT ![l] = x] /\ x.pc \in {"idle", "incr"}
    BY <1>9, NextIterationLoop DEF UndoStale
  <2> QED BY <1>8, <1>9, <2>1 DEF UndoStale
<1>10. CASE UndoBlocked(l)
  BY <1>8, <1>10 DEF UndoBlocked, IdleLoop, At
<1>11. CASE StoreError(l)
  <2>1. loop' = [loop EXCEPT ![l] = IdleLoop] /\ IdleLoop.pc = "idle"
    BY <1>11 DEF StoreError, IdleLoop, At
  <2>2. CASE loop[l].pc \in {"stale", "retry"}
    BY <1>8, <1>11, <2>1, <2>2 DEF StoreError
  <2>3. CASE loop[l].pc = "incr"
    <3>1. ledger' = ledger /\ level' \in {level, AfterIncrement(cost[loop[l].req])}
      BY <1>11, <2>3 DEF StoreError
    <3>2. cost[loop[l].req] \in Nat
      BY <1>00, <2>3, LoopFields
    <3>3. level' \in Nat /\ level' >= level
      <4>1. level' = level \/ level' = level + cost[loop[l].req]
        BY <3>1 DEF AfterIncrement
      <4> QED BY <1>1, <3>2, <4>1
    <3>4. Amount("allowed")[l] = 0 /\ Amount("blocked")[l] = 0
      BY <1>3, <2>3 DEF Holds, Kinds
    <3>5. HeldInv'
      <4>1. /\ ledger'.heldOk = ledger.heldOk - Amount("allowed")[l]
            /\ ledger'.held = ledger.held - Amount("allowed")[l] - Amount("blocked")[l]
        BY <1>1, <3>1, <3>4
      <4> QED BY <1>4, <2>1, <4>1
    <3>6. BoundInv'
      BY <1>00, <1>1, <3>1, <3>3 DEF BoundInv
    <3> QED BY <1>0, <3>5, <3>6 DEF AdmissionInv
  <2> QED BY <1>11, <2>2, <2>3 DEF StoreError
<1> QED BY <1>5, <1>6, <1>7, <1>9, <1>10, <1>11 DEF LoopStep

\* Steps that touch neither the ledger nor the store, and let loops at most start.
LEMMA AdmissionControl ==
    ASSUME TypeOK, AdmissionInv, UNCHANGED <<peek, strategy, level, ledger>>,
           \A m \in Loops : loop[m].pc # "idle" => cost'[loop[m].req] = cost[loop[m].req],
           UNCHANGED loop \/ \E r \in Requests : StartLoop(r)
    PROVE  AdmissionInv'
<1>1. \A kind \in Kinds : Amount(kind)' = Amount(kind)
  BY StartKeepsAmounts
<1>2. PeekHeld \in Nat /\ PeekHeld' = PeekHeld /\ ledger.held \in Int
  BY HeldPositive DEF PeekHeld, AdmissionInv
<1>3. ledger'.held = ledger.held - PeekHeld + PeekHeld'
  BY <1>2
<1>4. HeldInv'
  BY <1>1, <1>3, HeldKept DEF AdmissionInv
<1> QED BY <1>4 DEF AdmissionInv, BoundInv

LEMMA BoundMoves ==
    ASSUME NEW a \in Int, NEW held \in Int, NEW credit \in Int, NEW n \in Int, NEW m \in Int,
           NEW h \in Int, NEW c \in Int, a + held <= n + credit, m + c >= n + h
    PROVE  a + (held + h) <= m + (credit + c)
OBVIOUS

\* The store and the peek move, the loops do not.
LEMMA AdmissionStore ==
    ASSUME TypeOK, AdmissionInv, UNCHANGED <<loop, cost, strategy>>, peek' # "uncounted",
           NEW h \in Int, NEW c \in Nat, ledger' = Booked(0, h, 0, c),
           PeekHeld' = PeekHeld + h,
           level' \in Nat, level' + c >= level + h
    PROVE  AdmissionInv'
<1>0. HeldInv /\ BoundInv
  BY DEF AdmissionInv
<1>1. /\ ledger.admitted \in Int /\ ledger.held \in Int
      /\ ledger.heldOk \in Int /\ ledger.credit \in Int /\ level \in Nat /\ Limit \in Nat
  BY <1>0, HeldPositive
<1>2. /\ ledger'.heldOk = ledger.heldOk /\ ledger'.held = ledger.held + h
      /\ ledger'.admitted = ledger.admitted /\ ledger'.credit = ledger.credit + c
  BY <1>1 DEF Booked
<1>3. \A kind \in Kinds : Amount(kind)' = Amount(kind)
  BY StartKeepsAmounts
<1>4. ledger'.held = ledger.held - PeekHeld + PeekHeld'
  <2>1. PeekHeld \in Nat
    BY DEF PeekHeld
  <2> QED BY <1>1, <1>2, <2>1
<1>5. HeldInv'
  BY <1>0, <1>2, <1>3, <1>4, HeldKept
<1>6. BoundInv'
  <2>1. /\ ledger.admitted + ledger.held <= level + ledger.credit
        /\ ledger.admitted + ledger.heldOk <= Limit + ledger.credit
    BY <1>0 DEF BoundInv
  <2>2. ledger.admitted + (ledger.held + h) <= level' + (ledger.credit + c)
    <3>1. PICK m \in Nat : m = level'
      OBVIOUS
    <3>2. m + c >= level + h
      BY <3>1
    <3>3. ledger.admitted + (ledger.held + h) <= m + (ledger.credit + c)
      BY <1>1, <2>1, <3>2, BoundMoves
    <3> QED BY <3>1, <3>3
  <2>3. ledger'.admitted + ledger'.heldOk <= Limit + ledger'.credit
    BY <1>1, <1>2, <2>1
  <2> QED BY <1>2, <2>2, <2>3 DEF BoundInv
<1> QED BY <1>5, <1>6 DEF AdmissionInv

\* A peek that counts is made in a fixed window, where every hit is counted.
LEMMA AdmissionPeek ==
    ASSUME PeekStrategies \subseteq {"FIXED_WINDOW"}, TypeOK, AdmissionInv,
           PeekIncrement \/ PeekIncrementFails \/ PeekDecrement \/ PeekDecrementFails
    PROVE  AdmissionInv'
<1>0. /\ UNCHANGED <<loop, cost, strategy>> /\ peek # "uncounted" /\ level \in Nat
      /\ ledger \in LedgerType /\ peek \in {"idle", "held", "late", "uncounted"}
  BY DEF PeekIncrement, PeekIncrementFails, PeekDecrement, PeekDecrementFails, control,
         AdmissionInv, TypeOK
<1>1. Booked(0, 0, 0, 0) = ledger
  BY <1>0 DEF Booked, LedgerType
<1>2. CASE PeekIncrement \/ PeekIncrementFails
  <2>1. strategy = "FIXED_WINDOW" /\ peek = "idle"
    BY <1>2 DEF PeekIncrement, PeekIncrementFails
  <2>2. Counted(Blocked(1))
    BY <2>1 DEF Counted
  <2>3. level' = level + 1
    BY <1>2, <2>2 DEF PeekIncrement, PeekIncrementFails, AfterIncrement
  <2>4. CASE PeekIncrement
    <3>1. peek' = "held" /\ ledger' = Booked(0, 1, 0, 0)
      BY <2>2, <2>4 DEF PeekIncrement
    <3>2. PeekHeld' = PeekHeld + 1
      BY <2>1, <3>1 DEF PeekHeld
    <3> QED BY <1>0, <2>3, <3>1, <3>2, AdmissionStore
  <2>5. CASE PeekIncrementFails
    <3>1. peek' = peek /\ ledger' = Booked(0, 0, 0, 0)
      BY <1>1, <2>5 DEF PeekIncrementFails
    <3>2. PeekHeld' = PeekHeld + 0
      BY <3>1 DEF PeekHeld
    <3>3. level' \in Nat /\ level' + 0 >= level + 0
      BY <1>0, <2>3
    <3> QED BY <1>0, <3>1, <3>2, <3>3, 0 \in Int, 0 \in Nat, AdmissionStore
  <2> QED BY <1>2, <2>4, <2>5
<1>3. ASSUME NEW n \in 0..2, NEW h \in {-1, 0}, NEW c \in Nat,
             peek \in {"held", "late"}, peek' = "idle", level' = AfterDecrement(n),
             h = (IF peek = "held" THEN -1 ELSE 0), n <= c - h, ledger' = Booked(0, h, 0, c)
      PROVE  AdmissionInv'
  <2>1. PeekHeld' = PeekHeld + h
    BY <1>3 DEF PeekHeld
  <2>2. level' \in Nat /\ level' >= level - n
    BY <1>0, <1>3 DEF AfterDecrement, Floor
  <2>3. level' + c >= level + h
    BY <1>0, <1>3, <2>2
  <2> QED BY <1>0, <1>3, <2>1, <2>2, <2>3, AdmissionStore
<1>4. CASE PeekDecrement
  <2>1. peek \in {"held", "late"} /\ peek' = "idle" /\ level' = AfterDecrement(1)
    BY <1>0, <1>4 DEF PeekDecrement
  <2>2. CASE peek = "held"
    <3>1. ledger' = Booked(0, -1, 0, 0)
      BY <1>4, <2>2 DEF PeekDecrement
    <3> QED BY <1>3, <2>1, <2>2, <3>1
  <2>3. CASE peek = "late"
    <3>1. ledger' = Booked(0, 0, 0, 1)
      BY <1>4, <2>3 DEF PeekDecrement
    <3> QED BY <1>3, <2>1, <2>3, <3>1
  <2> QED BY <2>1, <2>2, <2>3
<1>5. CASE PeekDecrementFails
  <2>1. PICK given \in 0..2 :
          /\ peek \in {"held", "late"} /\ peek' = "idle" /\ level' = AfterDecrement(given)
          /\ ledger' = IF peek = "held" THEN Booked(0, -1, 0, Floor(given - 1))
                       ELSE IF peek = "late" THEN Booked(0, 0, 0, given) ELSE ledger
    BY <1>0, <1>5 DEF PeekDecrementFails
  <2>2. CASE peek = "held"
    <3>1. Floor(given - 1) \in Nat /\ given <= Floor(given - 1) - (-1)
      BY DEF Floor
    <3> QED BY <1>3, <2>1, <2>2, <3>1
  <2>3. CASE peek = "late"
    <3>1. given \in Nat /\ given <= given - 0
      OBVIOUS
    <3> QED BY <1>3, <2>1, <2>3, <3>1
  <2> QED BY <2>1, <2>2, <2>3
<1> QED BY <1>2, <1>4, <1>5

LEMMA AdmissionTime ==
    ASSUME TypeOK, AdmissionInv, Roll \/ Refill
    PROVE  AdmissionInv'
<1>1. CASE Roll
  <2>1. \A kind \in Kinds : \A l \in Loops : Amount(kind)'[l] = 0
    <3>1. ASSUME NEW l \in Loops, loop'[l].pc \in {"reply", "stale", "retry"} PROVE loop'[l].late
      BY <1>1, <3>1 DEF Roll, At
    <3> QED BY <3>1 DEF Amount, Holds
  <2>2. Total(Amount("allowed")') = 0 /\ Total(Amount("blocked")') = 0
    BY <2>1, TotalZero DEF Kinds
  <2>3. HeldInv' <=> /\ ledger'.heldOk = Total(Amount("allowed")')
                     /\ ledger'.held = Total(Amount("allowed")') + Total(Amount("blocked")') + PeekHeld'
    BY DEF HeldInv, Total, Slots
  <2>4. ledger' = EmptyLedger /\ level' = 0 /\ peek' = (IF peek = "held" THEN "late" ELSE peek)
    BY <1>1 DEF Roll
  <2>5. PeekHeld' = 0 /\ peek' # "uncounted"
    BY <2>4 DEF PeekHeld, AdmissionInv
  <2> QED BY <2>2, <2>3, <2>4, <2>5, QueueAssumption DEF AdmissionInv, BoundInv, EmptyLedger
<1>2. CASE Refill
  <2>1. /\ UNCHANGED <<loop, cost, strategy, peek>> /\ ledger' = Booked(0, 0, 0, 1)
        /\ level > 0 /\ level' = level - 1 /\ level \in Nat
    BY <1>2 DEF Refill, control, TypeOK
  <2>2. PeekHeld' = PeekHeld + 0
    BY <2>1 DEF PeekHeld
  <2>3. level' \in Nat /\ level' + 1 >= level + 0
    BY <2>1
  <2> QED BY <2>1, <2>2, <2>3, AdmissionStore DEF AdmissionInv
<1> QED BY <1>1, <1>2

LEMMA AdmissionStep ==
    ASSUME PeekStrategies \subseteq {"FIXED_WINDOW"},
           TypeOK, QueueIsPending, LoopsKnown, AdmissionInv, [Next]_vars
    PROVE  AdmissionInv'
<1>0. queue \in Seq(Requests) /\ cost \in [Requests -> 0..Limit]
  BY DEF TypeOK
<1>1. ASSUME NEW l \in Loops, LoopStep(l) \/ StoreError(l) PROVE AdmissionInv'
  BY <1>1, AdmissionLoop
<1>2. ASSUME NEW r \in Requests, NEW c \in Costs, RemoveTokens(r, c) \/ RemoveTokensRejected(r, c)
      PROVE AdmissionInv'
  <2>1. CASE RemoveTokensRejected(r, c)
    BY <2>1, AdmissionControl DEF RemoveTokensRejected, store
  <2>2. CASE RemoveTokens(r, c)
    <3>1. outcome[r] = "new" /\ cost' = [cost EXCEPT ![r] = c]
      BY <2>2 DEF RemoveTokens, NextCall
    <3>2. ASSUME NEW m \in Loops, loop[m].pc # "idle"
          PROVE  cost'[loop[m].req] = cost[loop[m].req]
      <4>1. loop[m].req \in Requests /\ loop[m].req # r
        BY <3>1, <3>2, LoopFields DEF LoopsKnown
      <4> QED BY <1>0, <3>1, <4>1
    <3>3. queue' \in Seq(Requests) /\ Drain(queue', processing, drainTimer)
      BY <1>0, <2>2 DEF RemoveTokens
    <3>4. UNCHANGED loop \/ \E s \in Requests : StartLoop(s)
      BY <3>3, DrainStarts
    <3> QED BY <2>2, <3>2, <3>4, AdmissionControl DEF RemoveTokens, store
  <2> QED BY <1>2, <2>1, <2>2
<1>3. ASSUME NEW i \in DOMAIN queue, QueueTimeout(i) PROVE AdmissionInv'
  <2>1. queue' \in Seq(Requests)
    BY <1>0, <1>3, RemoveAtType DEF QueueTimeout
  <2>2. UNCHANGED loop \/ \E s \in Requests : StartLoop(s)
    BY <1>3, <2>1, DrainStarts DEF QueueTimeout
  <2> QED BY <1>3, <2>2, AdmissionControl DEF QueueTimeout, store
<1>4. CASE DrainTimerFires
  <2>1. UNCHANGED loop \/ \E s \in Requests : StartLoop(s)
    BY <1>0, <1>4, DrainStarts DEF DrainTimerFires
  <2> QED BY <1>4, <2>1, AdmissionControl DEF DrainTimerFires, store
<1>5. ASSUME NEW len, NEW timedOut, ShutdownEnds(len, timedOut), UNCHANGED <<peek, store>>
      PROVE  AdmissionInv'
  <2>1. UNCHANGED loop \/ \E s \in Requests : StartLoop(s)
    BY <1>0, <1>5, HeadType DEF ShutdownEnds, StartsLoop
  <2> QED BY <1>5, <2>1, AdmissionControl DEF ShutdownEnds, ClearPending, store
<1>6. ASSUME Drain(queue, processing, drainTimer), UNCHANGED <<peek, store, cost>>
      PROVE  AdmissionInv'
  <2>1. UNCHANGED loop \/ \E s \in Requests : StartLoop(s)
    BY <1>0, <1>6, DrainStarts
  <2> QED BY <1>6, <2>1, AdmissionControl DEF store
<1>7. ASSUME NEW polls \in 0..MaxPolls, Shutdown(polls) PROVE AdmissionInv'
  BY <1>5, <1>6, <1>7 DEF Shutdown
<1>8. CASE ShutdownPoll
  BY <1>5, <1>6, <1>8 DEF ShutdownPoll
<1>9. CASE Clear
  BY <1>9, AdmissionControl DEF Clear, ClearPending, store
<1>10. CASE ShutdownAgain
  BY <1>10, AdmissionControl DEF ShutdownAgain, control, store
<1>11. CASE UNCHANGED vars
  BY <1>11, AdmissionControl DEF vars
<1>12. CASE Roll \/ Refill
  BY <1>12, AdmissionTime
<1>13. CASE PeekIncrement \/ PeekIncrementFails \/ PeekDecrement \/ PeekDecrementFails
  BY <1>13, AdmissionPeek
<1> QED
  BY <1>1, <1>2, <1>3, <1>4, <1>7, <1>8, <1>9, <1>10, <1>11, <1>12, <1>13 DEF Next

\* The queue admits at most maxRequests in a window (ever, for a bucket) plus the
\* capacity that came back by refill or by an undo that was late or repeated, for any
\* number of drain loops, clears, timeouts and store errors.  getTokensRemaining is
\* called in fixed windows only: with a bucket its unconditional decrement breaks the
\* bound (QueueBucketPeek.cfg shows it).
THEOREM QueueAdmission ==
    ASSUME PeekStrategies \subseteq {"FIXED_WINDOW"}
    PROVE  Spec => []AdmissionBounded
<1> DEFINE IInv == QueueIsPending /\ LoopsKnown /\ AdmissionInv
<1>1. Init => IInv
  BY PendingInit, LoopsKnownInit, AdmissionInit
<1>2. TypeOK /\ IInv /\ [Next]_vars => IInv'
  <2> SUFFICES ASSUME TypeOK, IInv, [Next]_vars PROVE IInv'
    OBVIOUS
  <2>1. QueueIsPending'
    BY PendingStep
  <2>2. LoopsKnown'
    BY <2>1, LoopsKnownStep
  <2>3. AdmissionInv'
    BY AdmissionStep
  <2> QED BY <2>1, <2>2, <2>3
<1>3. TypeOK /\ IInv => AdmissionBounded
  <2> SUFFICES ASSUME TypeOK, IInv PROVE AdmissionBounded
    OBVIOUS
  <2>1. HeldInv /\ BoundInv
    BY DEF AdmissionInv
  <2>2. /\ ledger.heldOk >= 0 /\ ledger.heldOk \in Int /\ ledger.admitted \in Int
        /\ ledger.credit \in Int /\ Limit \in Nat
    BY <2>1, HeldPositive
  <2> QED BY <2>1, <2>2 DEF BoundInv, AdmissionBounded
<1> QED BY <1>1, <1>2, <1>3, TypeCorrect, PTL DEF Spec
=============================================================================
