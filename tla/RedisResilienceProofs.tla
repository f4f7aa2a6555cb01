------------------------ MODULE RedisResilienceProofs ------------------------
(***************************************************************************)
(* Proofs about RedisResilience: the store keeps the circuit breaker's     *)
(* contract when it only increments, failoverStartedAtMs frames the        *)
(* outages, a recovery neither loses nor doubles a hit except where the    *)
(* model names the cause, and the admissions of an outage are bounded by   *)
(* the caps of the two stores.                                             *)
(***************************************************************************)
EXTENDS RedisResilience, FiniteSetTheorems, TLAPS

-----------------------------------------------------------------------------
(* The breaker itself, for any callers of it.  The inductive invariant is  *)
(* BreakerTypeOK with SafetyInv: the count of probes is stable because a   *)
(* caller holding a probe exists in HALF_OPEN alone, and the anchor of the *)
(* recovery window because it is set exactly outside CLOSED.               *)

BreakerIInv == BreakerTypeOK /\ SafetyInv

\* Taking one idle caller as a probe adds one to the number of probes.
LEMMA ProbeAdded ==
    ASSUME BreakerTypeOK, NEW c \in Callers, call[c] = "idle",
           call' = [call EXCEPT ![c] = "probe"]
    PROVE  Cardinality(Probes') = Cardinality(Probes) + 1
<1>1. IsFiniteSet(Probes)
  BY BreakerAssumption, FS_Subset DEF Probes
<1>2. Probes' = Probes \cup {c} /\ c \notin Probes
  BY DEF BreakerTypeOK, Probes
<1> QED BY <1>1, <1>2, FS_AddElement

\* With no caller holding a probe the count is zero, and conversely.
LEMMA NoProbes ==
    /\ IsFiniteSet(Probes)
    /\ Cardinality(Probes) = 0 <=> Probes = {}
<1>1. IsFiniteSet(Probes)
  BY BreakerAssumption, FS_Subset DEF Probes
<1> QED BY <1>1, FS_EmptySet

\* The same fact about the next state.
LEMMA NoProbesNext == Probes' = {} => Cardinality(Probes') = 0
BY FS_EmptySet

LEMMA BreakerInitInv == BreakerInit => BreakerIInv
<1> SUFFICES ASSUME BreakerInit PROVE BreakerIInv
  OBVIOUS
<1>1. BreakerTypeOK
  BY BreakerAssumption DEF BreakerInit, BreakerTypeOK, CallState, NotOpened
<1>2. Probes = {}
  BY DEF BreakerInit, Probes
<1> QED
  BY <1>1, <1>2, NoProbes, BreakerAssumption
     DEF BreakerIInv, SafetyInv, ProbeAccounting, ModeConsistent, BreakerInit,
         NotOpened

\* canAttempt keeps the invariant: a probe is granted below the cap only, and
\* entering HALF_OPEN starts from no probes.
LEMMA BreakerCanAttemptInv ==
    ASSUME BreakerIInv, NEW c \in Callers, CanAttempt(c)
    PROVE  BreakerIInv'
<1> USE DEF BreakerIInv, SafetyInv
<1>1. BreakerTypeOK'
  BY BreakerAssumption
     DEF CanAttempt, GrantHalfOpenProbe, BreakerTypeOK, CallState, NotOpened
<1>2. CASE state = "CLOSED"
  <2>1. Probes' = Probes /\ UNCHANGED breaker
    BY <1>2 DEF CanAttempt, Probes, BreakerTypeOK, breaker
  <2> QED BY <1>1, <2>1
             DEF ProbeAccounting, ModeConsistent, breaker
<1>3. CASE state = "OPEN"
  <2>1. halfOpenInFlight' = 1 /\ state' = "HALF_OPEN" /\ call' = [call EXCEPT ![c] = "probe"]
    BY <1>3 DEF CanAttempt, GrantHalfOpenProbe
  <2>2. Cardinality(Probes') = Cardinality(Probes) + 1
    BY <2>1, ProbeAdded DEF CanAttempt
  <2> QED
    BY <1>1, <1>3, <2>1, <2>2, BreakerAssumption
       DEF ProbeAccounting, ModeConsistent, CanAttempt, BreakerTypeOK
<1>4. CASE state = "HALF_OPEN"
  <2>1. /\ halfOpenInFlight < HalfOpenMaxProbes
        /\ halfOpenInFlight' = halfOpenInFlight + 1
        /\ call' = [call EXCEPT ![c] = "probe"]
        /\ UNCHANGED state
    BY <1>4 DEF CanAttempt, GrantHalfOpenProbe
  <2>2. Cardinality(Probes') = Cardinality(Probes) + 1
    BY <2>1, ProbeAdded DEF CanAttempt
  <2> QED
    BY <1>1, <1>4, <2>1, <2>2, BreakerAssumption
       DEF ProbeAccounting, ModeConsistent, CanAttempt, BreakerTypeOK
<1> QED BY <1>2, <1>3, <1>4 DEF BreakerTypeOK

\* Outside HALF_OPEN nobody holds a probe, so finishing a call leaves none.
LEMMA DoneOutsideHalfOpen ==
    ASSUME BreakerIInv, NEW c \in Callers, state # "HALF_OPEN", call' = Done(c)
    PROVE  Probes' = {} /\ Cardinality(Probes') = 0
<1>1. Probes = {}
  BY NoProbes DEF BreakerIInv, SafetyInv, ProbeAccounting
<1>2. Probes' = {}
  BY <1>1 DEF Probes, Done, BreakerIInv, BreakerTypeOK
<1> QED BY <1>2, NoProbesNext

\* The end of a HALF_OPEN episode leaves no probe.
LEMMA EpisodeOver ==
    ASSUME BreakerTypeOK, NEW c \in Callers, call' = DoneAndEpisodeOver(c)
    PROVE  Cardinality(Probes') = 0 /\ call' \in [Callers -> CallState]
<1>1. call' \in [Callers -> CallState]
  BY DEF DoneAndEpisodeOver, BreakerTypeOK, CallState
<1>2. Probes' = {}
  BY DEF DoneAndEpisodeOver, Probes
<1> QED BY <1>1, <1>2, NoProbesNext

LEMMA BreakerRecordSuccessInv ==
    ASSUME BreakerIInv, NEW c \in Callers, RecordSuccess(c)
    PROVE  BreakerIInv'
<1> USE DEF BreakerIInv, SafetyInv, RecordSuccess, SuccessUpdate
<1>1. CASE state = "HALF_OPEN"
  <2>1. Cardinality(Probes') = 0 /\ call' \in [Callers -> CallState]
    BY <1>1, EpisodeOver
  <2> QED
    BY <1>1, <2>1, BreakerAssumption
       DEF BreakerTypeOK, ProbeAccounting, ModeConsistent, NotOpened
<1>2. CASE state # "HALF_OPEN"
  <2>1. call' = Done(c)
    BY <1>2
  <2>2. Cardinality(Probes') = 0
    BY <1>2, <2>1, DoneOutsideHalfOpen
  <2>3. call' \in [Callers -> CallState]
    BY <2>1 DEF Done, BreakerTypeOK, CallState
  <2> QED
    BY <1>2, <2>2, <2>3, BreakerAssumption
       DEF BreakerTypeOK, ProbeAccounting, ModeConsistent, breaker
<1> QED BY <1>1, <1>2

LEMMA BreakerRecordFailureInv ==
    ASSUME BreakerIInv, NEW c \in Callers, RecordFailure(c)
    PROVE  BreakerIInv'
<1> USE DEF BreakerIInv, SafetyInv, RecordFailure, FailureUpdate
<1>1. CASE state = "HALF_OPEN"
  <2>1. Cardinality(Probes') = 0 /\ call' \in [Callers -> CallState]
    BY <1>1, EpisodeOver
  <2> QED
    BY <1>1, <2>1, BreakerAssumption
       DEF BreakerTypeOK, ProbeAccounting, ModeConsistent, NotOpened
<1>2. CASE state # "HALF_OPEN"
  <2>1. call' = Done(c)
    BY <1>2
  <2>2. Cardinality(Probes') = 0
    BY <1>2, <2>1, DoneOutsideHalfOpen
  <2>3. call' \in [Callers -> CallState]
    BY <2>1 DEF Done, BreakerTypeOK, CallState
  <2>4. CASE state = "CLOSED"
    BY <1>2, <2>2, <2>3, <2>4, BreakerAssumption
       DEF BreakerTypeOK, ProbeAccounting, ModeConsistent, NotOpened
  <2>5. CASE state = "OPEN"
    BY <1>2, <2>2, <2>3, <2>5
       DEF BreakerTypeOK, ProbeAccounting, ModeConsistent, breaker
  <2> QED BY <1>2, <2>4, <2>5 DEF BreakerTypeOK
<1> QED BY <1>1, <1>2

LEMMA BreakerResetInv == BreakerIInv /\ BreakerReset => BreakerIInv'
<1> SUFFICES ASSUME BreakerIInv, BreakerReset PROVE BreakerIInv'
  OBVIOUS
<1>1. Probes' = {}
  BY DEF BreakerReset, Probes
<1>2. call' \in [Callers -> CallState]
  BY DEF BreakerReset, BreakerIInv, BreakerTypeOK, CallState
<1> QED
  BY <1>1, <1>2, NoProbesNext, BreakerAssumption
     DEF BreakerReset, BreakerIInv, SafetyInv, BreakerTypeOK, ProbeAccounting,
         ModeConsistent, NotOpened

LEMMA BreakerTickInv == BreakerIInv /\ BreakerTick => BreakerIInv'
<1> SUFFICES ASSUME BreakerIInv, BreakerTick PROVE BreakerIInv'
  OBVIOUS
<1>1. Probes' = Probes
  BY DEF BreakerTick, Probes
<1> QED
  BY <1>1, BreakerAssumption
     DEF BreakerTick, BreakerIInv, SafetyInv, BreakerTypeOK, ProbeAccounting,
         ModeConsistent, NotOpened

LEMMA BreakerNextInv == BreakerIInv /\ [BreakerNext]_breakerVars => BreakerIInv'
<1> SUFFICES ASSUME BreakerIInv, [BreakerNext]_breakerVars PROVE BreakerIInv'
  OBVIOUS
<1>1. CASE \E c \in Callers : CanAttempt(c) \/ RecordSuccess(c) \/ RecordFailure(c)
  BY <1>1, BreakerCanAttemptInv, BreakerRecordSuccessInv, BreakerRecordFailureInv
<1>2. CASE BreakerReset
  BY <1>2, BreakerResetInv
<1>3. CASE BreakerTick
  BY <1>3, BreakerTickInv
<1>4. CASE UNCHANGED breakerVars
  <2>1. Probes' = Probes
    BY <1>4 DEF breakerVars, Probes
  <2> QED
    BY <1>4, <2>1
       DEF breakerVars, BreakerIInv, SafetyInv, BreakerTypeOK, ProbeAccounting,
           ModeConsistent
<1> QED BY <1>1, <1>2, <1>3, <1>4 DEF BreakerNext

LEMMA BreakerInductive == BreakerSpec => []BreakerIInv
<1> QED BY BreakerInitInv, BreakerNextInv, PTL DEF BreakerSpec

\* Type correctness of the breaker, whatever the interleaving of callers.
THEOREM BreakerTypeCorrect == BreakerSpec => []BreakerTypeOK
<1>1. BreakerIInv => BreakerTypeOK
  BY DEF BreakerIInv
<1> QED BY <1>1, BreakerInductive, PTL

\* halfOpenInFlight is exactly the number of unreported probes of the current
\* HALF_OPEN episode and within the cap, for any number of callers.
THEOREM ProbesCounted == BreakerSpec => []ProbeAccounting
<1>1. BreakerIInv => ProbeAccounting
  BY DEF BreakerIInv, SafetyInv
<1> QED BY <1>1, BreakerInductive, PTL

\* CLOSED is below the threshold and OPEN/HALF_OPEN have their anchor.
THEOREM ModesConsistent == BreakerSpec => []ModeConsistent
<1>1. BreakerIInv => ModeConsistent
  BY DEF BreakerIInv, SafetyInv
<1> QED BY <1>1, BreakerInductive, PTL

\* No caller's step cuts the recovery window short; a reset() of an OPEN
\* circuit is told apart because no probe is outstanding then.
THEOREM WindowRespected == BreakerSpec => RecoveryWindowRespected
<1> DEFINE Kept == (state = "OPEN" /\ state' # "OPEN" /\ call' # call)
                      => (state' = "HALF_OPEN" /\ sinceOpened >= RecoveryTime)
<1>1. BreakerIInv /\ BreakerNext => Kept
  <2> SUFFICES ASSUME BreakerIInv, BreakerNext, state = "OPEN", state' # "OPEN", call' # call
               PROVE  state' = "HALF_OPEN" /\ sinceOpened >= RecoveryTime
    OBVIOUS
  <2>1. ASSUME NEW c \in Callers, CanAttempt(c)
        PROVE  state' = "HALF_OPEN" /\ sinceOpened >= RecoveryTime
    BY <2>1 DEF CanAttempt, RecoveryElapsed
  <2>2. ASSUME NEW c \in Callers, RecordSuccess(c) \/ RecordFailure(c)
        PROVE  FALSE
    BY <2>2
       DEF RecordSuccess, SuccessUpdate, RecordFailure, FailureUpdate,
           breaker
  <2>3. ~BreakerReset
    <3>1. Probes = {}
      BY NoProbes DEF BreakerIInv, SafetyInv, ProbeAccounting
    <3> QED BY <3>1 DEF BreakerReset, Probes, BreakerIInv, BreakerTypeOK
  <2>4. ~BreakerTick
    BY DEF BreakerTick
  <2> QED BY <2>1, <2>2, <2>3, <2>4 DEF BreakerNext
<1>2. BreakerIInv /\ [BreakerNext]_breakerVars => [Kept]_breakerVars
  BY <1>1
<1> QED BY <1>2, BreakerInductive, PTL DEF BreakerSpec, RecoveryWindowRespected

-----------------------------------------------------------------------------
(* The store implements the breaker's specification                        *)

\* No operation that leaves its attempt unreported is in flight.
OnlyIncrements == \A c \in Callers : op[c].pc = "sent" => op[c].kind = "increment"

LEMMA OnlyIncrementsInit == Init => OnlyIncrements
BY DEF Init, OnlyIncrements, IdleOp

\* op is a function throughout.
OpFunction == op = [c \in Callers |-> op[c]]

LEMMA OpUpdate ==
    ASSUME OpFunction, OnlyIncrements, NEW c \in Callers, NEW o,
           op' = [op EXCEPT ![c] = o], o.pc = "sent" => o.kind = "increment"
    PROVE  OpFunction' /\ OnlyIncrements'
<1>1. OpFunction'
  BY DEF OpFunction
<1>2. \A x \in Callers : op'[x] = IF x = c THEN o ELSE op[x]
  BY DEF OpFunction
<1> QED BY <1>1, <1>2 DEF OnlyIncrements

LEMMA OnlyIncrementsStep ==
    ASSUME Kinds = {"increment"}, OpFunction, OnlyIncrements, [Next]_vars
    PROVE  OpFunction' /\ OnlyIncrements'
<1>1. ASSUME UNCHANGED op PROVE OpFunction' /\ OnlyIncrements'
  BY <1>1 DEF OpFunction, OnlyIncrements
<1>2. ASSUME NEW c \in Callers, NEW k \in Keys, NEW kind \in Kinds, Attempt(c, kind, k)
      PROVE  OpFunction' /\ OnlyIncrements'
  <2> DEFINE o == [kind |-> kind, key |-> k, pc |-> "sent", blocked |-> FALSE]
  <2>1. op' = [op EXCEPT ![c] = o]
    BY <1>2 DEF Attempt
  <2>2. o.kind = "increment"
    OBVIOUS
  <2> HIDE DEF o
  <2> QED BY <2>1, <2>2, OpUpdate
<1>3. ASSUME NEW c \in Callers, RedisIncrement(c)
      PROVE  OpFunction' /\ OnlyIncrements'
  <2> DEFINE o == [kind |-> "increment", key |-> op[c].key, pc |-> "executed",
                   blocked |-> Blocked(redis[op[c].key], Limit)]
  <2>1. op' = [op EXCEPT ![c] = o]
    BY <1>3 DEF RedisIncrement
  <2>2. o.kind = "increment"
    OBVIOUS
  <2> HIDE DEF o
  <2> QED BY <2>1, <2>2, OpUpdate
<1>4. ASSUME NEW c \in Callers, Answer(c)
      PROVE  OpFunction' /\ OnlyIncrements'
  <2>1. op' = [op EXCEPT ![c] = IdleOp]
    BY <1>4 DEF Answer, IncrementSucceeds, IncrementFails, OtherEnds
  <2>2. IdleOp.pc # "sent"
    BY DEF IdleOp
  <2> QED BY <2>1, <2>2, OpUpdate
<1>5. CASE UNCHANGED vars
  BY <1>1, <1>5 DEF vars
<1>6. CASE Next
  BY <1>1, <1>2, <1>3, <1>4, <1>6 DEF Next, Insured, SyncEnds, SyncKey, Shutdown, Tick
<1> QED BY <1>5, <1>6

\* Each step of the store is one step of the breaker, or none.
LEMMA BreakerStep ==
    ASSUME OnlyIncrements, [Next]_vars
    PROVE  [BreakerNext]_breakerVars
<1>1. ASSUME UNCHANGED breakerVars PROVE UNCHANGED breakerVars
  BY <1>1 DEF breakerVars, breakerVars
<1>2. ASSUME NEW c \in Callers, Answer(c) PROVE BreakerNext
  <2>1. ~OtherEnds(c)
    BY DEF OnlyIncrements, OtherEnds
  <2> QED BY <1>2, <2>1 DEF Answer, IncrementSucceeds, IncrementFails, BreakerNext
<1>3. ASSUME NEW c \in Callers, NEW kind \in Kinds, NEW k \in Keys, Attempt(c, kind, k)
      PROVE  BreakerNext
  BY <1>3 DEF Attempt, BreakerNext
<1>4. CASE UNCHANGED vars
  BY <1>1, <1>4 DEF vars
<1>5. CASE Next
  BY <1>1, <1>2, <1>3, <1>5
     DEF Next, Insured, RedisIncrement, SyncEnds, SyncKey, Shutdown, Tick, BreakerNext
<1> QED BY <1>4, <1>5

\* A RedisStore that is only incremented reports every attempt that
\* canAttempt() grants: it implements the specification of the breaker, so
\* what is proved of CircuitBreaker holds inside the store.
THEOREM IncrementsKeepContract ==
    ASSUME Kinds = {"increment"}
    PROVE  Spec => BreakerContract
<1>1. Init => BreakerInit /\ OpFunction /\ OnlyIncrements
  BY OnlyIncrementsInit DEF Init, OpFunction
<1>2. OpFunction /\ OnlyIncrements /\ [Next]_vars => (OpFunction /\ OnlyIncrements)'
  BY OnlyIncrementsStep
<1>3. OnlyIncrements /\ [Next]_vars => [BreakerNext]_breakerVars
  BY BreakerStep
<1> QED BY <1>1, <1>2, <1>3, PTL DEF Spec, BreakerContract, BreakerSpec

-----------------------------------------------------------------------------
(* onFailover and onRecovery                                               *)

\* Reports other than a shutdown leave the history of shutdowns alone.
LEMMA FailoverStep ==
    ASSUME FailoverTracksOutage, [Next]_vars
    PROVE  FailoverTracksOutage'
<1> USE DEF FailoverTracksOutage, Spoilt
<1>1. ASSUME UNCHANGED <<state, failover>>, causes \subseteq causes'
      PROVE  FailoverTracksOutage'
  BY <1>1
<1>2. ASSUME NEW c \in Callers, NEW kind \in Kinds, NEW k \in Keys, Attempt(c, kind, k)
      PROVE  FailoverTracksOutage'
  BY <1>2 DEF Attempt, CanAttempt, GrantHalfOpenProbe, counters
<1>3. ASSUME NEW c \in Callers, NEW kind \in Kinds, NEW k \in Keys, Insured(c, kind, k)
      PROVE  FailoverTracksOutage'
  BY <1>1, <1>3 DEF Insured, InsuranceWrites, breakerVars
<1>4. ASSUME NEW c \in Callers, RedisIncrement(c) PROVE FailoverTracksOutage'
  BY <1>1, <1>4 DEF RedisIncrement, RedisWrites, breakerVars
<1>5. ASSUME NEW c \in Callers, IncrementSucceeds(c) PROVE FailoverTracksOutage'
  <2>1. CASE state = "HALF_OPEN"
    <3>1. failover' = FALSE
      BY <1>5, <2>1 DEF IncrementSucceeds, OnClose
    <3>2. state' = "CLOSED"
      BY <1>5, <2>1 DEF IncrementSucceeds, RecordSuccess, SuccessUpdate
    <3> QED BY <3>1, <3>2
  <2>2. CASE state # "HALF_OPEN"
    BY <1>1, <1>5, <2>2
       DEF IncrementSucceeds, RecordSuccess, SuccessUpdate, breaker
  <2> QED BY <2>1, <2>2
<1>6. ASSUME NEW c \in Callers, IncrementFails(c) PROVE FailoverTracksOutage'
  <2>1. causes \subseteq causes' /\ failover' = (failover \/ (state = "CLOSED" /\ state' = "OPEN"))
    BY <1>6 DEF IncrementFails, InsuranceWrites
  <2>2. \/ state' = state
        \/ state = "CLOSED" /\ state' = "OPEN"
        \/ state = "HALF_OPEN" /\ state' = "OPEN"
    BY <1>6 DEF IncrementFails, RecordFailure, FailureUpdate, breaker
  <2> QED BY <2>1, <2>2
<1>7. ASSUME NEW c \in Callers, OtherEnds(c) PROVE FailoverTracksOutage'
  BY <1>1, <1>7 DEF OtherEnds, RedisWrites, counters
<1>8. ASSUME NEW s \in Syncs, SyncEnds(s) PROVE FailoverTracksOutage'
  BY <1>1, <1>8 DEF SyncEnds, breakerVars
<1>9. ASSUME NEW s \in Syncs, NEW k \in Keys, SyncKey(s, k) PROVE FailoverTracksOutage'
  BY <1>1, <1>9 DEF SyncKey, breakerVars
<1>10. CASE Shutdown
  BY <1>10 DEF Shutdown
<1>11. CASE Tick
  BY <1>1, <1>11 DEF Tick, BreakerTick, counters
<1>12. CASE UNCHANGED vars
  BY <1>1, <1>12 DEF vars, breakerVars
<1> QED
  BY <1>2, <1>3, <1>4, <1>5, <1>6, <1>7, <1>8, <1>9, <1>10, <1>11, <1>12
     DEF Next, Answer

\* As long as nobody shuts the store down, failoverStartedAtMs is set exactly
\* while the circuit is not CLOSED, whatever the callers, Redis and the replays
\* do: each onRecovery reports the downtime of the outage that onFailover
\* announced.
THEOREM FailoverFramesOutage == Spec => []FailoverTracksOutage
<1>1. Init => FailoverTracksOutage
  BY DEF Init, BreakerInit, FailoverTracksOutage
<1>2. FailoverTracksOutage /\ [Next]_vars => FailoverTracksOutage'
  BY FailoverStep
<1> QED BY <1>1, <1>2, PTL DEF Spec

-----------------------------------------------------------------------------
(* The types of the counters                                               *)

AllKinds == {"increment", "decrement", "reset", "set", "delete", "get"}
OpType == [kind : Kinds \cup {"none"}, key : Keys \cup {NoKey},
           pc : {"idle", "sent", "executed"}, blocked : BOOLEAN]
SyncType == [active : BOOLEAN, left : SUBSET Keys, snap : [Keys -> Nat]]

\* The store's part of TypeOK, and that an operation in flight has a key.
DataInv ==
    /\ config \in [strategy : Strategies, syncOnRecovery : SyncModes]
    /\ op \in [Callers -> OpType]
    /\ \A c \in Callers : /\ op[c].pc # "idle" => op[c].kind # "none"
                          /\ op[c].kind # "none" => op[c].key \in Keys
    /\ redis \in [Keys -> Nat]
    /\ insurance \in [Keys -> Nat \cup {NoEntry}]
    /\ sync \in [Syncs -> SyncType]
    /\ hits \in [Keys -> Nat] /\ admitted \in [Keys -> Nat] /\ resets \in Nat

LEMMA LevelType ==
    ASSUME NEW n \in Nat \cup {NoEntry}
    PROVE  Level(n) \in Nat /\ (n # NoEntry => Level(n) = n)
BY DEF Level, NoEntry

LEMMA EffectType ==
    ASSUME NEW kind \in AllKinds, NEW n \in Nat, NEW limit
    PROVE  Effect(kind, n, limit) \in Nat
BY DEF Effect, AllKinds

LEMMA IntendedType ==
    ASSUME NEW kind \in AllKinds, NEW n \in Nat, NEW counted
    PROVE  Intended(kind, n, counted) \in Nat
BY EffectType DEF Intended, AllKinds

LEMMA InsuranceEffectType ==
    ASSUME DataInv, NEW kind \in AllKinds, NEW k \in Keys
    PROVE  InsuranceEffect(kind, k) \in Nat \cup {NoEntry}
<1>1. insurance[k] \in Nat \cup {NoEntry} /\ Level(insurance[k]) \in Nat
  BY LevelType DEF DataInv
<1>2. Effect(kind, Level(insurance[k]), InsuranceLimit) \in Nat
  BY <1>1, EffectType
<1> QED BY <1>1, <1>2 DEF InsuranceEffect

LEMMA ReplayedType ==
    ASSUME DataInv, NEW r \in Nat, NEW n \in Nat
    PROVE  Replayed(r, n) \in Nat
<1>1. config.strategy \in {"FIXED_WINDOW", "SLIDING_WINDOW", "TOKEN_BUCKET"} /\ Limit \in Nat
  BY ResilienceAssumption DEF DataInv
<1> QED BY <1>1 DEF Replayed

LEMMA RedisWritesType ==
    ASSUME DataInv, NEW kind \in AllKinds, NEW k \in Keys, RedisWrites(kind, k)
    PROVE  /\ redis' \in [Keys -> Nat] /\ hits' \in [Keys -> Nat]
           /\ insurance' \in [Keys -> Nat \cup {NoEntry}]
<1>1. redis[k] \in Nat /\ hits[k] \in Nat
  BY DEF DataInv
<1>2. Effect(kind, redis[k], Limit) \in Nat
  BY <1>1, EffectType
<1>3. Intended(kind, hits[k], Counted(redis[k], Limit)) \in Nat
  BY <1>1, IntendedType
<1>4. redis' \in [Keys -> Nat]
  BY <1>2 DEF RedisWrites, DataInv
<1>5. hits' \in [Keys -> Nat]
  BY <1>3 DEF RedisWrites, DataInv
<1> QED BY <1>4, <1>5 DEF RedisWrites, DataInv

LEMMA InsuranceWritesType ==
    ASSUME DataInv, NEW kind \in AllKinds, NEW k \in Keys, NEW recounted,
           InsuranceWrites(kind, k, recounted)
    PROVE  /\ redis' \in [Keys -> Nat] /\ hits' \in [Keys -> Nat]
           /\ insurance' \in [Keys -> Nat \cup {NoEntry}] /\ admitted' \in [Keys -> Nat]
<1>1. hits[k] \in Nat /\ admitted[k] + 1 \in Nat
  BY DEF DataInv
<1>2. InsuranceEffect(kind, k) \in Nat \cup {NoEntry}
  BY InsuranceEffectType
<1>3. Intended(kind, hits[k], Counted(Level(insurance[k]), InsuranceLimit)) \in Nat
  BY <1>1, IntendedType
<1>4. insurance' \in [Keys -> Nat \cup {NoEntry}]
  BY <1>2 DEF InsuranceWrites, DataInv
<1>5. hits' \in [Keys -> Nat]
  BY <1>3 DEF InsuranceWrites, DataInv
<1>6. admitted' \in [Keys -> Nat]
  BY <1>1 DEF InsuranceWrites, DataInv
<1> QED BY <1>4, <1>5, <1>6 DEF InsuranceWrites, DataInv

LEMMA ResetAllType ==
    ASSUME DataInv, ResetAll
    PROVE  insurance' \in [Keys -> Nat \cup {NoEntry}] /\ resets' \in Nat
BY DEF DataInv, ResetAll

LEMMA OpUpdateType ==
    ASSUME DataInv, NEW c \in Callers, NEW o \in OpType, op' = [op EXCEPT ![c] = o],
           o.pc # "idle" => o.kind # "none", o.kind # "none" => o.key \in Keys
    PROVE  /\ op' \in [Callers -> OpType]
           /\ \A x \in Callers : /\ op'[x].pc # "idle" => op'[x].kind # "none"
                                 /\ op'[x].kind # "none" => op'[x].key \in Keys
<1>1. op \in [Callers -> OpType]
  BY DEF DataInv
<1>2. \A x \in Callers : op'[x] = IF x = c THEN o ELSE op[x]
  BY <1>1
<1>3. op' \in [Callers -> OpType]
  BY <1>1
<1> QED BY <1>2, <1>3 DEF DataInv

LEMMA IdleOpType == IdleOp \in OpType /\ IdleOp.pc = "idle" /\ IdleOp.kind = "none"
BY DEF IdleOp, OpType

LEMMA StartSyncType ==
    ASSUME DataInv, NEW s \in Syncs, StartSync(s)
    PROVE  sync' \in [Syncs -> SyncType]
<1> DEFINE t == [active |-> TRUE, left |-> ActiveKeys, snap |-> [k \in Keys |-> Level(insurance[k])]]
<1>1. \A k \in Keys : Level(insurance[k]) \in Nat
  BY LevelType DEF DataInv
<1>2. t \in SyncType
  BY <1>1 DEF SyncType, ActiveKeys
<1>3. sync' = [sync EXCEPT ![s] = t]
  BY DEF StartSync
<1> HIDE DEF t
<1> QED BY <1>2, <1>3 DEF DataInv

LEMMA OnCloseType ==
    ASSUME DataInv, OnClose
    PROVE  /\ insurance' \in [Keys -> Nat \cup {NoEntry}] /\ resets' \in Nat
           /\ sync' \in [Syncs -> SyncType]
<1>1. CASE ResetAll /\ UNCHANGED <<sync, causes>>
  BY <1>1, ResetAllType DEF DataInv
<1>2. ASSUME NEW s \in Syncs, StartSync(s)
      PROVE  /\ insurance' \in [Keys -> Nat \cup {NoEntry}] /\ resets' \in Nat
             /\ sync' \in [Syncs -> SyncType]
  BY <1>2, StartSyncType DEF DataInv, StartSync
<1>3. CASE UNCHANGED <<insurance, resets, sync, causes>>
  BY <1>3 DEF DataInv
<1> QED BY <1>1, <1>2, <1>3 DEF OnClose

LEMMA DataInit == Init => DataInv
<1> SUFFICES ASSUME Init PROVE DataInv
  OBVIOUS
<1>1. op \in [Callers -> OpType] /\ \A c \in Callers : op[c] = IdleOp
  BY IdleOpType DEF Init
<1>2. sync \in [Syncs -> SyncType]
  <2>1. IdleSync \in SyncType
    BY DEF IdleSync, SyncType
  <2> QED BY <2>1 DEF Init
<1>3. /\ redis \in [Keys -> Nat] /\ insurance \in [Keys -> Nat \cup {NoEntry}]
      /\ hits \in [Keys -> Nat] /\ admitted \in [Keys -> Nat] /\ resets \in Nat
  BY DEF Init
<1> QED BY <1>1, <1>2, <1>3, IdleOpType DEF Init, DataInv

LEMMA DataStep ==
    ASSUME DataInv, [Next]_vars
    PROVE  DataInv'
<1>0. Kinds \subseteq AllKinds
  BY ResilienceAssumption DEF AllKinds
<1>1. ASSUME NEW c \in Callers, NEW kind \in Kinds, NEW k \in Keys, Attempt(c, kind, k)
      PROVE  DataInv'
  <2> DEFINE o == [kind |-> kind, key |-> k, pc |-> "sent", blocked |-> FALSE]
  <2>1. o \in OpType /\ o.kind # "none" /\ o.key \in Keys
    BY <1>0 DEF OpType, AllKinds
  <2>2. op' = [op EXCEPT ![c] = o]
    BY <1>1 DEF Attempt
  <2> HIDE DEF o
  <2> QED BY <1>1, <2>1, <2>2, OpUpdateType DEF Attempt, DataInv, counters
<1>2. ASSUME NEW c \in Callers, NEW kind \in Kinds, NEW k \in Keys, Insured(c, kind, k)
      PROVE  DataInv'
  BY <1>0, <1>2, InsuranceWritesType DEF Insured, DataInv
<1>3. ASSUME NEW c \in Callers, RedisIncrement(c) PROVE DataInv'
  <2> DEFINE o == [kind |-> "increment", key |-> op[c].key, pc |-> "executed",
                   blocked |-> Blocked(redis[op[c].key], Limit)]
  <2>1. op[c].kind = "increment" /\ op[c].kind \in Kinds /\ op[c].key \in Keys
    BY <1>3 DEF RedisIncrement, DataInv, OpType
  <2>2. o \in OpType /\ o.kind # "none" /\ o.key \in Keys
    BY <2>1 DEF OpType, Blocked
  <2>3. op' = [op EXCEPT ![c] = o] /\ RedisWrites("increment", op[c].key)
    BY <1>3 DEF RedisIncrement
  <2> HIDE DEF o
  <2>4. /\ redis' \in [Keys -> Nat] /\ hits' \in [Keys -> Nat]
        /\ insurance' \in [Keys -> Nat \cup {NoEntry}]
    BY <1>0, <2>1, <2>3, RedisWritesType
  <2> QED BY <1>3, <2>2, <2>3, <2>4, OpUpdateType DEF RedisIncrement, DataInv
<1>4. ASSUME NEW c \in Callers, IncrementSucceeds(c) PROVE DataInv'
  <2>1. op' = [op EXCEPT ![c] = IdleOp] /\ UNCHANGED <<config, redis, hits>>
    BY <1>4 DEF IncrementSucceeds
  <2>2. op[c].key \in Keys
    BY <1>4 DEF IncrementSucceeds, DataInv
  <2>3. admitted' \in [Keys -> Nat]
    BY <1>4, <2>2 DEF IncrementSucceeds, DataInv
  <2>4. /\ insurance' \in [Keys -> Nat \cup {NoEntry}] /\ resets' \in Nat
        /\ sync' \in [Syncs -> SyncType]
    BY <1>4, OnCloseType DEF IncrementSucceeds, DataInv
  <2> QED BY <2>1, <2>3, <2>4, OpUpdateType, IdleOpType DEF DataInv
<1>5. ASSUME NEW c \in Callers, IncrementFails(c) PROVE DataInv'
  <2>1. op[c].key \in Keys /\ "increment" \in AllKinds
    BY <1>5 DEF IncrementFails, DataInv, AllKinds
  <2>2. /\ op' = [op EXCEPT ![c] = IdleOp] /\ UNCHANGED <<config, sync, resets>>
        /\ InsuranceWrites("increment", op[c].key, op[c].pc = "executed")
    BY <1>5 DEF IncrementFails
  <2>3. /\ redis' \in [Keys -> Nat] /\ hits' \in [Keys -> Nat]
        /\ insurance' \in [Keys -> Nat \cup {NoEntry}] /\ admitted' \in [Keys -> Nat]
    BY <2>1, <2>2, InsuranceWritesType
  <2> QED BY <2>2, <2>3, OpUpdateType, IdleOpType DEF DataInv
<1>6. ASSUME NEW c \in Callers, OtherEnds(c) PROVE DataInv'
  <2>1. op[c].kind \in AllKinds /\ op[c].key \in Keys
    BY <1>0, <1>6 DEF OtherEnds, DataInv, OpType
  <2>2. op' = [op EXCEPT ![c] = IdleOp] /\ UNCHANGED <<config, sync, admitted, resets>>
    BY <1>6 DEF OtherEnds
  <2>3. /\ redis' \in [Keys -> Nat] /\ hits' \in [Keys -> Nat]
        /\ insurance' \in [Keys -> Nat \cup {NoEntry}]
    BY <1>6, <2>1, RedisWritesType DEF OtherEnds, counters, DataInv
  <2> QED BY <2>2, <2>3, OpUpdateType, IdleOpType DEF DataInv
<1>7. ASSUME NEW s \in Syncs, SyncEnds(s) PROVE DataInv'
  <2>1. IdleSync \in SyncType
    BY DEF IdleSync, SyncType
  <2>2. sync' \in [Syncs -> SyncType]
    BY <1>7, <2>1 DEF SyncEnds, DataInv
  <2> QED BY <1>7, <2>2, ResetAllType DEF SyncEnds, DataInv
<1>8. ASSUME NEW s \in Syncs, NEW k \in Keys, SyncKey(s, k) PROVE DataInv'
  <2>1. sync' \in [Syncs -> SyncType]
    <3>1. sync[s] \in SyncType /\ sync \in [Syncs -> SyncType]
      BY DEF DataInv
    <3>2. [sync[s] EXCEPT !.left = @ \ {k}] \in SyncType
      BY <3>1 DEF SyncType
    <3> QED BY <1>8, <3>1, <3>2 DEF SyncKey
  <2>2. redis[k] \in Nat /\ sync[s].snap[k] \in Nat
    BY DEF DataInv, SyncType
  <2>3. redis' \in [Keys -> Nat]
    BY <1>8, <2>2, ReplayedType DEF SyncKey, DataInv
  <2> QED BY <1>8, <2>1, <2>3 DEF SyncKey, DataInv
<1>9. CASE Shutdown \/ Tick \/ UNCHANGED vars
  BY <1>9 DEF Shutdown, Tick, vars, counters, DataInv
<1> QED
  BY <1>1, <1>2, <1>3, <1>4, <1>5, <1>6, <1>7, <1>8, <1>9 DEF Next, Answer

-----------------------------------------------------------------------------
(* What the operations do to the counters of a key                         *)

\* Redis holds r and is to hold h: an increment raises both or neither, the
\* other writes lower or set both alike.
LEMMA RedisEffect ==
    ASSUME DataInv, NEW kind \in AllKinds, NEW k \in Keys, RedisWrites(kind, k)
    PROVE  /\ insurance' = insurance
           /\ \A j \in Keys \ {k} : redis'[j] = redis[j] /\ hits'[j] = hits[j]
           /\ \A x \in Nat : redis[k] + x >= hits[k] => redis'[k] + x >= hits'[k]
           /\ \A x, y \in Nat : redis[k] + x <= hits[k] + y /\ kind \in {"increment", "get"}
                 => redis'[k] + x <= hits'[k] + y
           /\ redis[k] <= hits[k] => redis'[k] <= hits'[k]
<1>1. redis[k] \in Nat /\ hits[k] \in Nat
  BY DEF DataInv
<1>2. /\ redis'[k] = Effect(kind, redis[k], Limit)
      /\ hits'[k] = Intended(kind, hits[k], Counted(redis[k], Limit))
      /\ \A j \in Keys \ {k} : redis'[j] = redis[j] /\ hits'[j] = hits[j]
  BY DEF RedisWrites, DataInv
<1>3. CASE kind = "increment"
  <2>1. \/ redis'[k] = redis[k] + 1 /\ hits'[k] = hits[k] + 1
        \/ redis'[k] = redis[k] /\ hits'[k] = hits[k]
    BY <1>2, <1>3 DEF Effect, Intended
  <2> QED BY <1>1, <1>2, <1>3, <2>1 DEF RedisWrites
<1>4. CASE kind = "decrement"
  <2>1. /\ redis'[k] = IF redis[k] > 0 THEN redis[k] - 1 ELSE 0
        /\ hits'[k] = IF hits[k] > 0 THEN hits[k] - 1 ELSE 0
    BY <1>2, <1>4 DEF Effect, Intended
  <2> QED BY <1>1, <1>2, <1>4, <2>1 DEF RedisWrites
<1>5. CASE kind \in {"reset", "delete", "set"}
  <2>1. redis'[k] = hits'[k] /\ hits'[k] \in {0, 1}
    BY <1>2, <1>5 DEF Effect, Intended
  <2> QED BY <1>1, <1>2, <1>5, <2>1 DEF RedisWrites
<1>6. CASE kind = "get"
  <2>1. redis'[k] = redis[k] /\ hits'[k] = hits[k]
    BY <1>2, <1>6 DEF Effect, Intended
  <2> QED BY <1>1, <1>2, <1>6, <2>1 DEF RedisWrites
<1> QED BY <1>3, <1>4, <1>5, <1>6 DEF AllKinds

\* The same in the insurance store, which starts from an absent entry.
LEMMA InsuranceEffects ==
    ASSUME DataInv, NEW kind \in AllKinds, NEW k \in Keys, NEW recounted \in BOOLEAN,
           recounted => kind = "increment", InsuranceWrites(kind, k, recounted)
    PROVE  /\ redis' = redis
           /\ \A j \in Keys \ {k} : insurance'[j] = insurance[j] /\ hits'[j] = hits[j]
           /\ \A x \in Nat : x + Level(insurance[k]) >= hits[k]
                 => x + Level(insurance'[k]) >= hits'[k]
           /\ kind \notin {"increment", "set"} => hits'[k] <= hits[k]
           /\ ~recounted /\ kind \in {"increment", "get"} =>
                 \/ Level(insurance'[k]) = Level(insurance[k]) /\ hits'[k] = hits[k]
                 \/ Level(insurance'[k]) = Level(insurance[k]) + 1 /\ hits'[k] = hits[k] + 1
           /\ ~recounted /\ Level(insurance[k]) <= hits[k]
                 => Level(insurance'[k]) <= hits'[k]
<1> DEFINE l == Level(insurance[k])
           m == Level(insurance'[k])
<1>1. l \in Nat /\ hits[k] \in Nat /\ insurance[k] \in Nat \cup {NoEntry}
  BY LevelType DEF DataInv
<1>2. /\ insurance'[k] = InsuranceEffect(kind, k)
      /\ hits'[k] = IF recounted THEN hits[k]
                    ELSE Intended(kind, hits[k], Counted(l, InsuranceLimit))
      /\ \A j \in Keys \ {k} : insurance'[j] = insurance[j] /\ hits'[j] = hits[j]
      /\ redis' = redis
  BY DEF InsuranceWrites, DataInv
<1>3. Level(NoEntry) = 0 /\ \A n \in Nat : Level(n) = n
  BY DEF Level, NoEntry
<1>4. CASE kind = "increment"
  <2>1. insurance'[k] = IF Counted(l, InsuranceLimit) THEN l + 1 ELSE l
    BY <1>2, <1>4 DEF InsuranceEffect, Effect
  <2>2. m = IF Counted(l, InsuranceLimit) THEN l + 1 ELSE l
    BY <1>1, <1>3, <2>1
  <2>3. hits'[k] = IF ~recounted /\ Counted(l, InsuranceLimit) THEN hits[k] + 1 ELSE hits[k]
    BY <1>2, <1>4 DEF Intended
  <2> HIDE DEF l, m
  <2>4. /\ m \in {l, l + 1} /\ hits'[k] \in {hits[k], hits[k] + 1}
        /\ m = l => hits'[k] = hits[k]
        /\ ~recounted /\ m = l + 1 => hits'[k] = hits[k] + 1
    BY <1>1, <2>2, <2>3
  <2>5. \A x \in Nat : x + l >= hits[k] => x + m >= hits'[k]
    BY <1>1, <2>4
  <2>6. ~recounted => \/ m = l /\ hits'[k] = hits[k]
                      \/ m = l + 1 /\ hits'[k] = hits[k] + 1
    BY <2>4
  <2>7. ~recounted /\ l <= hits[k] => m <= hits'[k]
    BY <1>1, <2>6
  <2> QED BY <1>2, <1>4, <2>5, <2>6, <2>7 DEF l, m
<1>5. CASE kind = "decrement"
  <2>0. recounted = FALSE
    BY <1>5
  <2>1. hits'[k] = IF hits[k] > 0 THEN hits[k] - 1 ELSE 0
    BY <1>2, <1>5, <2>0 DEF Intended, Effect
  <2>2. m = IF l > 0 THEN l - 1 ELSE 0
    <3>1. insurance'[k] = IF insurance[k] = NoEntry THEN NoEntry
                          ELSE IF insurance[k] = 1 /\ config.strategy # "TOKEN_BUCKET" THEN NoEntry
                          ELSE IF l > 0 THEN l - 1 ELSE 0
      BY <1>2, <1>5 DEF InsuranceEffect, Effect
    <3>2. CASE insurance[k] = NoEntry
      BY <1>3, <3>1, <3>2
    <3>3. CASE insurance[k] # NoEntry
      <4>1. l = insurance[k]
        BY <1>1, <3>3, LevelType
      <4> QED BY <1>1, <1>3, <3>1, <3>3, <4>1
    <3> QED BY <3>2, <3>3
  <2> HIDE DEF l, m
  <2>3. \A x \in Nat : x + l >= hits[k] => x + m >= hits'[k]
    BY <1>1, <2>1, <2>2
  <2>4. hits'[k] <= hits[k] /\ (l <= hits[k] => m <= hits'[k])
    BY <1>1, <2>1, <2>2
  <2> QED BY <1>2, <1>5, <2>3, <2>4 DEF l, m
<1>6. CASE kind \in {"reset", "delete", "set"}
  <2>0. recounted = FALSE
    BY <1>6
  <2>1. m = hits'[k] /\ hits'[k] = IF kind = "set" THEN 1 ELSE 0
    BY <1>2, <1>3, <1>6, <2>0 DEF InsuranceEffect, Intended, Effect
  <2> HIDE DEF l, m
  <2>2. \A x \in Nat : x + m >= hits'[k]
    BY <2>1
  <2>3. kind # "set" => hits'[k] <= hits[k]
    BY <1>1, <2>1
  <2>4. m <= hits'[k]
    BY <2>1
  <2> QED BY <1>2, <1>6, <2>2, <2>3, <2>4 DEF l, m
<1>7. CASE kind = "get"
  <2>0. recounted = FALSE
    BY <1>7
  <2>1. m = l /\ hits'[k] = hits[k]
    BY <1>2, <1>7, <2>0 DEF InsuranceEffect, Intended, Effect
  <2> QED BY <1>1, <1>2, <1>7, <2>1
<1> QED BY <1>4, <1>5, <1>6, <1>7 DEF AllKinds

-----------------------------------------------------------------------------
(* No hit is lost by a recovery                                            *)

\* What the replay s has still to carry over for key k.
Pending(s, k) == IF k \in sync[s].left THEN sync[s].snap[k] ELSE 0

\* A bucket never holds more than the replay can write.
BucketsFit ==
    config.strategy = "TOKEN_BUCKET" =>
      \A k \in Keys : /\ Level(insurance[k]) <= Limit
                      /\ \A s \in Syncs : sync[s].snap[k] <= Limit

\* Redis alone, with what a replay still has to carry over, covers the hits
\* too: so the resetAll at the end of the replay loses nothing.
Covered ==
    \A k \in Keys : /\ redis[k] + Level(insurance[k]) >= hits[k]
                    /\ \A s \in Syncing : redis[k] + Pending(s, k) >= hits[k]

LostInv == BucketsFit /\ (~Spoilt({"lossy", "overwrite"}) => Covered)

LEMMA DataFacts ==
    ASSUME DataInv, NEW k \in Keys
    PROVE  /\ redis[k] \in Nat /\ hits[k] \in Nat /\ Level(insurance[k]) \in Nat
           /\ \A s \in Syncs : /\ sync[s].snap[k] \in Nat /\ Pending(s, k) \in Nat
                               /\ sync[s].left \in SUBSET Keys /\ sync[s].active \in BOOLEAN
BY LevelType DEF DataInv, SyncType, Pending

LEMMA LostInit == Init => LostInv
<1> SUFFICES ASSUME Init PROVE LostInv
  OBVIOUS
<1>1. /\ \A k \in Keys : Level(insurance[k]) = 0 /\ redis[k] = 0 /\ hits[k] = 0
      /\ \A s \in Syncs : ~sync[s].active /\ \A k \in Keys : sync[s].snap[k] = 0
  BY DEF Init, Level, IdleSync
<1>2. Limit \in Nat
  BY ResilienceAssumption
<1> QED BY <1>1, <1>2 DEF LostInv, BucketsFit, Covered, Syncing

LEMMA RedisWritesLost ==
    ASSUME DataInv, LostInv, NEW kind \in AllKinds, NEW k \in Keys, RedisWrites(kind, k),
           UNCHANGED <<config, sync>>
    PROVE  LostInv'
<1>1. /\ insurance' = insurance
      /\ \A j \in Keys \ {k} : redis'[j] = redis[j] /\ hits'[j] = hits[j]
      /\ \A x \in Nat : redis[k] + x >= hits[k] => redis'[k] + x >= hits'[k]
  BY RedisEffect
<1>2. BucketsFit'
  BY <1>1 DEF LostInv, BucketsFit
<1>3. ASSUME ~Spoilt({"lossy", "overwrite"})' PROVE Covered'
  <2>1. Covered
    BY <1>3 DEF LostInv, Spoilt, RedisWrites
  <2>2. Syncing' = Syncing /\ \A s \in Syncing, j \in Keys : Pending(s, j)' = Pending(s, j)
    BY DEF Syncing, Pending
  <2>3. ASSUME NEW j \in Keys
        PROVE  /\ redis'[j] + Level(insurance[j]) >= hits'[j]
               /\ \A s \in Syncing : redis'[j] + Pending(s, j) >= hits'[j]
    <3>1. CASE j # k
      BY <1>1, <2>1, <3>1 DEF Covered
    <3>2. CASE j = k
      <4>1. redis[k] + Level(insurance[k]) >= hits[k] /\ Level(insurance[k]) \in Nat
        BY <2>1, DataFacts DEF Covered
      <4>2. ASSUME NEW s \in Syncing
            PROVE  redis[k] + Pending(s, k) >= hits[k] /\ Pending(s, k) \in Nat
        BY <2>1, DataFacts DEF Covered, Syncing
      <4>3. redis'[k] + Level(insurance[k]) >= hits'[k]
        BY <1>1, <4>1, Zenon
      <4>4. ASSUME NEW s \in Syncing PROVE redis'[k] + Pending(s, k) >= hits'[k]
        BY <1>1, <4>2, Zenon
      <4> QED BY <3>2, <4>3, <4>4
    <3> QED BY <3>1, <3>2
  <2> QED BY <1>1, <2>2, <2>3 DEF Covered
<1> QED BY <1>2, <1>3 DEF LostInv

LEMMA InsuranceWritesLost ==
    ASSUME Limit > 0, DataInv, LostInv, NEW kind \in AllKinds, NEW k \in Keys,
           NEW recounted \in BOOLEAN, recounted => kind = "increment",
           InsuranceWrites(kind, k, recounted), UNCHANGED <<config, sync>>
    PROVE  LostInv'
<1>1. /\ redis' = redis
      /\ \A j \in Keys \ {k} : insurance'[j] = insurance[j] /\ hits'[j] = hits[j]
      /\ \A x \in Nat : x + Level(insurance[k]) >= hits[k]
            => x + Level(insurance'[k]) >= hits'[k]
      /\ kind \notin {"increment", "set"} => hits'[k] <= hits[k]
  BY InsuranceEffects
<1>2. BucketsFit'
  <2> SUFFICES ASSUME config.strategy = "TOKEN_BUCKET" PROVE Level(insurance'[k]) <= Limit
    BY <1>1 DEF LostInv, BucketsFit
  <2>1. Level(insurance[k]) \in Nat /\ Level(insurance[k]) <= Limit
    BY DataFacts DEF LostInv, BucketsFit
  <2>2. insurance'[k] = InsuranceEffect(kind, k)
    BY DEF InsuranceWrites, DataInv
  <2>3. \/ insurance'[k] = NoEntry \/ insurance'[k] = insurance[k]
        \/ insurance'[k] \in Nat /\ insurance'[k] <= Limit
    <3> DEFINE l == Level(insurance[k])
    <3>1. Limit \in Nat /\ InsuranceLimit \in Nat /\ InsuranceLimit <= Limit
      BY ResilienceAssumption
    <3>2. \/ InsuranceEffect(kind, k) = NoEntry \/ InsuranceEffect(kind, k) = insurance[k]
          \/ kind # "get" /\ InsuranceEffect(kind, k) = Effect(kind, l, InsuranceLimit)
      BY DEF InsuranceEffect
    <3>3. ASSUME kind # "get" PROVE Effect(kind, l, InsuranceLimit) \in 0..Limit
      <4>1. CASE kind = "increment"
        BY <2>1, <3>1, <4>1 DEF Effect, Counted, Blocked
      <4>2. CASE kind # "increment"
        BY <2>1, <3>1, <3>3, <4>2 DEF Effect, AllKinds
      <4> QED BY <4>1, <4>2
    <3> HIDE DEF l
    <3> QED BY <2>2, <3>1, <3>2, <3>3
  <2>4. Limit \in Nat
    BY ResilienceAssumption
  <2> QED BY <2>1, <2>3, <2>4 DEF Level
<1>3. ASSUME ~Spoilt({"lossy", "overwrite"})' PROVE Covered'
  <2>1. Covered
    BY <1>3 DEF LostInv, Spoilt, InsuranceWrites
  <2>2. Syncing' = Syncing /\ \A s \in Syncing, j \in Keys : Pending(s, j)' = Pending(s, j)
    BY DEF Syncing, Pending
  <2>3. Syncing = {} \/ hits'[k] <= hits[k]
    <3>1. Syncing # {} => kind \notin {"increment", "set"}
      BY <1>3 DEF Spoilt, InsuranceWrites, If
    <3> QED BY <1>1, <3>1
  <2>4. ASSUME NEW j \in Keys
        PROVE  /\ redis[j] + Level(insurance'[j]) >= hits'[j]
               /\ \A s \in Syncing : redis[j] + Pending(s, j) >= hits'[j]
    <3>1. CASE j # k
      BY <1>1, <2>1, <3>1 DEF Covered
    <3>2. CASE j = k
      <4>1. redis[k] + Level(insurance'[k]) >= hits'[k]
        <5>1. redis[k] \in Nat /\ redis[k] + Level(insurance[k]) >= hits[k]
          BY <2>1, DataFacts DEF Covered
        <5> QED BY <1>1, <5>1, Zenon
      <4>2. hits'[k] \in Nat
        BY InsuranceWritesType
      <4>3. ASSUME NEW s \in Syncing PROVE redis[k] + Pending(s, k) >= hits'[k]
        <5>1. redis[k] + Pending(s, k) >= hits[k] /\ hits'[k] <= hits[k]
          BY <2>1, <2>3 DEF Covered
        <5>2. redis[k] \in Nat /\ hits[k] \in Nat /\ Pending(s, k) \in Nat
          BY DataFacts DEF Syncing
        <5> QED BY <4>2, <5>1, <5>2
      <4> QED BY <3>2, <4>1, <4>3
    <3> QED BY <3>1, <3>2
  <2> QED BY <1>1, <2>2, <2>4 DEF Covered
<1> QED BY <1>2, <1>3 DEF LostInv

\* A key that is not replayed has no hits in the insurance store.
LEMMA NotActive ==
    ASSUME DataInv, NEW k \in Keys, k \notin ActiveKeys
    PROVE  Level(insurance[k]) = 0
BY DEF ActiveKeys, Level, DataInv, NoEntry

LEMMA ResetLevels ==
    ASSUME ResetAll
    PROVE  \A k \in Keys : Level(insurance'[k]) = 0
BY DEF ResetAll, Level

LEMMA OnCloseLost ==
    ASSUME DataInv, LostInv, OnClose, UNCHANGED <<config, redis, hits>>
    PROVE  LostInv'
<1>0. Limit \in Nat
  BY ResilienceAssumption
<1>1. CASE UNCHANGED <<insurance, resets, sync, causes>>
  <2>1. Covered' <=> Covered
    BY <1>1 DEF Covered, Syncing, Pending
  <2> QED BY <1>1, <2>1 DEF LostInv, BucketsFit, Spoilt
<1>2. CASE ActiveKeys = {} /\ ResetAll /\ UNCHANGED <<sync, causes>>
  <2>1. \A k \in Keys : Level(insurance[k]) = 0 /\ Level(insurance'[k]) = 0
    BY <1>2, NotActive, ResetLevels
  <2>2. BucketsFit'
    BY <1>0, <1>2, <2>1 DEF LostInv, BucketsFit
  <2>3. Covered => Covered'
    BY <1>2, <2>1 DEF Covered, Syncing, Pending
  <2> QED BY <1>2, <2>2, <2>3 DEF LostInv, Spoilt
<1>3. ASSUME NEW s \in Syncs, StartSync(s) PROVE LostInv'
  <2> DEFINE t == [active |-> TRUE, left |-> ActiveKeys, snap |-> [k \in Keys |-> Level(insurance[k])]]
  <2>1. sync' = [sync EXCEPT ![s] = t] /\ insurance' = insurance /\ causes \subseteq causes'
    BY <1>3 DEF StartSync
  <2>2. sync'[s] = t /\ \A x \in Syncs \ {s} : sync'[x] = sync[x]
    BY <2>1 DEF DataInv
  <2>3. \A k \in Keys : sync'[s].snap[k] = Level(insurance[k]) /\ sync'[s].left = ActiveKeys
    BY <2>2
  <2>4. BucketsFit'
    BY <2>1, <2>2, <2>3 DEF LostInv, BucketsFit
  <2>5. ASSUME Covered PROVE Covered'
    <3>1. ASSUME NEW k \in Keys PROVE redis[k] + Pending(s, k)' >= hits[k]
      <4>1. CASE k \in ActiveKeys
        <5>1. Pending(s, k)' = Level(insurance[k])
          BY <2>3, <4>1 DEF Pending
        <5> QED BY <2>5, <5>1 DEF Covered
      <4>2. CASE k \notin ActiveKeys
        <5>1. Pending(s, k)' = 0 /\ Level(insurance[k]) = 0
          BY <2>3, <4>2, NotActive DEF Pending
        <5> QED BY <2>5, <5>1 DEF Covered
      <4> QED BY <4>1, <4>2
    <3>2. ASSUME NEW k \in Keys, NEW x \in Syncing', x # s
          PROVE  redis[k] + Pending(x, k)' >= hits[k]
      <4>1. x \in Syncing /\ Pending(x, k)' = Pending(x, k)
        BY <2>2, <3>2 DEF Syncing, Pending
      <4> QED BY <2>5, <4>1 DEF Covered
    <3> QED BY <2>1, <2>5, <3>1, <3>2 DEF Covered
  <2>6. ~Spoilt({"lossy", "overwrite"})' => ~Spoilt({"lossy", "overwrite"})
    BY <2>1 DEF Spoilt
  <2> QED BY <2>4, <2>5, <2>6 DEF LostInv
<1> QED BY <1>1, <1>2, <1>3 DEF OnClose

LEMMA SyncKeyLost ==
    ASSUME DataInv, LostInv, NEW s \in Syncs, NEW k \in Keys, SyncKey(s, k)
    PROVE  LostInv'
<1> DEFINE n == sync[s].snap[k]
<1>0. /\ sync[s].active /\ k \in sync[s].left /\ UNCHANGED <<insurance, hits, config>>
      /\ sync' = [sync EXCEPT ![s].left = @ \ {k}] /\ causes \subseteq causes'
  BY DEF SyncKey
<1>1. /\ sync'[s].snap = sync[s].snap /\ sync'[s].left = sync[s].left \ {k}
      /\ sync'[s].active = sync[s].active
      /\ \A x \in Syncs \ {s} : sync'[x] = sync[x]
  BY <1>0 DEF DataInv, SyncType
<1>2. BucketsFit'
  <2>1. \A x \in Syncs : sync'[x].snap = sync[x].snap
    BY <1>1
  <2> QED BY <1>0, <2>1 DEF LostInv, BucketsFit
<1>3. ASSUME ~Spoilt({"lossy", "overwrite"})' PROVE Covered'
  <2>1. Covered
    BY <1>0, <1>3 DEF LostInv, Spoilt
  <2>2. redis[k] \in Nat /\ n \in Nat /\ hits[k] \in Nat /\ Limit \in Nat
    BY DataFacts, ResilienceAssumption
  <2>3. /\ redis' = [redis EXCEPT ![k] = Replayed(@, n)]
        /\ ~(config.strategy = "TOKEN_BUCKET" /\ redis[k] > 0)
    BY <1>3 DEF SyncKey, Spoilt, If
  <2>4. redis'[k] = Replayed(redis[k], n) /\ \A j \in Keys \ {k} : redis'[j] = redis[j]
    BY <2>3 DEF DataInv
  <2>5. redis'[k] \in Nat /\ redis'[k] >= redis[k] + n
    <3>1. config.strategy \in {"FIXED_WINDOW", "SLIDING_WINDOW", "TOKEN_BUCKET"}
      BY ResilienceAssumption DEF DataInv
    <3>2. config.strategy = "TOKEN_BUCKET" => n <= Limit
      BY DEF LostInv, BucketsFit
    <3> HIDE DEF n
    <3> QED BY <2>2, <2>3, <2>4, <3>1, <3>2 DEF Replayed
  <2>6. Syncing' = Syncing
    BY <1>1 DEF Syncing
  <2>7. ASSUME NEW j \in Keys, j # k
        PROVE  /\ redis'[j] + Level(insurance[j]) >= hits[j]
               /\ \A x \in Syncing : redis'[j] + Pending(x, j)' >= hits[j]
    <3>1. ASSUME NEW x \in Syncs PROVE Pending(x, j)' = Pending(x, j)
      BY <1>1, <2>7 DEF Pending
    <3> QED BY <2>1, <2>4, <2>7, <3>1 DEF Covered, Syncing
  <2>8. redis'[k] + Level(insurance[k]) >= hits[k]
    <3>1. Level(insurance[k]) \in Nat
      BY DataFacts
    <3> QED BY <2>1, <2>2, <2>5, <3>1 DEF Covered
  <2>9. ASSUME NEW x \in Syncing PROVE redis'[k] + Pending(x, k)' >= hits[k]
    <3>1. CASE x = s
      <4>1. Pending(s, k)' = 0 /\ Pending(s, k) = n
        BY <1>0, <1>1 DEF Pending
      <4>2. redis[k] + n >= hits[k]
        BY <2>1, <2>9, <3>1, <4>1 DEF Covered
      <4> HIDE DEF n
      <4> QED BY <2>2, <2>5, <3>1, <4>1, <4>2
    <3>2. CASE x # s
      <4>1. Pending(x, k)' = Pending(x, k) /\ Pending(x, k) \in Nat
        BY <1>1, <3>2, DataFacts DEF Pending, Syncing
      <4>2. redis[k] + Pending(x, k) >= hits[k]
        BY <2>1 DEF Covered
      <4> HIDE DEF n
      <4> QED BY <2>2, <2>5, <4>1, <4>2
    <3> QED BY <3>1, <3>2
  <2> QED BY <1>0, <2>6, <2>7, <2>8, <2>9 DEF Covered
<1> QED BY <1>2, <1>3 DEF LostInv

LEMMA SyncEndsLost ==
    ASSUME DataInv, LostInv, NEW s \in Syncs, SyncEnds(s)
    PROVE  LostInv'
<1>0. /\ sync[s].active /\ sync[s].left = {} /\ UNCHANGED <<redis, hits, config, causes>>
      /\ sync' = [sync EXCEPT ![s] = IdleSync] /\ Limit \in Nat
  BY ResilienceAssumption DEF SyncEnds
<1>1. /\ ~sync'[s].active /\ \A k \in Keys : sync'[s].snap[k] = 0
      /\ \A x \in Syncs \ {s} : sync'[x] = sync[x]
  BY <1>0 DEF DataInv, IdleSync
<1>2. \A k \in Keys : Level(insurance'[k]) = 0
  BY ResetLevels DEF SyncEnds
<1>3. BucketsFit'
  BY <1>0, <1>1, <1>2 DEF LostInv, BucketsFit
<1>4. ASSUME Covered PROVE Covered'
  <2>1. ASSUME NEW k \in Keys PROVE redis[k] + Level(insurance'[k]) >= hits[k]
    <3>1. Pending(s, k) = 0 /\ s \in Syncing
      BY <1>0 DEF Pending, Syncing
    <3> QED BY <1>2, <1>4, <3>1 DEF Covered
  <2>2. ASSUME NEW k \in Keys, NEW x \in Syncing' PROVE redis[k] + Pending(x, k)' >= hits[k]
    <3>1. x \in Syncing /\ Pending(x, k)' = Pending(x, k)
      BY <1>1 DEF Syncing, Pending
    <3> QED BY <1>4, <3>1 DEF Covered
  <2> QED BY <1>0, <2>1, <2>2 DEF Covered
<1> QED BY <1>0, <1>3, <1>4 DEF LostInv, Spoilt

LEMMA LostStep ==
    ASSUME Limit > 0, DataInv, LostInv, [Next]_vars
    PROVE  LostInv'
<1>0. Kinds \subseteq AllKinds /\ "increment" \in AllKinds
  BY ResilienceAssumption DEF AllKinds
<1>1. ASSUME UNCHANGED <<config, redis, insurance, sync, hits>>, causes \subseteq causes'
      PROVE  LostInv'
  <2>1. Covered' <=> Covered
    BY <1>1 DEF Covered, Syncing, Pending
  <2> QED BY <1>1, <2>1 DEF LostInv, BucketsFit, Spoilt
<1>2. ASSUME NEW c \in Callers, NEW kind \in Kinds, NEW k \in Keys, Attempt(c, kind, k)
      PROVE  LostInv'
  BY <1>1, <1>2 DEF Attempt, counters
<1>3. ASSUME NEW c \in Callers, NEW kind \in Kinds, NEW k \in Keys, Insured(c, kind, k)
      PROVE  LostInv'
  BY <1>0, <1>3, InsuranceWritesLost DEF Insured
<1>4. ASSUME NEW c \in Callers, RedisIncrement(c) PROVE LostInv'
  <2>1. op[c].key \in Keys
    BY <1>4 DEF RedisIncrement, DataInv
  <2> QED BY <1>0, <1>4, <2>1, RedisWritesLost DEF RedisIncrement
<1>5. ASSUME NEW c \in Callers, IncrementSucceeds(c) PROVE LostInv'
  BY <1>1, <1>5, OnCloseLost DEF IncrementSucceeds
<1>6. ASSUME NEW c \in Callers, IncrementFails(c) PROVE LostInv'
  <2>1. op[c].key \in Keys /\ (op[c].pc = "executed") \in BOOLEAN
    BY <1>6 DEF IncrementFails, DataInv
  <2> QED BY <1>0, <1>6, <2>1, InsuranceWritesLost DEF IncrementFails
<1>7. ASSUME NEW c \in Callers, OtherEnds(c) PROVE LostInv'
  <2>1. op[c].kind \in AllKinds /\ op[c].key \in Keys
    BY <1>0, <1>7 DEF OtherEnds, DataInv, OpType
  <2>2. CASE RedisWrites(op[c].kind, op[c].key)
    BY <1>7, <2>1, <2>2, RedisWritesLost DEF OtherEnds
  <2>3. CASE UNCHANGED counters
    BY <1>1, <1>7, <2>3 DEF OtherEnds, counters
  <2> QED BY <1>7, <2>2, <2>3 DEF OtherEnds
<1>8. ASSUME NEW s \in Syncs, SyncEnds(s) PROVE LostInv'
  BY <1>8, SyncEndsLost
<1>9. ASSUME NEW s \in Syncs, NEW k \in Keys, SyncKey(s, k) PROVE LostInv'
  BY <1>9, SyncKeyLost
<1>10. CASE Shutdown \/ Tick \/ UNCHANGED vars
  BY <1>1, <1>10 DEF Shutdown, Tick, vars, counters
<1> QED
  BY <1>2, <1>3, <1>4, <1>5, <1>6, <1>7, <1>8, <1>9, <1>10 DEF Next, Answer

\* A recovery forgets no hit: for every operation, strategy and interleaving of
\* callers and replays, what Redis and the insurance store hold together covers the
\* hits made, unless a replay failed, a hit was taken by the insurance store while it
\* was being replayed, or a bucket in use was overwritten.  (A cap is positive:
\* sanitizeRateLimitCap.)
THEOREM NoHitLostByRecovery ==
    ASSUME Limit > 0
    PROVE  Spec => []NoHitLost
<1>1. Init => DataInv /\ LostInv
  BY DataInit, LostInit
<1>2. DataInv /\ LostInv /\ [Next]_vars => (DataInv /\ LostInv)'
  BY DataStep, LostStep
<1>3. LostInv => NoHitLost
  BY DEF LostInv, Covered, NoHitLost
<1> QED BY <1>1, <1>2, <1>3, PTL DEF Spec

-----------------------------------------------------------------------------
(* No hit is counted twice                                                 *)

\* One replay runs at a time, and the insurance store still holds all that it
\* copies.
SoleReplay ==
    /\ \A s, t \in Syncing : s = t
    /\ \A s \in Syncing, k \in Keys : Level(insurance[k]) >= sync[s].snap[k]

\* Redis and the insurance store share nothing for a key but what the replay
\* has copied.
Disjoint ==
    \A k \in Keys :
       /\ (\A s \in Syncing : k \in sync[s].left) => redis[k] + Level(insurance[k]) <= hits[k]
       /\ \A s \in Syncing : k \notin sync[s].left
             => redis[k] + Level(insurance[k]) <= hits[k] + sync[s].snap[k]

DoubledInv == ~Spoilt({"doubling"}) => SoleReplay /\ Disjoint

LEMMA DoubledInit == Init => DoubledInv
<1> SUFFICES ASSUME Init PROVE DoubledInv
  OBVIOUS
<1>1. /\ \A k \in Keys : Level(insurance[k]) = 0 /\ redis[k] = 0 /\ hits[k] = 0
      /\ Syncing = {}
  BY DEF Init, Level, IdleSync, Syncing
<1> QED BY <1>1 DEF DoubledInv, SoleReplay, Disjoint

LEMMA RedisWritesDoubled ==
    ASSUME DataInv, DoubledInv, NEW kind \in AllKinds, NEW k \in Keys, RedisWrites(kind, k),
           UNCHANGED <<config, sync>>
    PROVE  DoubledInv'
<1> SUFFICES ASSUME ~Spoilt({"doubling"})' PROVE SoleReplay' /\ Disjoint'
  BY DEF DoubledInv
<1>1. SoleReplay /\ Disjoint
  BY DEF DoubledInv, Spoilt, RedisWrites
<1>2. /\ insurance' = insurance
      /\ \A j \in Keys \ {k} : redis'[j] = redis[j] /\ hits'[j] = hits[j]
      /\ \A x, y \in Nat : redis[k] + x <= hits[k] + y /\ kind \in {"increment", "get"}
            => redis'[k] + x <= hits'[k] + y
      /\ redis[k] <= hits[k] => redis'[k] <= hits'[k]
  BY RedisEffect
<1>3. Syncing' = Syncing
  BY DEF Syncing
<1>4. SoleReplay'
  BY <1>1, <1>2, <1>3 DEF SoleReplay
<1>5. /\ redis[k] \in Nat /\ hits[k] \in Nat /\ Level(insurance[k]) \in Nat
      /\ redis'[k] \in Nat /\ hits'[k] \in Nat
  BY DataFacts, RedisWritesType
<1>6. /\ (\A s \in Syncing : k \in sync[s].left) => redis'[k] + Level(insurance[k]) <= hits'[k]
      /\ \A s \in Syncing : k \notin sync[s].left
            => redis'[k] + Level(insurance[k]) <= hits'[k] + sync[s].snap[k]
  <2>1. CASE kind \in {"increment", "get"}
    <3>1. ASSUME \A s \in Syncing : k \in sync[s].left
          PROVE  redis'[k] + Level(insurance[k]) <= hits'[k]
      <4>1. redis[k] + Level(insurance[k]) <= hits[k] + 0
        BY <1>1, <1>5, <3>1 DEF Disjoint
      <4>2. 0 \in Nat
        OBVIOUS
      <4>3. redis'[k] + Level(insurance[k]) <= hits'[k] + 0
        BY <1>2, <1>5, <2>1, <4>1, <4>2, Zenon
      <4> QED BY <1>5, <4>3
    <3>2. ASSUME NEW s \in Syncing, k \notin sync[s].left
          PROVE  redis'[k] + Level(insurance[k]) <= hits'[k] + sync[s].snap[k]
      <4>1. sync[s].snap[k] \in Nat
        BY DataFacts DEF Syncing
      <4>2. redis[k] + Level(insurance[k]) <= hits[k] + sync[s].snap[k]
        BY <1>1, <3>2 DEF Disjoint
      <4> QED BY <1>2, <1>5, <2>1, <4>1, <4>2, Zenon
    <3> QED BY <3>1, <3>2
  <2>2. CASE kind \notin {"increment", "get"}
    <3>1. ~(Level(insurance[k]) > 0) /\ Syncing = {}
      BY <2>2 DEF Spoilt, RedisWrites, If, Adjusts
    <3>2. Level(insurance[k]) = 0
      BY <1>5, <3>1
    <3>3. redis[k] <= hits[k]
      BY <1>1, <1>5, <3>1, <3>2 DEF Disjoint
    <3> QED BY <1>2, <1>5, <3>1, <3>2, <3>3
  <2> QED BY <2>1, <2>2
<1>7. \A j \in Keys \ {k} :
      /\ (\A s \in Syncing : j \in sync[s].left) => redis'[j] + Level(insurance[j]) <= hits'[j]
      /\ \A s \in Syncing : j \notin sync[s].left
            => redis'[j] + Level(insurance[j]) <= hits'[j] + sync[s].snap[j]
  BY <1>1, <1>2 DEF Disjoint
<1> QED BY <1>2, <1>3, <1>4, <1>6, <1>7 DEF Disjoint

LEMMA InsuranceWritesDoubled ==
    ASSUME DataInv, DoubledInv, NEW kind \in AllKinds, NEW k \in Keys,
           NEW recounted \in BOOLEAN, recounted => kind = "increment",
           InsuranceWrites(kind, k, recounted), UNCHANGED <<config, sync>>
    PROVE  DoubledInv'
<1> SUFFICES ASSUME ~Spoilt({"doubling"})' PROVE SoleReplay' /\ Disjoint'
  BY DEF DoubledInv
<1>1. SoleReplay /\ Disjoint
  BY DEF DoubledInv, Spoilt, InsuranceWrites
<1>2. ~recounted /\ (kind \in {"increment", "get"} \/ (~(redis[k] > 0) /\ Syncing = {}))
  BY DEF Spoilt, InsuranceWrites, If, Adjusts
<1>3. /\ redis' = redis
      /\ \A j \in Keys \ {k} : insurance'[j] = insurance[j] /\ hits'[j] = hits[j]
      /\ kind \in {"increment", "get"} =>
            \/ Level(insurance'[k]) = Level(insurance[k]) /\ hits'[k] = hits[k]
            \/ Level(insurance'[k]) = Level(insurance[k]) + 1 /\ hits'[k] = hits[k] + 1
      /\ Level(insurance[k]) <= hits[k] => Level(insurance'[k]) <= hits'[k]
  BY <1>2, InsuranceEffects
<1>4. Syncing' = Syncing
  BY DEF Syncing
<1>5. /\ redis[k] \in Nat /\ hits[k] \in Nat /\ Level(insurance[k]) \in Nat
      /\ Level(insurance'[k]) \in Nat /\ hits'[k] \in Nat
  BY DataFacts, InsuranceWritesType, LevelType
<1>6. /\ \A s \in Syncing : Level(insurance'[k]) >= sync[s].snap[k]
      /\ (\A s \in Syncing : k \in sync[s].left) => redis[k] + Level(insurance'[k]) <= hits'[k]
      /\ \A s \in Syncing : k \notin sync[s].left
            => redis[k] + Level(insurance'[k]) <= hits'[k] + sync[s].snap[k]
  <2>1. CASE kind \in {"increment", "get"}
    <3>1. ASSUME \A s \in Syncing : k \in sync[s].left
          PROVE  redis[k] + Level(insurance'[k]) <= hits'[k]
      <4>1. redis[k] + Level(insurance[k]) <= hits[k]
        BY <1>1, <3>1 DEF Disjoint
      <4> QED BY <1>3, <1>5, <2>1, <4>1
    <3>2. ASSUME NEW s \in Syncing
          PROVE  /\ Level(insurance'[k]) >= sync[s].snap[k]
                 /\ k \notin sync[s].left
                       => redis[k] + Level(insurance'[k]) <= hits'[k] + sync[s].snap[k]
      <4>1. sync[s].snap[k] \in Nat
        BY DataFacts DEF Syncing
      <4>2. /\ k \notin sync[s].left => redis[k] + Level(insurance[k]) <= hits[k] + sync[s].snap[k]
            /\ Level(insurance[k]) >= sync[s].snap[k]
        BY <1>1 DEF Disjoint, SoleReplay
      <4> QED BY <1>3, <1>5, <2>1, <4>1, <4>2
    <3> QED BY <3>1, <3>2
  <2>2. CASE kind \notin {"increment", "get"}
    <3>1. redis[k] = 0 /\ Syncing = {}
      BY <1>2, <1>5, <2>2
    <3>2. Level(insurance[k]) <= hits[k]
      BY <1>1, <1>5, <3>1 DEF Disjoint
    <3> QED BY <1>3, <1>5, <3>1, <3>2
  <2> QED BY <2>1, <2>2
<1>7. \A j \in Keys \ {k} :
      /\ \A s \in Syncing : Level(insurance'[j]) >= sync[s].snap[j]
      /\ (\A s \in Syncing : j \in sync[s].left) => redis[j] + Level(insurance'[j]) <= hits'[j]
      /\ \A s \in Syncing : j \notin sync[s].left
            => redis[j] + Level(insurance'[j]) <= hits'[j] + sync[s].snap[j]
  BY <1>1, <1>3 DEF Disjoint, SoleReplay
<1>8. SoleReplay'
  <2>1. \A s \in Syncing, j \in Keys : Level(insurance'[j]) >= sync[s].snap[j]
    BY <1>6, <1>7
  <2> QED BY <1>1, <1>4, <2>1 DEF SoleReplay
<1> QED BY <1>3, <1>4, <1>6, <1>7, <1>8 DEF Disjoint

LEMMA OnCloseDoubled ==
    ASSUME DataInv, DoubledInv, OnClose, UNCHANGED <<config, redis, hits>>
    PROVE  DoubledInv'
<1>1. CASE UNCHANGED <<insurance, resets, sync, causes>>
  <2>1. (SoleReplay /\ Disjoint)' <=> SoleReplay /\ Disjoint
    BY <1>1 DEF SoleReplay, Disjoint, Syncing
  <2> QED BY <1>1, <2>1 DEF DoubledInv, Spoilt
<1>2. CASE ActiveKeys = {} /\ ResetAll /\ UNCHANGED <<sync, causes>>
  <2>1. \A k \in Keys : Level(insurance[k]) = 0 /\ Level(insurance'[k]) = 0
    BY <1>2, NotActive, ResetLevels
  <2>2. SoleReplay /\ Disjoint => (SoleReplay /\ Disjoint)'
    BY <1>2, <2>1 DEF SoleReplay, Disjoint, Syncing
  <2> QED BY <1>2, <2>2 DEF DoubledInv, Spoilt
<1>3. ASSUME NEW s \in Syncs, StartSync(s) PROVE DoubledInv'
  <2> SUFFICES ASSUME ~Spoilt({"doubling"})' PROVE SoleReplay' /\ Disjoint'
    BY DEF DoubledInv
  <2> DEFINE t == [active |-> TRUE, left |-> ActiveKeys, snap |-> [k \in Keys |-> Level(insurance[k])]]
  <2>1. sync' = [sync EXCEPT ![s] = t] /\ insurance' = insurance
    BY <1>3 DEF StartSync
  <2>2. sync'[s] = t /\ \A x \in Syncs \ {s} : sync'[x] = sync[x]
    BY <2>1 DEF DataInv
  <2>3. /\ sync'[s].left = ActiveKeys /\ sync'[s].active
        /\ \A k \in Keys : sync'[s].snap[k] = Level(insurance[k])
    BY <2>2
  <2>4. Syncing = {} /\ SoleReplay /\ Disjoint
    BY <1>3 DEF StartSync, DoubledInv, Spoilt, If
  <2>5. Syncing' = {s}
    BY <2>2, <2>3, <2>4 DEF Syncing
  <2>6. ASSUME NEW k \in Keys
        PROVE  /\ Level(insurance[k]) >= sync'[s].snap[k]
               /\ redis[k] + Level(insurance[k]) <= hits[k]
               /\ k \notin sync'[s].left
                     => redis[k] + Level(insurance[k]) <= hits[k] + sync'[s].snap[k]
    <3>1. redis[k] + Level(insurance[k]) <= hits[k]
      BY <2>4 DEF Disjoint
    <3>2. redis[k] \in Nat /\ hits[k] \in Nat /\ Level(insurance[k]) \in Nat
      BY DataFacts
    <3> QED BY <2>3, <3>1, <3>2
  <2> QED BY <2>1, <2>5, <2>6 DEF SoleReplay, Disjoint
<1> QED BY <1>1, <1>2, <1>3 DEF OnClose

LEMMA SyncKeyDoubled ==
    ASSUME DataInv, DoubledInv, NEW s \in Syncs, NEW k \in Keys, SyncKey(s, k)
    PROVE  DoubledInv'
<1> SUFFICES ASSUME ~Spoilt({"doubling"})' PROVE SoleReplay' /\ Disjoint'
  BY DEF DoubledInv
<1> DEFINE n == sync[s].snap[k]
<1>0. /\ sync[s].active /\ k \in sync[s].left /\ UNCHANGED <<insurance, hits, config>>
      /\ sync' = [sync EXCEPT ![s].left = @ \ {k}] /\ causes \subseteq causes'
  BY DEF SyncKey
<1>1. /\ sync'[s].snap = sync[s].snap /\ sync'[s].left = sync[s].left \ {k}
      /\ sync'[s].active = sync[s].active
      /\ \A x \in Syncs \ {s} : sync'[x] = sync[x]
  BY <1>0 DEF DataInv, SyncType
<1>2. SoleReplay /\ Disjoint
  BY <1>0 DEF DoubledInv, Spoilt
<1>3. Syncing = {s} /\ Syncing' = {s}
  BY <1>0, <1>1, <1>2 DEF SoleReplay, Syncing
<1>4. SoleReplay'
  BY <1>0, <1>1, <1>2, <1>3 DEF SoleReplay
<1>5. redis[k] \in Nat /\ n \in Nat /\ hits[k] \in Nat /\ Limit \in Nat /\ Level(insurance[k]) \in Nat
  BY DataFacts, ResilienceAssumption
<1>6. redis'[k] \in Nat /\ redis'[k] <= redis[k] + n /\ \A j \in Keys \ {k} : redis'[j] = redis[j]
  <2>1. CASE UNCHANGED redis
    BY <1>5, <2>1
  <2>2. CASE /\ redis' = [redis EXCEPT ![k] = Replayed(@, n)]
             /\ ~(config.strategy = "FIXED_WINDOW" /\ n = 0)
    <3>1. redis'[k] = Replayed(redis[k], n) /\ \A j \in Keys \ {k} : redis'[j] = redis[j]
      BY <2>2 DEF DataInv
    <3>2. config.strategy \in {"FIXED_WINDOW", "SLIDING_WINDOW", "TOKEN_BUCKET"}
      BY ResilienceAssumption DEF DataInv
    <3> HIDE DEF n
    <3> QED BY <1>5, <2>2, <3>1, <3>2 DEF Replayed
  <2>3. \/ UNCHANGED redis
        \/ /\ redis' = [redis EXCEPT ![k] = Replayed(@, n)]
           /\ ~(config.strategy = "FIXED_WINDOW" /\ n = 0)
    BY DEF SyncKey, Spoilt, If
  <2> QED BY <2>1, <2>2, <2>3
<1>7. redis'[k] + Level(insurance[k]) <= hits[k] + n
  <2>1. redis[k] + Level(insurance[k]) <= hits[k]
    BY <1>0, <1>2, <1>3 DEF Disjoint
  <2> HIDE DEF n
  <2> QED BY <1>5, <1>6, <2>1
<1>8. ASSUME NEW j \in Keys
      PROVE  /\ j \in sync'[s].left => redis'[j] + Level(insurance[j]) <= hits[j]
             /\ j \notin sync'[s].left
                   => redis'[j] + Level(insurance[j]) <= hits[j] + sync'[s].snap[j]
  <2>1. CASE j = k
    BY <1>1, <1>7, <2>1
  <2>2. CASE j # k
    BY <1>1, <1>2, <1>3, <1>6, <2>2 DEF Disjoint
  <2> QED BY <2>1, <2>2
<1>9. Disjoint'
  BY <1>0, <1>3, <1>8 DEF Disjoint
<1> QED BY <1>4, <1>9

LEMMA SyncEndsDoubled ==
    ASSUME DataInv, DoubledInv, NEW s \in Syncs, SyncEnds(s)
    PROVE  DoubledInv'
<1>0. /\ sync[s].active /\ sync[s].left = {} /\ UNCHANGED <<redis, hits, causes>>
      /\ sync' = [sync EXCEPT ![s] = IdleSync]
  BY DEF SyncEnds
<1> SUFFICES ASSUME SoleReplay, Disjoint PROVE SoleReplay' /\ Disjoint'
  BY <1>0 DEF DoubledInv, Spoilt
<1>1. ~sync'[s].active /\ \A x \in Syncs \ {s} : sync'[x] = sync[x]
  BY <1>0 DEF DataInv, IdleSync
<1>2. s \in Syncing /\ Syncing' = {}
  BY <1>0, <1>1 DEF SoleReplay, Syncing
<1>3. \A k \in Keys : Level(insurance'[k]) = 0
  BY ResetLevels DEF SyncEnds
<1>4. ASSUME NEW k \in Keys PROVE redis[k] + 0 <= hits[k]
  <2>1. /\ redis[k] + Level(insurance[k]) <= hits[k] + sync[s].snap[k]
        /\ Level(insurance[k]) >= sync[s].snap[k]
    BY <1>0, <1>2 DEF SoleReplay, Disjoint
  <2>2. /\ redis[k] \in Nat /\ hits[k] \in Nat /\ Level(insurance[k]) \in Nat
        /\ sync[s].snap[k] \in Nat
    BY DataFacts
  <2> QED BY <2>1, <2>2
<1> QED BY <1>0, <1>2, <1>3, <1>4 DEF SoleReplay, Disjoint

LEMMA DoubledStep ==
    ASSUME DataInv, DoubledInv, [Next]_vars
    PROVE  DoubledInv'
<1>0. Kinds \subseteq AllKinds /\ "increment" \in AllKinds
  BY ResilienceAssumption DEF AllKinds
<1>1. ASSUME UNCHANGED <<config, redis, insurance, sync, hits>>, causes \subseteq causes'
      PROVE  DoubledInv'
  <2>1. (SoleReplay /\ Disjoint)' <=> SoleReplay /\ Disjoint
    BY <1>1 DEF SoleReplay, Disjoint, Syncing
  <2> QED BY <1>1, <2>1 DEF DoubledInv, Spoilt
<1>2. ASSUME NEW c \in Callers, NEW kind \in Kinds, NEW k \in Keys, Attempt(c, kind, k)
      PROVE  DoubledInv'
  BY <1>1, <1>2 DEF Attempt, counters
<1>3. ASSUME NEW c \in Callers, NEW kind \in Kinds, NEW k \in Keys, Insured(c, kind, k)
      PROVE  DoubledInv'
  BY <1>0, <1>3, InsuranceWritesDoubled DEF Insured
<1>4. ASSUME NEW c \in Callers, RedisIncrement(c) PROVE DoubledInv'
  <2>1. op[c].key \in Keys
    BY <1>4 DEF RedisIncrement, DataInv
  <2> QED BY <1>0, <1>4, <2>1, RedisWritesDoubled DEF RedisIncrement
<1>5. ASSUME NEW c \in Callers, IncrementSucceeds(c) PROVE DoubledInv'
  BY <1>1, <1>5, OnCloseDoubled DEF IncrementSucceeds
<1>6. ASSUME NEW c \in Callers, IncrementFails(c) PROVE DoubledInv'
  <2>1. op[c].key \in Keys /\ (op[c].pc = "executed") \in BOOLEAN
    BY <1>6 DEF IncrementFails, DataInv
  <2> QED BY <1>0, <1>6, <2>1, InsuranceWritesDoubled DEF IncrementFails
<1>7. ASSUME NEW c \in Callers, OtherEnds(c) PROVE DoubledInv'
  <2>1. op[c].kind \in AllKinds /\ op[c].key \in Keys
    BY <1>0, <1>7 DEF OtherEnds, DataInv, OpType
  <2>2. CASE RedisWrites(op[c].kind, op[c].key)
    BY <1>7, <2>1, <2>2, RedisWritesDoubled DEF OtherEnds
  <2>3. CASE UNCHANGED counters
    BY <1>1, <1>7, <2>3 DEF OtherEnds, counters
  <2> QED BY <1>7, <2>2, <2>3 DEF OtherEnds
<1>8. ASSUME NEW s \in Syncs, SyncEnds(s) PROVE DoubledInv'
  BY <1>8, SyncEndsDoubled
<1>9. ASSUME NEW s \in Syncs, NEW k \in Keys, SyncKey(s, k) PROVE DoubledInv'
  BY <1>9, SyncKeyDoubled
<1>10. CASE Shutdown \/ Tick \/ UNCHANGED vars
  BY <1>1, <1>10 DEF Shutdown, Tick, vars, counters
<1> QED
  BY <1>2, <1>3, <1>4, <1>5, <1>6, <1>7, <1>8, <1>9, <1>10 DEF Next, Answer

LEMMA MaxOfTwo ==
    ASSUME NEW n \in Nat, NEW T, T \subseteq {0, n}, 0 \in T
    PROVE  Max(T) \in Nat /\ \A x \in T : x <= Max(T)
<1>1. \E x \in T : \A y \in T : x >= y
  <2>1. CASE n \in T
    BY <2>1
  <2>2. CASE n \notin T
    BY <2>2
  <2> QED BY <2>1, <2>2
<1>2. Max(T) \in T /\ \A y \in T : Max(T) >= y
  BY <1>1 DEF Max
<1>3. \A x \in T : x \in Nat
  OBVIOUS
<1>4. PICK m \in T : m = Max(T)
  BY <1>2
<1>5. m \in Nat /\ \A x \in T : x <= m
  BY <1>2, <1>3, <1>4
<1> QED BY <1>4, <1>5

LEMMA DoubledBound ==
    ASSUME DataInv, DoubledInv
    PROVE  NoHitDoubled
<1> SUFFICES ASSUME ~Spoilt({"doubling"}), NEW k \in Keys
             PROVE  redis[k] + Level(insurance[k])
                      <= hits[k] + Max({0} \cup {sync[s].snap[k] :
                                   s \in {x \in Syncing : k \notin sync[x].left}})
  BY DEF NoHitDoubled
<1> DEFINE D == {x \in Syncing : k \notin sync[x].left}
           T == {0} \cup {sync[s].snap[k] : s \in D}
<1>1. SoleReplay /\ Disjoint
  BY DEF DoubledInv
<1>2. redis[k] \in Nat /\ hits[k] \in Nat /\ Level(insurance[k]) \in Nat
  BY DataFacts
<1>3. CASE D = {}
  <2>1. \A s \in Syncing : k \in sync[s].left
    BY <1>3
  <2>2. T \subseteq {0, 0} /\ 0 \in T
    BY <1>3
  <2>3. redis[k] + Level(insurance[k]) <= hits[k]
    BY <1>1, <2>1 DEF Disjoint
  <2> HIDE DEF T, D
  <2>4. Max(T) \in Nat
    BY <2>2, MaxOfTwo
  <2>5. redis[k] + Level(insurance[k]) <= hits[k] + Max(T)
    BY <1>2, <2>3, <2>4
  <2> QED BY <2>5 DEF T, D
<1>4. ASSUME NEW s \in D
      PROVE  redis[k] + Level(insurance[k]) <= hits[k] + Max(T)
  <2>1. sync[s].snap[k] \in Nat /\ s \in Syncing
    BY DataFacts DEF Syncing
  <2>2. \A x \in D : x = s
    BY <1>1, <2>1 DEF SoleReplay
  <2>3. T \subseteq {0, sync[s].snap[k]} /\ 0 \in T /\ sync[s].snap[k] \in T
    BY <2>2
  <2>4. redis[k] + Level(insurance[k]) <= hits[k] + sync[s].snap[k]
    BY <1>1 DEF Disjoint
  <2> HIDE DEF T, D
  <2>5. Max(T) \in Nat /\ sync[s].snap[k] <= Max(T)
    BY <2>1, <2>3, MaxOfTwo
  <2> QED BY <1>2, <2>1, <2>4, <2>5
<1> QED BY <1>3, <1>4

\* A recovery counts no hit twice: for every operation, strategy and interleaving,
\* Redis and the insurance store together hold no more than the hits made, beyond
\* what the running replay has copied and resetAll will drop, unless an executed
\* script lost its answer, two replays overlapped, a write other than an increment
\* reached one of two stores that both held hits, or a fixed window replayed 0.
THEOREM NoHitDoubledByRecovery == Spec => []NoHitDoubled
<1>1. Init => DataInv /\ DoubledInv
  BY DataInit, DoubledInit
<1>2. DataInv /\ DoubledInv /\ [Next]_vars => (DataInv /\ DoubledInv)'
  BY DataStep, DoubledStep
<1>3. DataInv /\ DoubledInv => NoHitDoubled
  BY DoubledBound
<1> QED BY <1>1, <1>2, <1>3, PTL DEF Spec

-----------------------------------------------------------------------------
(* What an outage costs                                                    *)

\* Callers whose increment Redis has allowed and who have not been told yet.
Owed(k) == {c \in Callers : op[c].pc = "executed" /\ ~op[c].blocked /\ op[c].key = k}

Least(a, b) == IF a <= b THEN a ELSE b
Spent == InsuranceLimit * resets

\* Every answer "allowed", given or owed, is backed by a hit: of the first Limit in
\* Redis, of the first InsuranceLimit in the insurance store, or of one of its
\* earlier lives.
Backed(k) ==
    admitted[k] + Cardinality(Owed(k))
      <= Least(redis[k], Limit) + Spent + Least(Level(insurance[k]), InsuranceLimit)

OnlyAnswered == \A c \in Callers : op[c].kind # "none" => op[c].kind = "increment"

OutageInv ==
    /\ config.strategy # "TOKEN_BUCKET"
    /\ OnlyAnswered
    /\ \A k \in Keys : IsFiniteSet(Owed(k)) /\ Backed(k)

LEMMA Distribute ==
    ASSUME NEW a \in Nat, NEW b \in Nat
    PROVE  a * b \in Nat /\ a * (b + 1) = a * b + a
OBVIOUS

LEMMA SpentType == ASSUME DataInv PROVE Spent \in Nat
BY ResilienceAssumption, Distribute DEF DataInv, Spent

LEMMA ResetSpends ==
    ASSUME DataInv, ResetAll
    PROVE  Spent' = Spent + InsuranceLimit
<1>1. resets \in Nat /\ InsuranceLimit \in Nat /\ resets' = resets + 1
  BY ResilienceAssumption DEF DataInv, ResetAll
<1>2. InsuranceLimit * (resets + 1) = InsuranceLimit * resets + InsuranceLimit
  BY <1>1, Distribute
<1> QED BY <1>1, <1>2 DEF Spent

\* What a step of one caller may do to the accounts of a key.
LEMMA BackedStep ==
    ASSUME NEW a \in Nat, NEW n \in Nat, NEW r \in Nat, NEW p \in Nat, NEW i \in Nat,
           NEW a2 \in Nat, NEW n2 \in Nat, NEW r2 \in Nat, NEW p2 \in Nat, NEW i2 \in Nat,
           a + n <= Least(r, Limit) + p + Least(i, InsuranceLimit),
           \/ /\ a2 + n2 <= a + n /\ r2 >= r /\ p2 = p /\ i2 >= i
           \/ /\ a2 + n2 <= a + n /\ r2 >= r /\ p2 = p + InsuranceLimit /\ i2 = 0
           \/ /\ a2 + n2 <= a + n + 1 /\ r + 1 <= Limit /\ r2 = r + 1 /\ p2 = p /\ i2 = i
           \/ /\ a2 + n2 <= a + n + 1 /\ i + 1 <= InsuranceLimit /\ r2 = r /\ p2 = p /\ i2 = i + 1
    PROVE  a2 + n2 <= Least(r2, Limit) + p2 + Least(i2, InsuranceLimit)
<1>1. Limit \in Nat /\ InsuranceLimit \in Nat
  BY ResilienceAssumption
<1> QED BY <1>1 DEF Least

LEMMA OwedDrop ==
    ASSUME DataInv, NEW c \in Callers, NEW k \in Keys, IsFiniteSet(Owed(k)),
           op' = [op EXCEPT ![c] = IdleOp]
    PROVE  /\ Owed(k)' = Owed(k) \ {c} /\ IsFiniteSet(Owed(k)')
           /\ Cardinality(Owed(k)') \in Nat /\ Cardinality(Owed(k)) \in Nat
           /\ Cardinality(Owed(k)') = IF c \in Owed(k) THEN Cardinality(Owed(k)) - 1
                                      ELSE Cardinality(Owed(k))
<1>1. Owed(k)' = Owed(k) \ {c}
  BY DEF Owed, IdleOp, DataInv
<1>2. IsFiniteSet(Owed(k)')
  BY <1>1, FS_RemoveElement
<1> QED BY <1>1, <1>2, FS_RemoveElement, FS_CardinalityType

LEMMA OwedSame ==
    ASSUME UNCHANGED op, NEW k \in Keys
    PROVE  Owed(k)' = Owed(k)
BY DEF Owed

LEMMA OutageInit ==
    ASSUME "TOKEN_BUCKET" \notin Strategies
    PROVE  Init => OutageInv
<1> SUFFICES ASSUME Init PROVE OutageInv
  OBVIOUS
<1>1. config.strategy # "TOKEN_BUCKET" /\ OnlyAnswered
  BY DEF Init, OnlyAnswered, IdleOp
<1>2. ASSUME NEW k \in Keys PROVE IsFiniteSet(Owed(k)) /\ Backed(k)
  <2>1. Owed(k) = {}
    BY DEF Owed, Init, IdleOp
  <2>2. IsFiniteSet(Owed(k)) /\ Cardinality(Owed(k)) = 0
    BY <2>1, FS_EmptySet
  <2>3. Spent \in Nat /\ Limit \in Nat /\ InsuranceLimit \in Nat
    BY SpentType, DataInit, ResilienceAssumption
  <2>4. admitted[k] = 0 /\ redis[k] = 0 /\ Level(insurance[k]) = 0
    BY DEF Init, Level
  <2> QED BY <2>2, <2>3, <2>4 DEF Backed, Least
<1> QED BY <1>1, <1>2 DEF OutageInv

\* The insurance store counts a hit of a window whether it admits it or not.
LEMMA InsuranceCounts ==
    ASSUME DataInv, config.strategy # "TOKEN_BUCKET", NEW k \in Keys, NEW recounted,
           InsuranceWrites("increment", k, recounted)
    PROVE  /\ UNCHANGED redis
           /\ Level(insurance'[k]) = Level(insurance[k]) + 1
           /\ \A j \in Keys \ {k} : Level(insurance'[j]) = Level(insurance[j]) /\ admitted'[j] = admitted[j]
           /\ \/ admitted'[k] = admitted[k]
              \/ admitted'[k] = admitted[k] + 1 /\ Level(insurance[k]) + 1 <= InsuranceLimit
<1>1. /\ insurance'[k] = InsuranceEffect("increment", k)
      /\ \A j \in Keys \ {k} : insurance'[j] = insurance[j]
      /\ redis' = redis
  BY DEF InsuranceWrites, DataInv
<1>2. Level(insurance[k]) \in Nat /\ InsuranceLimit \in Nat
  BY DataFacts, ResilienceAssumption
<1>3. InsuranceEffect("increment", k) = Level(insurance[k]) + 1
  BY DEF InsuranceEffect, Effect, Counted
<1>4. Level(Level(insurance[k]) + 1) = Level(insurance[k]) + 1
  <2>1. \A n \in Nat : Level(n + 1) = n + 1
    BY DEF Level, NoEntry
  <2> QED BY <1>2, <2>1
<1>5. /\ \A j \in Keys \ {k} : admitted'[j] = admitted[j]
      /\ \/ admitted'[k] = admitted[k]
         \/ admitted'[k] = admitted[k] + 1 /\ ~Blocked(Level(insurance[k]), InsuranceLimit)
  BY DEF InsuranceWrites, DataInv
<1>6. ~Blocked(Level(insurance[k]), InsuranceLimit) => Level(insurance[k]) + 1 <= InsuranceLimit
  BY <1>2 DEF Blocked
<1> QED BY <1>1, <1>3, <1>4, <1>5, <1>6

LEMMA OutageStep ==
    ASSUME Kinds = {"increment"}, DataInv, DataInv', OutageInv, [Next]_vars
    PROVE  OutageInv'
<1>0. Limit \in Nat /\ InsuranceLimit \in Nat
  BY ResilienceAssumption
<1>1. config' = config
  BY DEF Next, Answer, Attempt, Insured, RedisIncrement, IncrementSucceeds, IncrementFails,
         OtherEnds, SyncEnds, SyncKey, Shutdown, Tick, vars
<1>2. OnlyAnswered'
  <2>1. ASSUME NEW c \in Callers, NEW o, op' = [op EXCEPT ![c] = o],
               o.kind # "none" => o.kind = "increment"
        PROVE  OnlyAnswered'
    <3>1. \A x \in Callers : op'[x] = IF x = c THEN o ELSE op[x]
      BY <2>1 DEF DataInv
    <3> QED BY <2>1, <3>1 DEF OutageInv, OnlyAnswered
  <2>2. CASE UNCHANGED op
    BY <2>2 DEF OutageInv, OnlyAnswered
  <2>3. ASSUME NEW c \in Callers, NEW kind \in Kinds, NEW k \in Keys, Attempt(c, kind, k)
        PROVE  OnlyAnswered'
    <3> DEFINE o == [kind |-> kind, key |-> k, pc |-> "sent", blocked |-> FALSE]
    <3>1. op' = [op EXCEPT ![c] = o] /\ o.kind = "increment"
      BY <2>3 DEF Attempt
    <3> HIDE DEF o
    <3> QED BY <2>1, <3>1
  <2>4. ASSUME NEW c \in Callers, RedisIncrement(c) PROVE OnlyAnswered'
    <3> DEFINE o == [kind |-> "increment", key |-> op[c].key, pc |-> "executed",
                     blocked |-> Blocked(redis[op[c].key], Limit)]
    <3>1. op' = [op EXCEPT ![c] = o] /\ o.kind = "increment"
      BY <2>4 DEF RedisIncrement
    <3> HIDE DEF o
    <3> QED BY <2>1, <3>1
  <2>5. ASSUME NEW c \in Callers, Answer(c) PROVE OnlyAnswered'
    <3>1. op' = [op EXCEPT ![c] = IdleOp] /\ IdleOp.kind = "none"
      BY <2>5 DEF Answer, IncrementSucceeds, IncrementFails, OtherEnds, IdleOp
    <3> QED BY <2>1, <3>1
  <2> QED BY <2>2, <2>3, <2>4, <2>5 DEF Next, Insured, SyncEnds, SyncKey, Shutdown, Tick, vars
<1> SUFFICES ASSUME NEW k \in Keys PROVE IsFiniteSet(Owed(k))' /\ Backed(k)'
  BY <1>1, <1>2 DEF OutageInv
<1> DEFINE n == Cardinality(Owed(k))
           i == Level(insurance[k])
<1>3. IsFiniteSet(Owed(k)) /\ Backed(k) /\ config.strategy # "TOKEN_BUCKET"
  BY DEF OutageInv
<1>4. /\ admitted[k] \in Nat /\ n \in Nat /\ redis[k] \in Nat /\ Spent \in Nat /\ i \in Nat
      /\ admitted'[k] \in Nat /\ redis'[k] \in Nat /\ Spent' \in Nat /\ i' \in Nat
  <2>1. Level(insurance[k]) \in Nat /\ Level(insurance'[k]) \in Nat
    BY LevelType DEF DataInv
  <2>2. Spent' \in Nat
    <3>1. resets' \in Nat
      BY DEF DataInv
    <3> QED BY <1>0, <3>1, Distribute DEF Spent
  <2> QED BY <1>3, <2>1, <2>2, SpentType, FS_CardinalityType DEF DataInv
<1>5. ASSUME IsFiniteSet(Owed(k)'), n' \in Nat,
             \/ /\ admitted'[k] + n' <= admitted[k] + n /\ redis'[k] >= redis[k]
                /\ Spent' = Spent /\ i' >= i
             \/ /\ admitted'[k] + n' <= admitted[k] + n /\ redis'[k] >= redis[k]
                /\ Spent' = Spent + InsuranceLimit /\ i' = 0
             \/ /\ admitted'[k] + n' <= admitted[k] + n + 1 /\ redis[k] + 1 <= Limit
                /\ redis'[k] = redis[k] + 1 /\ Spent' = Spent /\ i' = i
             \/ /\ admitted'[k] + n' <= admitted[k] + n + 1 /\ i + 1 <= InsuranceLimit
                /\ redis'[k] = redis[k] /\ Spent' = Spent /\ i' = i + 1
      PROVE  IsFiniteSet(Owed(k))' /\ Backed(k)'
  <2>1. admitted[k] + n <= Least(redis[k], Limit) + Spent + Least(i, InsuranceLimit)
    BY <1>3 DEF Backed
  <2>2. admitted'[k] + n' <= Least(redis'[k], Limit) + Spent' + Least(i', InsuranceLimit)
    <3> HIDE DEF n, i
    <3> QED BY <1>4, <1>5, <2>1, BackedStep
  <2>3. Backed(k)' <=> admitted'[k] + n' <= Least(redis'[k], Limit) + Spent' + Least(i', InsuranceLimit)
    BY DEF Backed, Least
  <2> QED BY <1>5, <2>2, <2>3
<1>6. ASSUME UNCHANGED <<op, redis, insurance, admitted, resets>>
      PROVE  IsFiniteSet(Owed(k))' /\ Backed(k)'
  BY <1>3, <1>6, OwedSame DEF Backed, Spent, Least
<1>7. ASSUME NEW c \in Callers, NEW kind \in Kinds, NEW j \in Keys, Attempt(c, kind, j)
      PROVE  IsFiniteSet(Owed(k))' /\ Backed(k)'
  <2>1. Owed(k)' = Owed(k)
    <3> DEFINE o == [kind |-> kind, key |-> j, pc |-> "sent", blocked |-> FALSE]
    <3>1. op' = [op EXCEPT ![c] = o] /\ o.pc # "executed" /\ op[c].pc # "executed"
      BY <1>7 DEF Attempt, IdleOp
    <3> HIDE DEF o
    <3>2. \A x \in Callers : op'[x] = IF x = c THEN o ELSE op[x]
      BY <3>1 DEF DataInv
    <3> QED BY <3>1, <3>2 DEF Owed
  <2> QED BY <1>3, <1>7, <2>1 DEF Attempt, counters, Backed, Spent, Least
<1>8. ASSUME NEW j \in Keys, NEW recounted, InsuranceWrites("increment", j, recounted),
             UNCHANGED resets, IsFiniteSet(Owed(k)'), n' \in Nat, n' <= n
      PROVE  IsFiniteSet(Owed(k))' /\ Backed(k)'
  <2>1. Spent' = Spent
    BY <1>8 DEF Spent
  <2>2. /\ UNCHANGED redis
        /\ \/ i' = i /\ admitted'[k] = admitted[k]
           \/ i' = i + 1 /\ admitted'[k] = admitted[k]
           \/ i' = i + 1 /\ admitted'[k] = admitted[k] + 1 /\ i + 1 <= InsuranceLimit
    <3>1. CASE j = k
      BY <1>3, <1>8, <3>1, InsuranceCounts
    <3>2. CASE j # k
      BY <1>3, <1>8, <3>2, InsuranceCounts
    <3> QED BY <3>1, <3>2
  <2> HIDE DEF n, i
  <2>3. CASE i' = i /\ admitted'[k] = admitted[k]
    <3>1. /\ admitted'[k] + n' <= admitted[k] + n /\ redis'[k] >= redis[k]
          /\ Spent' = Spent /\ i' >= i
      BY <1>4, <1>8, <2>1, <2>2, <2>3
    <3> QED BY <1>5, <1>8, <3>1
  <2>4. CASE i' = i + 1 /\ admitted'[k] = admitted[k]
    <3>1. /\ admitted'[k] + n' <= admitted[k] + n /\ redis'[k] >= redis[k]
          /\ Spent' = Spent /\ i' >= i
      BY <1>4, <1>8, <2>1, <2>2, <2>4
    <3> QED BY <1>5, <1>8, <3>1
  <2>5. CASE i' = i + 1 /\ admitted'[k] = admitted[k] + 1 /\ i + 1 <= InsuranceLimit
    <3>1. /\ admitted'[k] + n' <= admitted[k] + n + 1 /\ i + 1 <= InsuranceLimit
          /\ redis'[k] = redis[k] /\ Spent' = Spent /\ i' = i + 1
      BY <1>4, <1>8, <2>1, <2>2, <2>5
    <3> QED BY <1>5, <1>8, <3>1
  <2> QED BY <2>2, <2>3, <2>4, <2>5
<1>9. ASSUME NEW c \in Callers, NEW kind \in Kinds, NEW j \in Keys, Insured(c, kind, j)
      PROVE  IsFiniteSet(Owed(k))' /\ Backed(k)'
  <2>1. Owed(k)' = Owed(k)
    BY <1>9, OwedSame DEF Insured
  <2>2. InsuranceWrites("increment", j, FALSE) /\ UNCHANGED resets
    BY <1>9 DEF Insured
  <2>3. n' \in Nat /\ n' <= n
    BY <1>4, <2>1
  <2> QED BY <1>3, <1>8, <2>1, <2>2, <2>3
<1>10. ASSUME NEW c \in Callers, RedisIncrement(c)
       PROVE  IsFiniteSet(Owed(k))' /\ Backed(k)'
  <2> DEFINE j == op[c].key
             o == [kind |-> "increment", key |-> j, pc |-> "executed",
                   blocked |-> Blocked(redis[j], Limit)]
  <2>1. j \in Keys
    BY <1>10 DEF RedisIncrement, DataInv
  <2>2. /\ op' = [op EXCEPT ![c] = o] /\ RedisWrites("increment", j)
        /\ UNCHANGED <<admitted, resets, insurance>> /\ op[c].pc = "sent"
    BY <1>10 DEF RedisIncrement, RedisWrites
  <2>3. \A x \in Callers : op'[x] = IF x = c THEN o ELSE op[x]
    BY <2>2 DEF DataInv
  <2>4. o.pc = "executed" /\ o.blocked = Blocked(redis[j], Limit) /\ o.key = j
    OBVIOUS
  <2> HIDE DEF o
  <2>5. Owed(k)' = IF j = k /\ ~Blocked(redis[j], Limit) THEN Owed(k) \cup {c} ELSE Owed(k)
    BY <2>2, <2>3, <2>4 DEF Owed
  <2>6. c \notin Owed(k)
    BY <2>2 DEF Owed
  <2>7. redis'[j] = redis[j] + 1 /\ \A x \in Keys \ {j} : redis'[x] = redis[x]
    BY <1>3, <2>1, <2>2 DEF RedisWrites, Effect, Counted, DataInv
  <2>8. Spent' = Spent /\ i' = i /\ admitted'[k] = admitted[k]
    BY <2>2 DEF Spent
  <2>9. CASE j = k /\ ~Blocked(redis[j], Limit)
    <3>1. IsFiniteSet(Owed(k)') /\ n' = n + 1
      BY <1>3, <2>5, <2>6, <2>9, FS_AddElement
    <3>2. redis[k] + 1 <= Limit
      BY <1>0, <1>4, <2>9 DEF Blocked
    <3> HIDE DEF n, i
    <3>3. /\ admitted'[k] + n' <= admitted[k] + n + 1 /\ redis[k] + 1 <= Limit
          /\ redis'[k] = redis[k] + 1 /\ Spent' = Spent /\ i' = i /\ n' \in Nat
      BY <1>4, <2>7, <2>8, <2>9, <3>1, <3>2
    <3> QED BY <1>5, <3>1, <3>3
  <2>10. CASE ~(j = k /\ ~Blocked(redis[j], Limit))
    <3>1. IsFiniteSet(Owed(k)') /\ n' = n
      BY <1>3, <2>5, <2>10
    <3>2. redis'[k] >= redis[k]
      BY <1>4, <2>7
    <3> HIDE DEF n, i
    <3>3. /\ admitted'[k] + n' <= admitted[k] + n /\ redis'[k] >= redis[k]
          /\ Spent' = Spent /\ i' >= i /\ n' \in Nat
      BY <1>4, <2>8, <3>1, <3>2
    <3> QED BY <1>5, <3>1, <3>3
  <2> QED BY <2>9, <2>10
<1>11. ASSUME NEW c \in Callers, IncrementSucceeds(c)
       PROVE  IsFiniteSet(Owed(k))' /\ Backed(k)'
  <2>1. /\ op' = [op EXCEPT ![c] = IdleOp] /\ UNCHANGED redis
        /\ op[c].pc = "executed"
    BY <1>11 DEF IncrementSucceeds
  <2>2. /\ IsFiniteSet(Owed(k)') /\ n' \in Nat
        /\ n' = IF c \in Owed(k) THEN n - 1 ELSE n
    BY <1>3, <2>1, OwedDrop
  <2>3. admitted'[k] = IF c \in Owed(k) THEN admitted[k] + 1 ELSE admitted[k]
    BY <1>11, <2>1 DEF IncrementSucceeds, Owed, DataInv
  <2>4. admitted'[k] + n' <= admitted[k] + n
    <3> HIDE DEF n, i
    <3> QED BY <1>4, <2>2, <2>3
  <2>5. \/ Spent' = Spent /\ i' = i
        \/ Spent' = Spent + InsuranceLimit /\ i' = 0
    <3>1. CASE ResetAll
      BY <3>1, ResetSpends, ResetLevels
    <3>2. CASE UNCHANGED <<insurance, resets>>
      BY <3>2 DEF Spent
    <3>3. ResetAll \/ UNCHANGED <<insurance, resets>>
      BY <1>11 DEF IncrementSucceeds, OnClose, StartSync
    <3> QED BY <3>1, <3>2, <3>3
  <2> HIDE DEF n, i
  <2>6. redis'[k] >= redis[k] /\ (i' = i => i' >= i)
    BY <1>4, <2>1
  <2> QED BY <1>5, <2>2, <2>4, <2>5, <2>6
<1>12. ASSUME NEW c \in Callers, IncrementFails(c)
       PROVE  IsFiniteSet(Owed(k))' /\ Backed(k)'
  <2>1. /\ op' = [op EXCEPT ![c] = IdleOp] /\ UNCHANGED resets /\ op[c].key \in Keys
        /\ InsuranceWrites("increment", op[c].key, op[c].pc = "executed")
    BY <1>12 DEF IncrementFails, DataInv
  <2>2. /\ IsFiniteSet(Owed(k)') /\ n' \in Nat
        /\ n' = IF c \in Owed(k) THEN n - 1 ELSE n
    BY <1>3, <2>1, OwedDrop
  <2>3. n' <= n
    <3> HIDE DEF n
    <3> QED BY <1>4, <2>2
  <2> QED BY <1>8, <2>1, <2>2, <2>3
<1>13. ASSUME NEW c \in Callers PROVE ~OtherEnds(c)
  <2>1. op[c].pc = "sent" => op[c].kind = "increment"
    BY DEF OutageInv, OnlyAnswered, DataInv
  <2> QED BY <2>1 DEF OtherEnds
<1>14. ASSUME NEW s \in Syncs, SyncEnds(s)
       PROVE  IsFiniteSet(Owed(k))' /\ Backed(k)'
  <2>1. Owed(k)' = Owed(k) /\ UNCHANGED <<admitted, redis>> /\ ResetAll
    BY <1>14, OwedSame DEF SyncEnds
  <2>2. Spent' = Spent + InsuranceLimit /\ i' = 0
    BY <2>1, ResetSpends, ResetLevels
  <2>3. n' = n
    BY <2>1
  <2> HIDE DEF n, i
  <2>4. admitted'[k] + n' <= admitted[k] + n /\ redis'[k] >= redis[k] /\ n' \in Nat
    BY <1>4, <2>1, <2>3
  <2> QED BY <1>3, <1>5, <2>1, <2>2, <2>4
<1>15. ASSUME NEW s \in Syncs, NEW j \in Keys, SyncKey(s, j)
       PROVE  IsFiniteSet(Owed(k))' /\ Backed(k)'
  <2>1. Owed(k)' = Owed(k) /\ UNCHANGED <<admitted, insurance, resets>>
    BY <1>15, OwedSame DEF SyncKey
  <2>2. redis'[k] >= redis[k]
    <3>1. CASE UNCHANGED redis
      BY <1>4, <3>1
    <3>2. CASE redis' = [redis EXCEPT ![j] = Replayed(@, sync[s].snap[j])]
      <4>1. redis'[k] = IF k = j THEN Replayed(redis[k], sync[s].snap[k]) ELSE redis[k]
        BY <3>2 DEF DataInv
      <4>2. config.strategy \in {"FIXED_WINDOW", "SLIDING_WINDOW"} /\ sync[s].snap[k] \in Nat
        BY <1>3, DataFacts, ResilienceAssumption DEF DataInv
      <4> QED BY <1>4, <4>1, <4>2 DEF Replayed
    <3> QED BY <1>15, <3>1, <3>2 DEF SyncKey
  <2>3. n' = n /\ i' = i /\ Spent' = Spent
    BY <2>1 DEF Spent
  <2> HIDE DEF n, i
  <2>4. admitted'[k] + n' <= admitted[k] + n /\ i' >= i /\ n' \in Nat
    BY <1>4, <2>1, <2>3
  <2> QED BY <1>3, <1>5, <2>1, <2>2, <2>3, <2>4
<1>16. CASE Shutdown \/ Tick \/ UNCHANGED vars
  BY <1>6, <1>16 DEF Shutdown, Tick, vars, counters
<1> QED
  BY <1>7, <1>9, <1>10, <1>11, <1>12, <1>13, <1>14, <1>15, <1>16 DEF Next, Answer

\* What an outage costs, for every number of callers, keys, replays and limits: in one
\* window at most Limit increments are answered "allowed" by Redis and InsuranceLimit
\* by each life of the insurance store, however outages, lost answers and replays
\* interleave.  Stated for windows that are only incremented: a bucket's replay
\* overwrites, and a reset or a refund makes room on purpose.
THEOREM OutageAdmission ==
    ASSUME Kinds = {"increment"}, "TOKEN_BUCKET" \notin Strategies
    PROVE  Spec => []OutageAdmissionBounded
<1>1. Init => DataInv /\ OutageInv
  BY DataInit, OutageInit
<1>2. DataInv /\ OutageInv /\ [Next]_vars => (DataInv /\ OutageInv)'
  BY DataStep, OutageStep
<1>3. DataInv /\ OutageInv => OutageAdmissionBounded
  <2> SUFFICES ASSUME DataInv, OutageInv, NEW k \in Keys
               PROVE  admitted[k] <= Limit + InsuranceLimit * (1 + resets)
    BY DEF OutageAdmissionBounded
  <2>1. Limit \in Nat /\ InsuranceLimit \in Nat /\ resets \in Nat /\ Spent \in Nat
    BY ResilienceAssumption, SpentType DEF DataInv
  <2>2. InsuranceLimit * (1 + resets) = Spent + InsuranceLimit
    <3>1. 1 + resets = resets + 1
      BY <2>1
    <3>2. InsuranceLimit * (resets + 1) = InsuranceLimit * resets + InsuranceLimit
      BY <2>1, Distribute
    <3> QED BY <3>1, <3>2, Zenon DEF Spent
  <2>3. admitted[k] \in Nat /\ redis[k] \in Nat /\ Level(insurance[k]) \in Nat
    BY DataFacts DEF DataInv
  <2>4. Cardinality(Owed(k)) \in Nat /\ Backed(k)
    BY FS_CardinalityType DEF OutageInv
  <2>5. admitted[k] <= Limit + (Spent + InsuranceLimit)
    BY <2>1, <2>3, <2>4 DEF Backed, Least
  <2> QED BY <2>2, <2>5, Zenon
<1> QED BY <1>1, <1>2, <1>3, PTL DEF Spec
=============================================================================
