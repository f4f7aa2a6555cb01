--------------------------- MODULE CircuitBreaker ---------------------------
(***************************************************************************)
(* The three-state circuit breaker of src/src/resilience/CircuitBreaker.ts, *)
(* used by several callers at once.  The class is synchronous, but a       *)
(* caller asks canAttempt(), awaits the protected operation and reports    *)
(* recordSuccess() or recordFailure() any number of steps later, when the  *)
(* breaker may have changed state under it.                                *)
(*                                                                         *)
(* Time: the code only ever compares now with openedAtMs + recoveryTimeMs, *)
(* so openedAtMs is kept as the time elapsed since it, saturating at       *)
(* RecoveryTime.                                                           *)
(***************************************************************************)
EXTENDS Integers, FiniteSets

CONSTANTS Callers,            \* concurrent users of the breaker
          FailureThreshold,   \* failureThreshold
          RecoveryTime,       \* recoveryTimeMs, in clock ticks
          HalfOpenMaxProbes   \* halfOpenMaxProbes

ASSUME BreakerAssumption ==
    /\ IsFiniteSet(Callers)
    /\ FailureThreshold \in Nat \ {0}
    /\ RecoveryTime \in Nat
    /\ HalfOpenMaxProbes \in Nat \ {0}

NotOpened == -1     \* openedAtMs === null

VARIABLES state,                \* _state
          consecutiveFailures,  \* consecutiveFailures
          sinceOpened,          \* elapsed since openedAtMs, or NotOpened
          halfOpenInFlight,     \* halfOpenInFlight
          call                  \* what each caller is doing (see CallState)

breaker == <<state, consecutiveFailures, sinceOpened, halfOpenInFlight>>
breakerVars == <<state, consecutiveFailures, sinceOpened, halfOpenInFlight, call>>

\* "closed": attempt granted while CLOSED and not reported yet; "probe":
\* granted in the current HALF_OPEN episode; "late": granted as a probe of a
\* HALF_OPEN episode that has ended since.
CallState == {"idle", "closed", "probe", "late"}

BreakerTypeOK ==
    /\ state \in {"CLOSED", "OPEN", "HALF_OPEN"}
    /\ consecutiveFailures \in Nat
    /\ sinceOpened \in {NotOpened} \cup 0..RecoveryTime
    /\ halfOpenInFlight \in Nat
    /\ call \in [Callers -> CallState]

BreakerInit ==
    /\ state = "CLOSED"
    /\ consecutiveFailures = 0
    /\ sinceOpened = NotOpened
    /\ halfOpenInFlight = 0
    /\ call = [c \in Callers |-> "idle"]

-----------------------------------------------------------------------------
(* canAttempt                                                              *)

GrantHalfOpenProbe(c, inFlight) ==
    /\ inFlight < HalfOpenMaxProbes
    /\ halfOpenInFlight' = inFlight + 1
    /\ call' = [call EXCEPT ![c] = "probe"]

RecoveryElapsed == sinceOpened # NotOpened /\ sinceOpened >= RecoveryTime

\* canAttempt() returns true for caller c.
CanAttempt(c) ==
    /\ call[c] = "idle"
    /\ \/ /\ state = "CLOSED"
          /\ call' = [call EXCEPT ![c] = "closed"]
          /\ UNCHANGED <<state, halfOpenInFlight>>
       \/ /\ state = "OPEN"
          /\ RecoveryElapsed
          /\ state' = "HALF_OPEN"
          /\ GrantHalfOpenProbe(c, 0)
       \/ /\ state = "HALF_OPEN"
          /\ GrantHalfOpenProbe(c, halfOpenInFlight)
          /\ UNCHANGED state
    /\ UNCHANGED <<consecutiveFailures, sinceOpened>>

\* canAttempt() returns false; nothing changes.
Refuses ==
    \/ state = "OPEN" /\ ~RecoveryElapsed
    \/ state = "HALF_OPEN" /\ halfOpenInFlight >= HalfOpenMaxProbes

-----------------------------------------------------------------------------
(* recordSuccess, recordFailure, reset                                     *)

\* The caller c is done; when the HALF_OPEN episode ends, its other probes
\* become late ones.
Done(c) == [call EXCEPT ![c] = "idle"]
DoneAndEpisodeOver(c) ==
    [x \in Callers |-> CASE x = c -> "idle"
                         [] x # c /\ call[x] = "probe" -> "late"
                         [] OTHER -> call[x]]

\* Mutant: closing leaves the probes of the episode counted.
BugCloseKeepsInFlight(c) ==
    /\ state = "HALF_OPEN"
    /\ state' = "CLOSED" /\ consecutiveFailures' = 0 /\ sinceOpened' = NotOpened
    /\ call' = DoneAndEpisodeOver(c)
    /\ UNCHANGED halfOpenInFlight

\* Mutant: closing does not clear the failure count.
BugCloseKeepsFailures(c) ==
    /\ state = "HALF_OPEN"
    /\ state' = "CLOSED" /\ halfOpenInFlight' = 0 /\ sinceOpened' = NotOpened
    /\ call' = DoneAndEpisodeOver(c)
    /\ UNCHANGED consecutiveFailures

\* Mutant: any success closes the circuit, OPEN included.
BugLateSuccessCloses(c) ==
    /\ state' = "CLOSED" /\ consecutiveFailures' = 0
    /\ halfOpenInFlight' = 0 /\ sinceOpened' = NotOpened
    /\ call' = DoneAndEpisodeOver(c)

SuccessUpdate(c) ==
    \/ /\ state = "CLOSED"
       /\ consecutiveFailures' = 0
       /\ call' = Done(c)
       /\ UNCHANGED <<state, sinceOpened, halfOpenInFlight>>
    \/ /\ state = "HALF_OPEN"
       /\ halfOpenInFlight' = 0
       /\ consecutiveFailures' = 0
       /\ sinceOpened' = NotOpened
       /\ state' = "CLOSED"
       /\ call' = DoneAndEpisodeOver(c)
    \/ /\ state = "OPEN"
       /\ call' = Done(c)
       /\ UNCHANGED breaker

RecordSuccess(c) == call[c] # "idle" /\ SuccessUpdate(c)

\* Mutant: every reported failure gives its probe slot back, in any state.
BugFailureReleasesSlot(c) ==
    /\ halfOpenInFlight' = halfOpenInFlight - 1
    /\ call' = Done(c)
    /\ UNCHANGED <<state, consecutiveFailures, sinceOpened>>

\* Mutant: a failed probe frees its slot but the circuit stays HALF_OPEN.
BugProbeFailureStays(c) ==
    \/ /\ state # "HALF_OPEN"
       /\ call' = Done(c)
       /\ consecutiveFailures' = IF state = "CLOSED" THEN FailureThreshold
                                                     ELSE consecutiveFailures
       /\ state' = "OPEN"
       /\ sinceOpened' = IF state = "CLOSED" THEN 0 ELSE sinceOpened
       /\ UNCHANGED halfOpenInFlight
    \/ /\ state = "HALF_OPEN"
       /\ halfOpenInFlight' = halfOpenInFlight - 1
       /\ call' = Done(c)
       /\ UNCHANGED <<state, consecutiveFailures, sinceOpened>>

FailureUpdate(c) ==
    \/ /\ state = "CLOSED"
       /\ consecutiveFailures' = consecutiveFailures + 1
       /\ IF consecutiveFailures' >= FailureThreshold
          THEN state' = "OPEN" /\ sinceOpened' = 0
          ELSE UNCHANGED <<state, sinceOpened>>
       /\ call' = Done(c)
       /\ UNCHANGED halfOpenInFlight
    \/ /\ state = "HALF_OPEN"
       /\ halfOpenInFlight' = 0
       /\ state' = "OPEN"
       /\ sinceOpened' = 0
       /\ consecutiveFailures' = FailureThreshold
       /\ call' = DoneAndEpisodeOver(c)
    \/ /\ state = "OPEN"
       /\ call' = Done(c)
       /\ UNCHANGED breaker

RecordFailure(c) == call[c] # "idle" /\ FailureUpdate(c)

\* reset() and its alias destroy(); the calls in flight are not cancelled.
BreakerReset ==
    /\ state' = "CLOSED"
    /\ consecutiveFailures' = 0
    /\ sinceOpened' = NotOpened
    /\ halfOpenInFlight' = 0
    /\ call' = [x \in Callers |-> IF call[x] = "probe" THEN "late" ELSE call[x]]

\* The clock moves on.
BreakerTick ==
    /\ sinceOpened # NotOpened
    /\ sinceOpened < RecoveryTime
    /\ sinceOpened' = sinceOpened + 1
    /\ UNCHANGED <<state, consecutiveFailures, halfOpenInFlight, call>>

Report(c) == RecordSuccess(c) \/ RecordFailure(c)

BreakerNext ==
    \/ \E c \in Callers : CanAttempt(c) \/ RecordSuccess(c) \/ RecordFailure(c)
    \/ BreakerReset
    \/ BreakerTick

BreakerSpec == BreakerInit /\ [][BreakerNext]_breakerVars

\* Every attempt is reported (the class's usage contract), time passes, and
\* there is always another caller that asks: recovery is driven by traffic.
BreakerFairness ==
    /\ WF_breakerVars(BreakerTick)
    /\ WF_breakerVars(\E c \in Callers : CanAttempt(c))
    /\ \A c \in Callers : WF_breakerVars(Report(c))

BreakerFairSpec == BreakerSpec /\ BreakerFairness

-----------------------------------------------------------------------------
(* Properties                                                              *)

Probes == {c \in Callers : call[c] = "probe"}

\* halfOpenInFlight counts exactly the unreported probes of the current
\* HALF_OPEN episode and never exceeds halfOpenMaxProbes, whatever late
\* answers of earlier episodes or of the CLOSED state arrive meanwhile
\* (grantHalfOpenProbe and the resets in recordSuccess/recordFailure).
ProbeAccounting ==
    /\ halfOpenInFlight = Cardinality(Probes)
    /\ halfOpenInFlight <= HalfOpenMaxProbes
    /\ state # "HALF_OPEN" => halfOpenInFlight = 0

\* What each mode promises to the next transition.  CLOSED is strictly below
\* the failure threshold, so a circuit that has just recovered needs a full
\* run of failures to open again (recordSuccess clears the counter that
\* recordFailure had set to the threshold); OPEN and HALF_OPEN always have
\* openedAtMs, so canAttempt's "openedAtMs === null" refusal, from which there
\* is no way out, is never taken.
ModeConsistent ==
    /\ state = "CLOSED" => consecutiveFailures < FailureThreshold
    /\ (state = "CLOSED") <=> (sinceOpened = NotOpened)

SafetyInv == ProbeAccounting /\ ModeConsistent

\* Late answers cannot cut the recovery window short: a step of a caller
\* (canAttempt, recordSuccess or recordFailure) takes the circuit out of OPEN
\* only into HALF_OPEN and only once recoveryTimeMs has elapsed.
RecoveryWindowRespected ==
    [][(state = "OPEN" /\ state' # "OPEN" /\ call' # call)
         => (state' = "HALF_OPEN" /\ sinceOpened >= RecoveryTime)]_breakerVars

\* As long as every attempt is reported and traffic goes on, neither OPEN nor
\* HALF_OPEN is for ever: the recovery window ends, and a probe (or a late
\* answer) closes or reopens the circuit.
NeverStuck == \A s \in {"OPEN", "HALF_OPEN"} : (state = s) ~> (state # s)
=============================================================================
