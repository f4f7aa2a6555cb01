--------------------------- MODULE ComposedStore ---------------------------
(***************************************************************************)
(* ComposedStore: one increment spread over several stores ("layers") in   *)
(* one of four modes, and the frames that decrement() later uses to find   *)
(* the layers to give back to.  One key is modelled.  Every await is a     *)
(* point where other calls run; a layer's promise may be rejected with the *)
(* hit counted or not, or stay open for ever.                              *)
(***************************************************************************)
EXTENDS Integers, Sequences, FiniteSets, FiniteSetsExt

CONSTANTS
    Callers,    \* each makes one increment and may undo it
    NumLayers,
    Cap,        \* limit of each layer, [1..NumLayers -> Nat]
    Modes,
    MaxEvents   \* failures of a layer and reset() calls of a behaviour

Layers == 1..NumLayers

ASSUME ComposedAssumption ==
    /\ IsFiniteSet(Callers)
    /\ NumLayers \in Nat \ {0} /\ Cap \in [Layers -> Nat]
    /\ Modes \subseteq {"all", "overflow", "first-available", "race"}
    /\ "overflow" \in Modes => NumLayers = 2
    /\ MaxEvents \in Nat

VARIABLES
    mode, rollbackOnBlock,
    hits,       \* per layer, the hits its store counts in its window
    call,       \* per caller, see Idle
    decrementStacks,        \* frames of layer indices, the last is the top
    firstAvailableWinner,   \* 0 when there is none
    resetting,  \* layers that a reset() in progress has yet to reach
    holds,      \* per caller, the layers that count its hit
    errors, resets,
    faults      \* ways in which hits are left behind or taken from others so far

vars == <<mode, rollbackOnBlock, hits, call, decrementStacks, firstAvailableWinner,
          resetting, holds, errors, resets, faults>>

\* pc: "idle", "increment" (layers are asked), "rollback" (of the layers in todo), "ended"
\* with an answer, "undo" (of the layers in todo), "undone".  got: what became of each
\* layer's promise.  first: layer of the first answer in a race, or 0.
Idle == [pc |-> "idle", got |-> [l \in Layers |-> "unasked"], first |-> 0, todo |-> {},
         answer |-> "none"]

Answers == {"allowed", "blocked", "rejected"}

TypeOK ==
    /\ hits \in [Layers -> Nat]
    /\ \A c \in Callers :
          /\ call[c].pc \in {"idle", "increment", "rollback", "ended", "undo", "undone"}
          /\ \A l \in Layers : call[c].got[l] \in Answers \union {"unasked", "asked"}
          /\ call[c].first \in 0..NumLayers /\ call[c].todo \subseteq Layers
          /\ call[c].answer \in {"none", "allowed", "blocked", "threw", "timeout"}
    /\ decrementStacks \in Seq(SUBSET Layers) /\ firstAvailableWinner \in 0..NumLayers
    /\ resetting \subseteq Layers
    /\ holds \in [Callers -> SUBSET Layers]

Init ==
    /\ mode \in Modes /\ rollbackOnBlock \in BOOLEAN
    /\ hits = [l \in Layers |-> 0]
    /\ call = [c \in Callers |-> Idle]
    /\ decrementStacks = << >> /\ firstAvailableWinner = 0
    /\ resetting = {} /\ holds = [c \in Callers |-> {}]
    /\ errors = 0 /\ resets = 0 /\ faults = {}

\* Ask all layers at once, or the first.
Increment(c) ==
    /\ call[c].pc = "idle"
    /\ call' = [call EXCEPT ![c].pc = "increment",
                  ![c].got = [l \in Layers |-> IF mode \in {"all", "race"} \/ l = 1
                                               THEN "asked" ELSE "unasked"]]
    /\ UNCHANGED <<mode, rollbackOnBlock, hits, decrementStacks, firstAvailableWinner,
                   resetting, holds, errors, resets, faults>>

-----------------------------------------------------------------------------
(* What increment() does when a promise is settled: `got' is as it is then. *)

Allowed(got) == {l \in Layers : got[l] = "allowed"}
Settled(got) == \A l \in Layers : got[l] \in Answers

\* The call's next state and the frame that it pushes (or none).
Ends(k, answer, frames) ==
    [call |-> [k EXCEPT !.pc = "ended", !.answer = answer], frames |-> frames, winner |-> 0]
Continues(k) == [call |-> k, frames |-> << >>, winner |-> 0]

\* The call starts to give back to the layers of todo.
RollsBack(k, todo, answer) ==
    Continues([k EXCEPT !.pc = "rollback", !.todo = todo, !.answer = answer])

\* Mutant of AfterAll: only the layers before the first that blocks give back.
BugRollsBackEarlierLayers(k) ==
    LET earlier == {l \in Allowed(k.got) : \A x \in 1..l : k.got[x] = "allowed"} IN
    IF ~ Settled(k.got) THEN Continues(k)
    ELSE IF Allowed(k.got) = Layers THEN Ends(k, "allowed", << Layers >>)
    ELSE IF rollbackOnBlock /\ earlier # {} THEN RollsBack(k, earlier, "blocked")
    ELSE Ends(k, "blocked", << >>)

AfterAll(k) ==
    IF ~ Settled(k.got) THEN Continues(k)
    ELSE IF Allowed(k.got) = Layers THEN Ends(k, "allowed", << Layers >>)
    ELSE IF rollbackOnBlock /\ Allowed(k.got) # {}
    THEN RollsBack(k, Allowed(k.got), "blocked")
    ELSE Ends(k, "blocked", << >>)

\* Mutant of AfterOverflow: a frame is pushed for a hit that the burst layer blocks.
BugFrameForBlocked(k, l) ==
    IF k.got[l] = "rejected" THEN Ends(k, "threw", << >>)
    ELSE IF k.got[l] = "allowed" THEN Ends(k, "allowed", << {l} >>)
    ELSE IF l = 1 THEN Continues([k EXCEPT !.got[2] = "asked"])
    ELSE Ends(k, "blocked", << {l} >>)

\* A hit that the primary blocked stays counted there; a rejection is not caught.
AfterOverflow(k, l) ==
    IF k.got[l] = "rejected" THEN Ends(k, "threw", << >>)
    ELSE IF k.got[l] = "allowed" THEN Ends(k, "allowed", << {l} >>)
    ELSE IF l = 1 THEN Continues([k EXCEPT !.got[2] = "asked"])
    ELSE Ends(k, "blocked", << >>)

AfterFirstAvailable(k, l) ==
    IF k.got[l] = "allowed" THEN [Ends(k, "allowed", << {l} >>) EXCEPT !.winner = l]
    ELSE IF l < NumLayers THEN Continues([k EXCEPT !.got[l + 1] = "asked"])
    ELSE Ends(k, "blocked", << >>)

\* The first answer wins, but the call goes on only when every layer has settled.  The
\* winner's frame is pushed even if it blocked.
AfterRace(k, l) ==
    LET r == IF k.first = 0 THEN [k EXCEPT !.first = l] ELSE k
        fulfilled == {x \in Layers : r.got[x] # "rejected"}
        winner == IF r.got[r.first] # "rejected" THEN r.first
                  ELSE IF fulfilled = {} THEN 0 ELSE Min(fulfilled)
        losers == Allowed(r.got) \ {winner}
        won == [r EXCEPT !.first = winner]
    IN IF ~ Settled(r.got) THEN Continues(r)
       ELSE IF winner = 0 THEN Ends(r, "blocked", << >>)
       ELSE IF losers # {}
       THEN RollsBack(won, losers, r.got[winner])
       ELSE Ends(won, r.got[winner], << {winner} >>)

After(k, l) ==
    CASE mode = "all" -> AfterAll(k)
      [] mode = "overflow" -> AfterOverflow(k, l)
      [] mode = "first-available" -> AfterFirstAvailable(k, l)
      [] mode = "race" -> AfterRace(k, l)

\* Go on with what After says.
Resume(c, next) ==
    /\ call' = [call EXCEPT ![c] = next.call]
    /\ decrementStacks' = decrementStacks \o next.frames
    /\ firstAvailableWinner' = IF next.winner = 0 THEN firstAvailableWinner ELSE next.winner

\* The layer counts the hit, whatever its answer; a blocked hit is counted too.
LayerAnswers(c, l) ==
    /\ call[c].pc = "increment" /\ call[c].got[l] = "asked"
    /\ hits' = [hits EXCEPT ![l] = @ + 1]
    /\ holds' = [holds EXCEPT ![c] = @ \union {l}]
    /\ Resume(c, After([call[c] EXCEPT !.got[l] = IF hits[l] + 1 > Cap[l] THEN "blocked"
                                                  ELSE "allowed"], l))
    /\ UNCHANGED <<mode, rollbackOnBlock, resetting, errors, resets, faults>>

\* The promise is rejected; the hit may have been counted all the same.
LayerRejects(c, l) ==
    /\ call[c].pc = "increment" /\ call[c].got[l] = "asked"
    /\ errors + resets < MaxEvents /\ errors' = errors + 1
    /\ \/ UNCHANGED <<hits, holds>>
       \/ /\ hits' = [hits EXCEPT ![l] = @ + 1]
          /\ holds' = [holds EXCEPT ![c] = @ \union {l}]
    /\ Resume(c, After([call[c] EXCEPT !.got[l] = "rejected"], l))
    /\ UNCHANGED <<mode, rollbackOnBlock, resetting, resets, faults>>

\* raceTimeoutMs have passed and no layer has answered: the call gives up, and nobody
\* waits for the layers any more.
RaceTimeout(c) ==
    /\ mode = "race" /\ call[c].pc = "increment" /\ call[c].first = 0
    /\ call' = [call EXCEPT ![c].pc = "ended", ![c].answer = "timeout"]
    /\ UNCHANGED <<mode, rollbackOnBlock, hits, decrementStacks, firstAvailableWinner,
                   resetting, holds, errors, resets, faults>>

\* A layer that a race has given up on counts the hit.
LateHit(c, l) ==
    /\ call[c].answer = "timeout" /\ call[c].got[l] = "asked"
    /\ hits' = [hits EXCEPT ![l] = @ + 1]
    /\ holds' = [holds EXCEPT ![c] = @ \union {l}]
    /\ call' = [call EXCEPT ![c].got[l] = "unasked"]
    /\ faults' = faults \union {"lateHit"}
    /\ UNCHANGED <<mode, rollbackOnBlock, decrementStacks, firstAvailableWinner,
                   resetting, errors, resets>>

-----------------------------------------------------------------------------

\* store.decrement of layer l for caller c; a failure is ignored.
Decremented(c, l) ==
    \/ /\ hits' = [hits EXCEPT ![l] = IF @ > 0 THEN @ - 1 ELSE 0]
       /\ holds' = [holds EXCEPT ![c] = @ \ {l}]
       /\ UNCHANGED <<errors, faults>>
    \/ /\ errors + resets < MaxEvents /\ errors' = errors + 1
       /\ faults' = faults \union {"leftBehind"}
       /\ UNCHANGED <<hits, holds>>

\* The layers in todo, in ascending order, each awaited.
RollbackStep(c) ==
    LET l == Min(call[c].todo)
        k == [call[c] EXCEPT !.todo = @ \ {l}]
    IN /\ call[c].pc = "rollback"
       /\ Decremented(c, l)
       /\ Resume(c, IF k.todo # {} THEN Continues(k)
                    ELSE Ends(k, k.answer,
                              IF mode = "race" THEN << {k.first} >> ELSE << >>))
       /\ UNCHANGED <<mode, rollbackOnBlock, resetting, resets>>

\* What decrement() gives back to: the winner or else the first layer, or the last frame.
FrameToUndo ==
    IF mode = "first-available"
    THEN {IF firstAvailableWinner = 0 THEN 1 ELSE firstAvailableWinner}
    ELSE IF decrementStacks = << >> THEN {}
    ELSE decrementStacks[Len(decrementStacks)]

\* The layers that admitted the call.
OwnFrame(c) == IF mode = "race" THEN {call[c].first} ELSE Allowed(call[c].got)

\* Mutant of Decrement: blocked increments are undone too.
BugUndoesBlocked(c) ==
    /\ call[c].pc = "ended" /\ call[c].answer \in {"allowed", "blocked"}
    /\ call' = [call EXCEPT ![c].pc = IF FrameToUndo = {} THEN "undone" ELSE "undo",
                            ![c].todo = FrameToUndo]
    /\ firstAvailableWinner' = 0
    /\ decrementStacks' = SubSeq(decrementStacks, 1, Len(decrementStacks) - 1)
    /\ UNCHANGED <<mode, rollbackOnBlock, hits, resetting, holds, errors, resets, faults>>

\* decrement() of an admitted hit.  It may be given the frame of another call, with other
\* layers.  first-available leaves the frame on the stack.
Decrement(c) ==
    /\ call[c].pc = "ended" /\ call[c].answer = "allowed"
    /\ call' = [call EXCEPT ![c].pc = IF FrameToUndo = {} THEN "undone" ELSE "undo",
                            ![c].todo = FrameToUndo]
    /\ firstAvailableWinner' = 0
    /\ decrementStacks' = IF mode = "first-available" \/ decrementStacks = << >>
                          THEN decrementStacks
                          ELSE SubSeq(decrementStacks, 1, Len(decrementStacks) - 1)
    /\ faults' = IF FrameToUndo = OwnFrame(c) THEN faults ELSE faults \union {"crossed"}
    /\ UNCHANGED <<mode, rollbackOnBlock, hits, resetting, holds, errors, resets>>

\* rollbackDraftForBlockedIncrement(): layers that blocked give their hit back.
RollbackDraft(c) ==
    LET blocked == {l \in Layers : call[c].got[l] = "blocked"} IN
    /\ mode = "all" /\ call[c].pc = "ended" /\ call[c].answer = "blocked"
    /\ blocked # {}
    /\ call' = [call EXCEPT ![c].pc = "undo", ![c].todo = blocked]
    /\ UNCHANGED <<mode, rollbackOnBlock, hits, decrementStacks, firstAvailableWinner,
                   resetting, holds, errors, resets, faults>>

UndoStep(c) ==
    LET l == Min(call[c].todo) IN
    /\ call[c].pc = "undo"
    /\ Decremented(c, l)
    /\ call' = [call EXCEPT ![c].todo = @ \ {l},
                            ![c].pc = IF call[c].todo = {l} THEN "undone" ELSE @]
    /\ UNCHANGED <<mode, rollbackOnBlock, decrementStacks, firstAvailableWinner,
                   resetting, resets>>

\* reset() and shutdown(): the frames go at once, then each layer's store is told.
Reset ==
    /\ errors + resets < MaxEvents /\ resets' = resets + 1
    /\ resetting = {} /\ resetting' = Layers
    /\ decrementStacks' = << >> /\ firstAvailableWinner' = 0
    /\ faults' = faults \union {"reset"}
    /\ UNCHANGED <<mode, rollbackOnBlock, hits, call, holds, errors>>

\* One after the other in overflow mode, else in any order.  Calls in progress lose hits
\* that they will give back.
ResetLayer(l) ==
    /\ l \in resetting /\ (mode = "overflow" => l = Min(resetting))
    /\ resetting' = resetting \ {l}
    /\ hits' = [hits EXCEPT ![l] = 0]
    /\ holds' = [c \in Callers |-> holds[c] \ {l}]
    /\ UNCHANGED <<mode, rollbackOnBlock, call, decrementStacks, firstAvailableWinner,
                   errors, resets, faults>>

\* resetAll(): the layers at once; the frames stay.
ResetAll ==
    /\ errors + resets < MaxEvents /\ resets' = resets + 1
    /\ hits' = [l \in Layers |-> 0] /\ holds' = [c \in Callers |-> {}]
    /\ faults' = faults \union {"reset"}
    /\ UNCHANGED <<mode, rollbackOnBlock, call, decrementStacks, firstAvailableWinner,
                   resetting, errors>>

Next ==
    \/ \E c \in Callers :
          \/ Increment(c) \/ RaceTimeout(c) \/ RollbackStep(c)
          \/ Decrement(c) \/ RollbackDraft(c) \/ UndoStep(c)
          \/ \E l \in Layers : LayerAnswers(c, l) \/ LayerRejects(c, l) \/ LateHit(c, l)
    \/ Reset \/ ResetAll
    \/ \E l \in Layers : ResetLayer(l)

\* The process runs what is ready and its timers fire; layers may never answer.
OwnSteps(c) == RaceTimeout(c) \/ RollbackStep(c) \/ UndoStep(c)
Spec == Init /\ [][Next]_vars /\ \A c \in Callers : WF_vars(OwnSteps(c))

-----------------------------------------------------------------------------

Admitted == {c \in Callers : call[c].answer = "allowed" /\ call[c].pc = "ended"}

\* As many places as the caps have together.
Places == UNION {{l} \X (1..Cap[l]) : l \in Layers}

\* Every increment admitted and not undone fits in the layers: in every layer's cap in mode
\* "all", in the sum of the caps in the other modes, whatever calls overlap.
AdmissionBounded ==
    faults \subseteq {"leftBehind", "lateHit", "crossed"} =>
        Cardinality(Admitted) <=
            (IF mode = "all" THEN Min({Cap[l] : l \in Layers})
             ELSE Cardinality(Places))

\* Where a call's hit is counted once the call is over.
Belongs(c) ==
    LET k == call[c] IN
    IF k.pc = "undone"
    THEN IF mode # "all" THEN {l \in Layers : k.got[l] = "blocked"}
         ELSE IF k.answer = "blocked" /\ ~ rollbackOnBlock THEN Allowed(k.got) ELSE {}
    ELSE IF mode = "all" /\ k.answer = "blocked" /\ rollbackOnBlock
    THEN {l \in Layers : k.got[l] = "blocked"}
    ELSE IF mode = "race"
    THEN {l \in Layers : k.got[l] = "blocked"} \union
         (IF k.answer = "allowed" THEN {k.first} ELSE {})
    ELSE {l \in Layers : k.got[l] \in {"allowed", "blocked"}}

\* A call that is over has left hits exactly where its mode says: a rollback gives back
\* what was taken and nothing else, unless a store failed, a race was given up, a reset
\* interfered or a decrement was given another call's frame.
HitsWhereTheyBelong ==
    faults = {} /\ errors = 0 =>
        \A c \in Callers : call[c].pc \in {"ended", "undone"} => holds[c] = Belongs(c)

\* In the modes that pop frames, the frames are those of the admitted calls that have not
\* been undone: none is lost and none is left behind.
FramesMatchAdmissions ==
    mode \in {"all", "overflow"} /\ resets = 0 =>
        Len(decrementStacks) = Cardinality(Admitted)

\* Every increment comes to an answer: a race waits for raceTimeoutMs at most "before
\* giving up on slow layers".
IncrementReturns ==
    \A c \in Callers : (call[c].pc \in {"increment", "rollback"}) ~> (call[c].pc = "ended")

=============================================================================
