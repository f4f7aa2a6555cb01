------------------------ MODULE ComposedStoreProofs ------------------------
(***************************************************************************)
(* Theorems about ComposedStore for any number of layers and callers, any  *)
(* caps and any number of failures: one undo frame for every admitted      *)
(* call, hits counted exactly where the mode says, and no more admissions  *)
(* than the layers' caps allow.                                            *)
(***************************************************************************)
EXTENDS ComposedStore, FiniteSetTheorems, SequenceTheorems, WellFoundedInduction, TLAPS

-----------------------------------------------------------------------------
(* Types                                                                   *)

Pcs == {"idle", "increment", "rollback", "ended", "undo", "undone"}
Gots == {"unasked", "asked", "allowed", "blocked", "rejected"}
CallRec == [pc : Pcs, got : [Layers -> Gots], first : 0..NumLayers, todo : SUBSET Layers,
            answer : {"none", "allowed", "blocked", "threw", "timeout"}]

TypeInv ==
    /\ mode \in Modes /\ rollbackOnBlock \in BOOLEAN
    /\ hits \in [Layers -> Nat] /\ call \in [Callers -> CallRec]
    /\ decrementStacks \in Seq(SUBSET Layers) /\ firstAvailableWinner \in 0..NumLayers
    /\ resetting \subseteq Layers /\ holds \in [Callers -> SUBSET Layers]
    /\ errors \in Nat /\ resets \in Nat

\* The least element of a set of natural numbers.
LEMMA NatMin ==
    ASSUME NEW T, T \subseteq Nat, T # {}
    PROVE  \E x \in T : \A y \in T : x <= y
<1> DEFINE R == OpToRel(<, Nat)
<1>1. IsWellFoundedOn(R, Nat)
  BY NatLessThanWellFounded
<1>2. \A x, y \in Nat : y < x => <<y, x>> \in R
  BY DEF OpToRel
<1> HIDE DEF R
<1>3. PICK x \in T : \A y \in T : ~ (<<y, x>> \in R)
  BY <1>1, WFMin
<1>4. ASSUME NEW y \in T PROVE x <= y
  <2>1. x \in Nat /\ y \in Nat
    OBVIOUS
  <2>2. ~(y < x)
    BY <1>2, <1>3, <2>1, Zenon
  <2> QED BY <2>1, <2>2
<1> QED BY <1>4

LEMMA MinIn == ASSUME NEW T, T \subseteq Nat, T # {} PROVE Min(T) \in T
<1>1. \E x \in T : \A y \in T : x <= y
  BY NatMin
<1> QED BY <1>1 DEF Min

LEMMA LayerFacts ==
    /\ NumLayers \in Nat /\ Layers \subseteq Nat /\ 1 \in Layers /\ 0 \notin Layers
    /\ Layers \subseteq 0..NumLayers /\ IsFiniteSet(Layers) /\ Layers # {}
    /\ \A l \in Layers : l \in Nat /\ l >= 1 /\ l <= NumLayers /\ Cap[l] \in Nat
    /\ \A l \in Layers : l < NumLayers => l + 1 \in Layers
<1>1. NumLayers \in Nat \ {0} /\ Cap \in [Layers -> Nat]
  BY ComposedAssumption
<1>2. IsFiniteSet(Layers)
  BY <1>1, FS_Interval DEF Layers
<1> QED BY <1>1, <1>2 DEF Layers

LEMMA CallTypes ==
    ASSUME TypeInv, NEW c \in Callers
    PROVE  /\ call[c] \in CallRec /\ call[c].pc \in Pcs /\ call[c].got \in [Layers -> Gots]
           /\ call[c].first \in 0..NumLayers /\ call[c].todo \subseteq Layers
<1>1. call[c] \in CallRec
  BY DEF TypeInv
<1> QED BY <1>1 DEF CallRec

Modes4 == {"all", "overflow", "first-available", "race"}

LEMMA ModeFacts == ASSUME TypeInv PROVE mode \in Modes4 /\ (mode = "overflow" => NumLayers = 2 /\ 2 \in Layers)
<1>1. mode \in Modes4 /\ (mode = "overflow" => NumLayers = 2)
  BY ComposedAssumption DEF TypeInv, Modes4
<1> QED BY <1>1 DEF Layers

-----------------------------------------------------------------------------
(* What increment() does with the answer of a layer                        *)

Blocked(got) == {l \in Layers : got[l] = "blocked"}
Taken(got) == Allowed(got) \union Blocked(got)

\* In the modes that ask one layer after the other, none is asked before its turn.
InTurn(got) == \A l, x \in Layers : got[l] = "asked" /\ x > l => got[x] = "unasked"

\* The call k, to which the answer has been added, becomes q and pushes the frames fr.
Waits(k, q, fr) ==
    /\ q.pc = "increment" /\ q.answer = "none" /\ fr = << >>
    /\ Allowed(q.got) = Allowed(k.got) /\ Blocked(q.got) = Blocked(k.got)
    /\ mode = "race" => q.first # 0
    /\ mode \in {"overflow", "first-available"} => InTurn(q.got)

Rolls(k, q, fr) ==
    /\ q.pc = "rollback" /\ q.got = k.got /\ q.todo # {} /\ fr = << >>
    /\ \/ mode = "all" /\ rollbackOnBlock /\ q.answer = "blocked" /\ q.todo = Allowed(k.got)
       \/ /\ mode = "race" /\ q.first \in Layers /\ q.answer = k.got[q.first]
          /\ q.answer \in {"allowed", "blocked"} /\ q.todo = Allowed(k.got) \ {q.first}

Finishes(k, q, fr) ==
    /\ q.pc = "ended" /\ q.got = k.got
    /\ \/ mode = "all" /\ q.answer = "allowed" /\ Allowed(k.got) = Layers /\ fr = << Layers >>
       \/ /\ mode \in {"overflow", "first-available"} /\ q.answer = "allowed"
          /\ \E l \in Allowed(k.got) : fr = << {l} >>
       \/ /\ mode = "race" /\ q.first \in Layers /\ q.answer = k.got[q.first]
          /\ q.answer \in {"allowed", "blocked"} /\ Allowed(k.got) \subseteq {q.first}
          /\ fr = << {q.first} >>
       \/ /\ q.answer \in {"blocked", "threw"} /\ fr = << >>
          /\ mode = "all" => q.answer = "blocked" /\ (rollbackOnBlock => Allowed(k.got) = {})
          /\ mode = "race" => Taken(k.got) = {}

Goes(k, q, fr) == Waits(k, q, fr) \/ Rolls(k, q, fr) \/ Finishes(k, q, fr)

LEMMA EndsType ==
    ASSUME NEW k \in CallRec, NEW a \in {"allowed", "blocked", "threw"}, NEW f
    PROVE  /\ Ends(k, a, f).call \in CallRec /\ Ends(k, a, f).frames = f /\ Ends(k, a, f).winner = 0
           /\ Ends(k, a, f).call.pc = "ended" /\ Ends(k, a, f).call.answer = a
           /\ Ends(k, a, f).call.got = k.got /\ Ends(k, a, f).call.first = k.first
BY DEF Ends, CallRec, Pcs

LEMMA RollsBackType ==
    ASSUME NEW k \in CallRec, NEW a \in {"allowed", "blocked", "threw"}, NEW T \in SUBSET Layers
    PROVE  /\ RollsBack(k, T, a).call \in CallRec /\ RollsBack(k, T, a).frames = << >>
           /\ RollsBack(k, T, a).winner = 0
           /\ RollsBack(k, T, a).call.pc = "rollback" /\ RollsBack(k, T, a).call.answer = a
           /\ RollsBack(k, T, a).call.got = k.got /\ RollsBack(k, T, a).call.first = k.first
           /\ RollsBack(k, T, a).call.todo = T
BY DEF RollsBack, Continues, CallRec, Pcs

Answered(k, l) ==
    /\ k \in CallRec /\ k.pc = "increment" /\ k.answer = "none" /\ k.got[l] \in Answers
    /\ mode \in {"overflow", "first-available"} =>
          \A x \in Layers : x # l => k.got[x] # "asked" /\ (x > l => k.got[x] = "unasked")

Next3(k, n) == n.call \in CallRec /\ n.frames \in Seq(SUBSET Layers) /\ n.winner \in 0..NumLayers
               /\ Goes(k, n.call, n.frames)

LEMMA AfterAllGoes ==
    ASSUME TypeInv, mode = "all", NEW l \in Layers, NEW k, Answered(k, l)
    PROVE  Next3(k, AfterAll(k))
<1>0. k \in CallRec /\ Allowed(k.got) \subseteq Layers /\ k.pc = "increment" /\ k.answer = "none"
  BY DEF Answered, Allowed
<1>1. << >> \in Seq(SUBSET Layers) /\ << Layers >> \in Seq(SUBSET Layers) /\ 0 \in 0..NumLayers
  BY LayerFacts
<1>2. CASE ~ Settled(k.got)
  <2>1. AfterAll(k) = Continues(k)
    BY <1>2 DEF AfterAll
  <2>2. AfterAll(k).call = k /\ AfterAll(k).frames = << >> /\ AfterAll(k).winner = 0
    BY <2>1 DEF Continues
  <2>3. Waits(k, k, << >>)
    BY <1>0 DEF Waits
  <2> QED BY <1>0, <1>1, <2>2, <2>3 DEF Next3, Goes
<1>3. CASE Settled(k.got) /\ Allowed(k.got) = Layers
  <2>1. AfterAll(k) = Ends(k, "allowed", << Layers >>)
    BY <1>3 DEF AfterAll
  <2>2. PICK n : n = AfterAll(k)
    OBVIOUS
  <2>3. /\ n.call \in CallRec /\ n.frames = << Layers >> /\ n.winner = 0
        /\ n.call.pc = "ended" /\ n.call.answer = "allowed" /\ n.call.got = k.got
    BY <1>0, <2>1, <2>2, EndsType
  <2>4. Finishes(k, n.call, n.frames)
    BY <1>3, <2>3 DEF Finishes
  <2> QED BY <1>1, <2>2, <2>3, <2>4 DEF Next3, Goes
<1>4. CASE Settled(k.got) /\ Allowed(k.got) # Layers /\ rollbackOnBlock /\ Allowed(k.got) # {}
  <2>1. AfterAll(k) = RollsBack(k, Allowed(k.got), "blocked")
    BY <1>4 DEF AfterAll
  <2>2. PICK n : n = AfterAll(k)
    OBVIOUS
  <2>3. /\ n.call \in CallRec /\ n.frames = << >> /\ n.winner = 0
        /\ n.call.pc = "rollback" /\ n.call.answer = "blocked" /\ n.call.got = k.got
        /\ n.call.todo = Allowed(k.got)
    BY <1>0, <2>1, <2>2, RollsBackType
  <2>4. Rolls(k, n.call, n.frames)
    BY <1>4, <2>3 DEF Rolls
  <2> QED BY <1>1, <2>2, <2>3, <2>4 DEF Next3, Goes
<1>5. CASE Settled(k.got) /\ Allowed(k.got) # Layers /\ ~(rollbackOnBlock /\ Allowed(k.got) # {})
  <2>1. AfterAll(k) = Ends(k, "blocked", << >>)
    BY <1>5 DEF AfterAll
  <2>2. PICK n : n = AfterAll(k)
    OBVIOUS
  <2>3. /\ n.call \in CallRec /\ n.frames = << >> /\ n.winner = 0
        /\ n.call.pc = "ended" /\ n.call.answer = "blocked" /\ n.call.got = k.got
    BY <1>0, <2>1, <2>2, EndsType
  <2>4. Finishes(k, n.call, n.frames)
    BY <1>5, <2>3 DEF Finishes
  <2> QED BY <1>1, <2>2, <2>3, <2>4 DEF Next3, Goes
<1> QED BY <1>2, <1>3, <1>4, <1>5

\* The next layer is asked.
LEMMA AskNext ==
    ASSUME TypeInv, mode \in {"overflow", "first-available"}, NEW l \in Layers, NEW k, Answered(k, l),
           k.got[l] # "allowed", l + 1 \in Layers
    PROVE  Next3(k, Continues([k EXCEPT !.got[l + 1] = "asked"]))
<1>0. /\ k \in CallRec /\ k.pc = "increment" /\ k.answer = "none" /\ k.got[l] \in Answers
      /\ \A x \in Layers : x # l => k.got[x] # "asked" /\ (x > l => k.got[x] = "unasked")
  BY DEF Answered
<1>1. PICK m \in Layers : m = l + 1
  OBVIOUS
<1>2. l \in Nat /\ m \in Nat /\ m > l /\ \A x \in Layers : x \in Nat
  BY <1>1, LayerFacts
<1>3. k.got \in [Layers -> Gots] /\ k.got[l] # "asked" /\ k.got[m] = "unasked"
  BY <1>0, <1>2 DEF CallRec, Answers
<1> DEFINE g == [k.got EXCEPT ![m] = "asked"]
           q == [k EXCEPT !.got = g]
<1>4. g \in [Layers -> Gots] /\ g[m] = "asked" /\ \A x \in Layers : x # m => g[x] = k.got[x]
  BY <1>3 DEF Gots
<1>5. [k EXCEPT !.got[l + 1] = "asked"] = q
  BY <1>0, <1>1, <1>3 DEF CallRec
<1> HIDE DEF g
<1>6. q \in CallRec /\ q.pc = "increment" /\ q.answer = "none" /\ q.got = g
  BY <1>0, <1>4 DEF CallRec
<1> HIDE DEF q
<1>7. Allowed(g) = Allowed(k.got) /\ Blocked(g) = Blocked(k.got)
  BY <1>3, <1>4 DEF Allowed, Blocked
<1>8. InTurn(g)
  <2>1. SUFFICES ASSUME NEW y \in Layers, NEW x \in Layers, g[y] = "asked", x > y PROVE g[x] = "unasked"
    BY DEF InTurn
  <2>2. y = m
    BY <1>0, <1>3, <1>4, <2>1
  <2>3. x # m /\ x > l /\ x # l
    <3>1. x \in Nat /\ x > m
      BY <1>2, <2>1, <2>2
    <3> QED BY <1>2, <3>1
  <2> QED BY <1>0, <1>4, <2>3
<1>9. mode # "race"
  OBVIOUS
<1>10. Waits(k, q, << >>)
  BY <1>6, <1>7, <1>8, <1>9 DEF Waits
<1>11. << >> \in Seq(SUBSET Layers) /\ 0 \in 0..NumLayers
  BY LayerFacts
<1>12. /\ Continues(q).call = q /\ Continues(q).frames = << >> /\ Continues(q).winner = 0
  BY DEF Continues
<1> QED BY <1>5, <1>6, <1>10, <1>11, <1>12 DEF Next3, Goes

LEMMA Singles == \A l \in Layers : << {l} >> \in Seq(SUBSET Layers) /\ << >> \in Seq(SUBSET Layers)
OBVIOUS

LEMMA AfterOverflowGoes ==
    ASSUME TypeInv, mode = "overflow", NEW l \in Layers, NEW k, Answered(k, l)
    PROVE  Next3(k, AfterOverflow(k, l))
<1>0. k \in CallRec /\ k.got[l] \in {"allowed", "blocked", "rejected"} /\ 0 \in 0..NumLayers
      /\ << {l} >> \in Seq(SUBSET Layers) /\ << >> \in Seq(SUBSET Layers)
  BY LayerFacts, Singles DEF Answered, Answers
<1>1. NumLayers = 2 /\ l \in {1, 2} /\ (l = 1 => l + 1 \in Layers)
  BY ModeFacts DEF Layers
<1>2. PICK n : n = AfterOverflow(k, l)
  OBVIOUS
<1>3. CASE k.got[l] = "rejected"
  <2>1. n = Ends(k, "threw", << >>)
    BY <1>2, <1>3 DEF AfterOverflow
  <2>2. /\ n.call \in CallRec /\ n.frames = << >> /\ n.winner = 0
        /\ n.call.pc = "ended" /\ n.call.answer = "threw" /\ n.call.got = k.got
    BY <1>0, <2>1, EndsType
  <2>3. Finishes(k, n.call, n.frames)
    BY <2>2 DEF Finishes
  <2> QED BY <1>0, <1>2, <2>2, <2>3 DEF Next3, Goes
<1>4. CASE k.got[l] = "allowed"
  <2>1. n = Ends(k, "allowed", << {l} >>)
    BY <1>2, <1>4 DEF AfterOverflow
  <2>2. /\ n.call \in CallRec /\ n.frames = << {l} >> /\ n.winner = 0
        /\ n.call.pc = "ended" /\ n.call.answer = "allowed" /\ n.call.got = k.got
    BY <1>0, <2>1, EndsType
  <2>3. l \in Allowed(k.got)
    BY <1>4 DEF Allowed
  <2>4. Finishes(k, n.call, n.frames)
    BY <2>2, <2>3 DEF Finishes
  <2> QED BY <1>0, <1>2, <2>2, <2>4 DEF Next3, Goes
<1>5. CASE k.got[l] = "blocked" /\ l = 1
  <2>1. n = Continues([k EXCEPT !.got[l + 1] = "asked"])
    BY <1>2, <1>5 DEF AfterOverflow
  <2> QED BY <1>1, <1>2, <1>5, <2>1, AskNext
<1>6. CASE k.got[l] = "blocked" /\ l # 1
  <2>1. n = Ends(k, "blocked", << >>)
    BY <1>2, <1>6 DEF AfterOverflow
  <2>2. /\ n.call \in CallRec /\ n.frames = << >> /\ n.winner = 0
        /\ n.call.pc = "ended" /\ n.call.answer = "blocked" /\ n.call.got = k.got
    BY <1>0, <2>1, EndsType
  <2>3. Finishes(k, n.call, n.frames)
    BY <2>2 DEF Finishes
  <2> QED BY <1>0, <1>2, <2>2, <2>3 DEF Next3, Goes
<1> QED BY <1>0, <1>3, <1>4, <1>5, <1>6

LEMMA AfterFirstAvailableGoes ==
    ASSUME TypeInv, mode = "first-available", NEW l \in Layers, NEW k, Answered(k, l)
    PROVE  Next3(k, AfterFirstAvailable(k, l))
<1>0. k \in CallRec /\ k.got[l] \in {"allowed", "blocked", "rejected"} /\ 0 \in 0..NumLayers
      /\ l \in 0..NumLayers
      /\ << {l} >> \in Seq(SUBSET Layers) /\ << >> \in Seq(SUBSET Layers)
  BY LayerFacts, Singles DEF Answered, Answers
<1>2. PICK n : n = AfterFirstAvailable(k, l)
  OBVIOUS
<1>3. CASE k.got[l] = "allowed"
  <2>1. n = [Ends(k, "allowed", << {l} >>) EXCEPT !.winner = l]
    BY <1>2, <1>3 DEF AfterFirstAvailable
  <2>2. /\ n.call = Ends(k, "allowed", << {l} >>).call /\ n.frames = Ends(k, "allowed", << {l} >>).frames
        /\ n.winner = l
    BY <2>1 DEF Ends
  <2>3. /\ n.call \in CallRec /\ n.frames = << {l} >>
        /\ n.call.pc = "ended" /\ n.call.answer = "allowed" /\ n.call.got = k.got
    BY <1>0, <2>2, EndsType
  <2>4. l \in Allowed(k.got)
    BY <1>3 DEF Allowed
  <2>5. Finishes(k, n.call, n.frames)
    BY <2>3, <2>4 DEF Finishes
  <2> QED BY <1>0, <1>2, <2>2, <2>3, <2>5 DEF Next3, Goes
<1>4. CASE k.got[l] # "allowed" /\ l < NumLayers
  <2>1. n = Continues([k EXCEPT !.got[l + 1] = "asked"])
    BY <1>2, <1>4 DEF AfterFirstAvailable
  <2>2. l + 1 \in Layers
    BY <1>4, LayerFacts
  <2> QED BY <1>2, <1>4, <2>1, <2>2, AskNext
<1>5. CASE k.got[l] # "allowed" /\ ~(l < NumLayers)
  <2>1. n = Ends(k, "blocked", << >>)
    BY <1>2, <1>5 DEF AfterFirstAvailable
  <2>2. /\ n.call \in CallRec /\ n.frames = << >> /\ n.winner = 0
        /\ n.call.pc = "ended" /\ n.call.answer = "blocked" /\ n.call.got = k.got
    BY <1>0, <2>1, EndsType
  <2>3. Finishes(k, n.call, n.frames)
    BY <2>2 DEF Finishes
  <2> QED BY <1>0, <1>2, <2>2, <2>3 DEF Next3, Goes
<1> QED BY <1>3, <1>4, <1>5

LEMMA AfterRaceGoes ==
    ASSUME TypeInv, mode = "race", NEW l \in Layers, NEW k, Answered(k, l)
    PROVE  Next3(k, AfterRace(k, l))
<1>0. k \in CallRec /\ k.pc = "increment" /\ k.answer = "none" /\ 0 \in 0..NumLayers /\ 0 \notin Layers
      /\ << >> \in Seq(SUBSET Layers) /\ k.got \in [Layers -> Gots] /\ k.first \in 0..NumLayers
  BY LayerFacts, Singles DEF Answered, CallRec
<1> DEFINE r == IF k.first = 0 THEN [k EXCEPT !.first = l] ELSE k
           fulfilled == {x \in Layers : r.got[x] # "rejected"}
           winner == IF r.got[r.first] # "rejected" THEN r.first
                     ELSE IF fulfilled = {} THEN 0 ELSE Min(fulfilled)
           losers == Allowed(r.got) \ {winner}
           won == [r EXCEPT !.first = winner]
<1>1. r \in CallRec /\ r.pc = "increment" /\ r.answer = "none" /\ r.got = k.got /\ r.first \in Layers
  <2>1. k.first # 0 => k.first \in Layers
    BY <1>0 DEF Layers
  <2>2. l \in 0..NumLayers
    BY LayerFacts
  <2> QED BY <1>0, <2>1, <2>2 DEF CallRec
<1>2. PICK n : n = AfterRace(k, l)
  OBVIOUS
<1>3. n = (IF ~ Settled(r.got) THEN Continues(r)
           ELSE IF winner = 0 THEN Ends(r, "blocked", << >>)
           ELSE IF losers # {} THEN RollsBack(won, losers, r.got[winner])
           ELSE Ends(won, r.got[winner], << {winner} >>))
  BY <1>2 DEF AfterRace
<1> HIDE DEF r
<1>4. /\ winner = 0 => fulfilled = {}
      /\ winner # 0 => winner \in Layers /\ r.got[winner] # "rejected"
  <2>1. fulfilled # {} => Min(fulfilled) \in fulfilled
    <3>1. fulfilled \subseteq Nat
      BY LayerFacts
    <3> QED BY <3>1, MinIn
  <2> QED BY <1>0, <1>1, <2>1
<1>5. fulfilled = {x \in Layers : r.got[x] # "rejected"} /\ losers = Allowed(r.got) \ {winner}
  OBVIOUS
<1> HIDE DEF winner, fulfilled, losers
<1>6. CASE ~ Settled(r.got)
  <2>1. n.call = r /\ n.frames = << >> /\ n.winner = 0
    BY <1>3, <1>6 DEF Continues
  <2>2. Waits(k, r, << >>)
    BY <1>0, <1>1 DEF Waits
  <2> QED BY <1>0, <1>1, <1>2, <2>1, <2>2 DEF Next3, Goes
<1>7. CASE Settled(r.got) /\ winner = 0
  <2>1. n = Ends(r, "blocked", << >>)
    BY <1>3, <1>7
  <2>2. /\ n.call \in CallRec /\ n.frames = << >> /\ n.winner = 0
        /\ n.call.pc = "ended" /\ n.call.answer = "blocked" /\ n.call.got = k.got
    BY <1>1, <2>1, EndsType
  <2>3. Taken(k.got) = {}
    BY <1>1, <1>4, <1>5, <1>7 DEF Taken, Allowed, Blocked
  <2>4. Finishes(k, n.call, n.frames)
    BY <2>2, <2>3 DEF Finishes
  <2> QED BY <1>0, <1>2, <2>2, <2>4 DEF Next3, Goes
<1>8. ASSUME Settled(r.got), winner # 0 PROVE Next3(k, n)
  <2>1. winner \in Layers /\ r.got[winner] \in {"allowed", "blocked"} /\ winner \in 0..NumLayers
    BY <1>4, <1>8, LayerFacts DEF Settled, Answers
  <2>2. won \in CallRec /\ won.got = k.got /\ won.first = winner
    BY <1>1, <2>1 DEF CallRec
  <2> HIDE DEF won
  <2>3. losers \in SUBSET Layers
    BY <1>5 DEF Allowed
  <2>4. CASE losers # {}
    <3>1. n = RollsBack(won, losers, r.got[winner])
      BY <1>3, <1>8, <2>4
    <3>2. /\ n.call \in CallRec /\ n.frames = << >> /\ n.winner = 0
          /\ n.call.pc = "rollback" /\ n.call.answer = r.got[winner] /\ n.call.got = k.got
          /\ n.call.todo = losers /\ n.call.first = winner
      BY <2>1, <2>2, <2>3, <3>1, RollsBackType
    <3>3. Rolls(k, n.call, n.frames)
      BY <1>1, <1>5, <2>1, <2>4, <3>2 DEF Rolls
    <3> QED BY <1>0, <3>2, <3>3 DEF Next3, Goes
  <2>5. CASE losers = {}
    <3>1. n = Ends(won, r.got[winner], << {winner} >>)
      BY <1>3, <1>8, <2>5
    <3>2. /\ n.call \in CallRec /\ n.frames = << {winner} >> /\ n.winner = 0
          /\ n.call.pc = "ended" /\ n.call.answer = r.got[winner] /\ n.call.got = k.got
          /\ n.call.first = winner
      BY <2>1, <2>2, <3>1, EndsType
    <3>3. Allowed(k.got) \subseteq {winner}
      BY <1>1, <1>5, <2>5
    <3>4. Finishes(k, n.call, n.frames)
      BY <1>1, <2>1, <3>2, <3>3 DEF Finishes
    <3>5. << {winner} >> \in Seq(SUBSET Layers)
      BY <2>1, Singles
    <3> QED BY <1>0, <3>2, <3>4, <3>5 DEF Next3, Goes
  <2> QED BY <2>4, <2>5
<1> QED BY <1>2, <1>6, <1>7, <1>8

LEMMA AfterGoes ==
    ASSUME TypeInv, NEW l \in Layers, NEW k, Answered(k, l)
    PROVE  Next3(k, After(k, l))
BY ModeFacts, AfterAllGoes, AfterOverflowGoes, AfterFirstAvailableGoes, AfterRaceGoes DEF After, Modes4

-----------------------------------------------------------------------------
(* The shape of a call                                                     *)

Shape(k) ==
    /\ k.pc \in {"idle", "increment"} => k.answer = "none"
    /\ k.pc = "increment" /\ mode = "race" /\ k.first = 0 => \A l \in Layers : k.got[l] = "asked"
    /\ k.pc = "increment" /\ mode \in {"overflow", "first-available"} => InTurn(k.got)
    /\ k.pc = "rollback" =>
          /\ k.todo # {} /\ k.todo \subseteq Allowed(k.got)
          /\ \/ mode = "all" /\ k.answer = "blocked" /\ rollbackOnBlock
             \/ /\ mode = "race" /\ k.answer \in {"allowed", "blocked"}
                /\ k.first \in Layers \ k.todo /\ k.got[k.first] = k.answer
    /\ k.pc \in {"ended", "undo"} /\ k.answer = "allowed" =>
          /\ mode = "all" => Allowed(k.got) = Layers
          /\ mode = "race" => k.first \in Allowed(k.got)
          /\ Allowed(k.got) # {}
    /\ k.answer = "timeout" => mode = "race" /\ k.pc = "ended"
    /\ k.pc = "undo" =>
          /\ k.todo # {}
          /\ mode # "all" => k.answer = "allowed" /\ \E x \in Layers : k.todo = {x}
          /\ mode = "all" => \/ k.answer = "allowed"
                             \/ k.answer = "blocked" /\ k.todo \subseteq Blocked(k.got)

ShapeInv == \A c \in Callers : Shape(call[c])

\* A frame names every layer in mode "all" and one layer in the others.
IsFrame(f) == IF mode = "all" THEN f = Layers ELSE \E x \in Layers : f = {x}

FrameInv == \A i \in 1..Len(decrementStacks) : IsFrame(decrementStacks[i])

\* faults tells of every reset().
ResetInv ==
    /\ resets = 0 => "reset" \notin faults
    /\ "reset" \notin faults => resetting = {}

ComposedInv == TypeInv /\ ShapeInv /\ FrameInv /\ ResetInv

\* Call c becomes q.
Becomes(c, q) == q \in CallRec /\ call' = [call EXCEPT ![c] = q]

LEMMA Elsewhere ==
    ASSUME TypeInv, NEW c \in Callers, NEW q, Becomes(c, q)
    PROVE  /\ call' \in [Callers -> CallRec] /\ call'[c] = q
           /\ \A d \in Callers : d # c => call'[d] = call[d]
BY DEF Becomes, TypeInv

\* What the actions do to the call k of their caller, and the frames they push.
Begun(k, q) ==
    /\ k.pc = "idle" /\ q.pc = "increment" /\ q.answer = "none"
    /\ Allowed(q.got) = {} /\ Blocked(q.got) = {}
    /\ mode = "race" => \A l \in Layers : q.got[l] = "asked"
    /\ mode \in {"overflow", "first-available"} => InTurn(q.got)

GaveUp(k, q) ==
    /\ mode = "race" /\ k.pc = "increment" /\ k.first = 0 /\ Taken(k.got) = {}
    /\ q.pc = "ended" /\ q.answer = "timeout" /\ q.got = k.got

WasLate(k, q) ==
    /\ mode = "race" /\ k.pc = "ended" /\ k.answer = "timeout"
    /\ q.pc = "ended" /\ q.answer = "timeout"

\* The layer's answer v.
Told(k, k1, l, v) ==
    /\ k.pc = "increment" /\ k.answer = "none" /\ k.got[l] = "asked"
    /\ k1 \in CallRec /\ k1.got = [k.got EXCEPT ![l] = v]

RolledBack(k, q, l, fr) ==
    /\ k.pc = "rollback" /\ l \in k.todo /\ q.todo = k.todo \ {l}
    /\ q.got = k.got /\ q.first = k.first /\ q.answer = k.answer
    /\ \/ q.pc = "rollback" /\ q.todo # {} /\ fr = << >>
       \/ q.pc = "ended" /\ q.todo = {} /\ fr = (IF mode = "race" THEN << {k.first} >> ELSE << >>)

Undoes(k, q) ==
    /\ k.pc = "ended" /\ k.answer = "allowed" /\ q.got = k.got /\ q.first = k.first
    /\ q.answer = "allowed" /\ q.todo = FrameToUndo
    /\ \/ FrameToUndo = {} /\ q.pc = "undone"
       \/ q.pc = "undo" /\ IsFrame(FrameToUndo)

Drafted(k, q) ==
    /\ mode = "all" /\ k.pc = "ended" /\ k.answer = "blocked"
    /\ q.pc = "undo" /\ q.answer = "blocked" /\ q.got = k.got
    /\ q.todo = Blocked(k.got) /\ q.todo # {}

Undid(k, q, l) ==
    /\ k.pc = "undo" /\ l \in k.todo /\ q.todo = k.todo \ {l} /\ q.got = k.got
    /\ q.answer = k.answer /\ q.first = k.first
    /\ q.pc = IF q.todo = {} THEN "undone" ELSE "undo"

LEMMA IncrementDoes ==
    ASSUME ComposedInv, NEW c \in Callers, Increment(c)
    PROVE  \E q : Becomes(c, q) /\ Begun(call[c], q)
<1>0. call[c] \in CallRec /\ call[c].answer = "none" /\ call[c].pc = "idle"
  BY CallTypes DEF ComposedInv, ShapeInv, Shape, Increment
<1> DEFINE g == [l \in Layers |-> IF mode \in {"all", "race"} \/ l = 1 THEN "asked" ELSE "unasked"]
           q == [call[c] EXCEPT !.pc = "increment", !.got = g]
<1>1. g \in [Layers -> Gots] /\ Allowed(g) = {} /\ Blocked(g) = {}
  BY DEF Gots, Allowed, Blocked
<1>2. mode = "race" => \A l \in Layers : g[l] = "asked"
  OBVIOUS
<1>3. mode \in {"overflow", "first-available"} => InTurn(g)
  <2>1. SUFFICES ASSUME mode \in {"overflow", "first-available"},
                        NEW l \in Layers, NEW x \in Layers, g[l] = "asked", x > l
                 PROVE  g[x] = "unasked"
    BY DEF InTurn
  <2>2. l = 1 /\ x # 1
    BY <2>1, LayerFacts
  <2> QED BY <2>1, <2>2
<1>4. call' = [call EXCEPT ![c] = q]
  BY DEF Increment, ComposedInv, TypeInv
<1> HIDE DEF g
<1>5. q \in CallRec /\ q.pc = "increment" /\ q.answer = "none" /\ q.got = g
  BY <1>0, <1>1 DEF CallRec, Pcs
<1> HIDE DEF q
<1> QED BY <1>0, <1>1, <1>2, <1>3, <1>4, <1>5 DEF Becomes, Begun

LEMMA RaceTimeoutDoes ==
    ASSUME ComposedInv, NEW c \in Callers, RaceTimeout(c)
    PROVE  \E q : Becomes(c, q) /\ GaveUp(call[c], q)
<1>0. /\ call[c] \in CallRec /\ mode = "race" /\ call[c].pc = "increment" /\ call[c].first = 0
      /\ \A l \in Layers : call[c].got[l] = "asked"
  BY CallTypes DEF ComposedInv, ShapeInv, Shape, RaceTimeout
<1> DEFINE q == [call[c] EXCEPT !.pc = "ended", !.answer = "timeout"]
<1>1. call' = [call EXCEPT ![c] = q]
  BY DEF RaceTimeout, ComposedInv, TypeInv
<1>2. q \in CallRec /\ q.pc = "ended" /\ q.answer = "timeout" /\ q.got = call[c].got
  BY <1>0 DEF CallRec, Pcs
<1>3. Taken(call[c].got) = {}
  BY <1>0 DEF Taken, Allowed, Blocked
<1> HIDE DEF q
<1> QED BY <1>0, <1>1, <1>2, <1>3 DEF Becomes, GaveUp

LEMMA LateHitDoes ==
    ASSUME ComposedInv, NEW c \in Callers, NEW l \in Layers, LateHit(c, l)
    PROVE  \E q : Becomes(c, q) /\ WasLate(call[c], q)
<1>0. call[c] \in CallRec /\ mode = "race" /\ call[c].pc = "ended" /\ call[c].answer = "timeout"
  BY CallTypes DEF ComposedInv, ShapeInv, Shape, LateHit
<1> DEFINE q == [call[c] EXCEPT !.got = [call[c].got EXCEPT ![l] = "unasked"]]
<1>1. call' = [call EXCEPT ![c] = q]
  BY DEF LateHit, ComposedInv, TypeInv
<1>2. q \in CallRec /\ q.pc = "ended" /\ q.answer = "timeout"
  BY <1>0 DEF CallRec, Pcs, Gots
<1> HIDE DEF q
<1> QED BY <1>0, <1>1, <1>2 DEF Becomes, WasLate

\* A layer's promise is settled with v.
LEMMA LayerDoes ==
    ASSUME ComposedInv, NEW c \in Callers, NEW l \in Layers, NEW v \in Answers,
           call[c].pc = "increment", call[c].got[l] = "asked",
           Resume(c, After([call[c] EXCEPT !.got[l] = v], l))
    PROVE  \E q, k1 : \E fr \in Seq(SUBSET Layers) :
              /\ Becomes(c, q) /\ Told(call[c], k1, l, v) /\ Goes(k1, q, fr)
              /\ decrementStacks' = decrementStacks \o fr
              /\ firstAvailableWinner' \in 0..NumLayers
<1>0. /\ call[c] \in CallRec /\ call[c].got \in [Layers -> Gots] /\ call[c].answer = "none"
      /\ mode \in {"overflow", "first-available"} => InTurn(call[c].got)
  BY CallTypes DEF ComposedInv, ShapeInv, Shape
<1>1. PICK k1 : k1 = [call[c] EXCEPT !.got[l] = v]
  OBVIOUS
<1>2. /\ k1 \in CallRec /\ k1.got = [call[c].got EXCEPT ![l] = v] /\ k1.pc = "increment"
      /\ k1.answer = "none"
  BY <1>0, <1>1 DEF CallRec, Answers, Gots
<1>3. k1.got[l] = v /\ \A x \in Layers : x # l => k1.got[x] = call[c].got[x]
  BY <1>0, <1>2
<1>4. ASSUME mode \in {"overflow", "first-available"}, NEW x \in Layers, x # l
      PROVE  k1.got[x] # "asked" /\ (x > l => k1.got[x] = "unasked")
  <2>1. x \in Nat /\ l \in Nat /\ (x > l \/ l > x)
    BY <1>4, LayerFacts
  <2> QED BY <1>0, <1>3, <1>4, <2>1 DEF InTurn
<1>5. Answered(k1, l)
  BY <1>2, <1>3, <1>4 DEF Answered
<1>6. TypeInv
  BY DEF ComposedInv
<1>7. PICK n : n = After(k1, l)
  OBVIOUS
<1>8. Next3(k1, n)
  BY <1>5, <1>6, <1>7, AfterGoes
<1>9. /\ call' = [call EXCEPT ![c] = n.call] /\ decrementStacks' = decrementStacks \o n.frames
      /\ firstAvailableWinner' \in 0..NumLayers
  BY <1>1, <1>6, <1>7, <1>8 DEF Resume, Next3, TypeInv
<1> QED BY <1>0, <1>2, <1>8, <1>9 DEF Becomes, Told, Next3

LEMMA RollbackDoes ==
    ASSUME ComposedInv, NEW c \in Callers, RollbackStep(c)
    PROVE  \E q : \E l \in Layers : \E fr \in Seq(SUBSET Layers) :
              /\ Becomes(c, q) /\ RolledBack(call[c], q, l, fr) /\ Decremented(c, l)
              /\ decrementStacks' = decrementStacks \o fr
              /\ firstAvailableWinner' = firstAvailableWinner
              /\ (mode = "race" => call[c].first \in Layers)
<1>0. /\ call[c] \in CallRec /\ call[c].pc = "rollback" /\ call[c].todo # {} /\ call[c].todo \subseteq Layers
      /\ mode = "race" => call[c].first \in Layers
      /\ call[c].answer \in {"allowed", "blocked"}
  BY CallTypes DEF ComposedInv, ShapeInv, Shape, RollbackStep
<1>1. PICK l : l = Min(call[c].todo)
  OBVIOUS
<1>2. l \in call[c].todo /\ l \in Layers
  BY <1>0, <1>1, LayerFacts, MinIn
<1>3. PICK k : k = [call[c] EXCEPT !.todo = @ \ {l}]
  OBVIOUS
<1>4. /\ k \in CallRec /\ k.pc = "rollback" /\ k.todo = call[c].todo \ {l} /\ k.got = call[c].got
      /\ k.first = call[c].first /\ k.answer = call[c].answer
  BY <1>0, <1>3 DEF CallRec
<1>5. Decremented(c, l)
  BY <1>1 DEF RollbackStep
<1>6. Resume(c, IF k.todo # {} THEN Continues(k)
                ELSE Ends(k, k.answer, IF mode = "race" THEN << {k.first} >> ELSE << >>))
  BY <1>1, <1>3 DEF RollbackStep
<1>7. CASE k.todo # {}
  <2>1. /\ call' = [call EXCEPT ![c] = k] /\ decrementStacks' = decrementStacks \o << >>
        /\ firstAvailableWinner' = firstAvailableWinner
    BY <1>6, <1>7 DEF Resume, Continues
  <2>2. RolledBack(call[c], k, l, << >>) /\ Becomes(c, k) /\ << >> \in Seq(SUBSET Layers)
    BY <1>0, <1>2, <1>4, <1>7, <2>1 DEF RolledBack, Becomes
  <2> QED BY <1>0, <1>2, <1>5, <2>1, <2>2
<1>8. CASE k.todo = {}
  <2>1. PICK fr : fr = IF mode = "race" THEN << {k.first} >> ELSE << >>
    OBVIOUS
  <2>2. PICK n : n = Ends(k, k.answer, fr)
    OBVIOUS
  <2>3. n.call \in CallRec /\ n.frames = fr /\ n.winner = 0 /\ n.call.pc = "ended" /\ n.call.answer = k.answer
        /\ n.call.got = k.got /\ n.call.first = k.first
    BY <1>0, <1>4, <2>2, EndsType
  <2>4. n.call.todo = k.todo
    BY <1>4, <2>2 DEF Ends, CallRec
  <2>5. Resume(c, n)
    BY <1>6, <1>8, <2>1, <2>2
  <2>6. /\ call' = [call EXCEPT ![c] = n.call] /\ decrementStacks' = decrementStacks \o fr
        /\ firstAvailableWinner' = firstAvailableWinner
    BY <2>3, <2>5 DEF Resume
  <2>7. fr \in Seq(SUBSET Layers)
    BY <1>0, <1>4, <2>1, Singles
  <2>8. RolledBack(call[c], n.call, l, fr) /\ Becomes(c, n.call)
    BY <1>0, <1>2, <1>4, <1>8, <2>1, <2>3, <2>4, <2>6 DEF RolledBack, Becomes
  <2> QED BY <1>0, <1>2, <1>5, <2>6, <2>7, <2>8
<1> QED BY <1>7, <1>8

LEMMA FrameToUndoIs ==
    ASSUME ComposedInv
    PROVE  FrameToUndo \subseteq Layers /\ (FrameToUndo = {} \/ IsFrame(FrameToUndo))
<1>0. firstAvailableWinner \in 0..NumLayers /\ decrementStacks \in Seq(SUBSET Layers)
  BY DEF ComposedInv, TypeInv
<1>1. CASE mode = "first-available"
  <2>1. PICK w : w = IF firstAvailableWinner = 0 THEN 1 ELSE firstAvailableWinner
    OBVIOUS
  <2>2. w \in Layers
    BY <1>0, <2>1, LayerFacts DEF Layers
  <2>3. FrameToUndo = {w}
    BY <1>1, <2>1 DEF FrameToUndo
  <2> QED BY <1>1, <2>2, <2>3 DEF IsFrame
<1>2. CASE mode # "first-available" /\ decrementStacks = << >>
  BY <1>2 DEF FrameToUndo
<1>3. CASE mode # "first-available" /\ decrementStacks # << >>
  <2>1. Len(decrementStacks) \in 1..Len(decrementStacks)
    BY <1>0, <1>3
  <2>2. FrameToUndo = decrementStacks[Len(decrementStacks)]
    BY <1>3 DEF FrameToUndo
  <2>3. IsFrame(FrameToUndo) /\ FrameToUndo \in SUBSET Layers
    BY <1>0, <2>1, <2>2 DEF ComposedInv, FrameInv
  <2> QED BY <2>3
<1> QED BY <1>1, <1>2, <1>3

LEMMA DecrementDoes ==
    ASSUME ComposedInv, NEW c \in Callers, Decrement(c)
    PROVE  \E q : Becomes(c, q) /\ Undoes(call[c], q)
<1>0. call[c] \in CallRec /\ call[c].pc = "ended" /\ call[c].answer = "allowed"
  BY CallTypes DEF ComposedInv, Decrement
<1>1. PICK f : f = FrameToUndo
  OBVIOUS
<1>2. PICK p : p = IF f = {} THEN "undone" ELSE "undo"
  OBVIOUS
<1>3. f \subseteq Layers /\ (f = {} \/ IsFrame(f)) /\ p \in Pcs
  BY <1>1, <1>2, FrameToUndoIs DEF Pcs
<1> DEFINE q == [call[c] EXCEPT !.pc = p, !.todo = f]
<1>4. call' = [call EXCEPT ![c] = q]
  BY <1>1, <1>2 DEF Decrement, ComposedInv, TypeInv
<1>5. /\ q \in CallRec /\ q.pc = p /\ q.todo = f /\ q.got = call[c].got /\ q.first = call[c].first
      /\ q.answer = call[c].answer
  BY <1>0, <1>3 DEF CallRec
<1> HIDE DEF q
<1> QED BY <1>0, <1>1, <1>2, <1>3, <1>4, <1>5 DEF Becomes, Undoes

LEMMA RollbackDraftDoes ==
    ASSUME ComposedInv, NEW c \in Callers, RollbackDraft(c)
    PROVE  \E q : Becomes(c, q) /\ Drafted(call[c], q)
<1>0. call[c] \in CallRec /\ mode = "all" /\ call[c].pc = "ended" /\ call[c].answer = "blocked"
  BY CallTypes DEF ComposedInv, RollbackDraft
<1>1. PICK f : f = Blocked(call[c].got)
  OBVIOUS
<1>2. f \subseteq Layers
  BY <1>1 DEF Blocked
<1> DEFINE q == [call[c] EXCEPT !.pc = "undo", !.todo = f]
<1>3. call' = [call EXCEPT ![c] = q] /\ f # {}
  BY <1>1 DEF RollbackDraft, ComposedInv, TypeInv, Blocked
<1>4. q \in CallRec /\ q.pc = "undo" /\ q.todo = f /\ q.got = call[c].got /\ q.answer = call[c].answer
  BY <1>0, <1>2 DEF CallRec, Pcs
<1> HIDE DEF q
<1> QED BY <1>0, <1>1, <1>3, <1>4 DEF Becomes, Drafted

LEMMA UndoDoes ==
    ASSUME ComposedInv, NEW c \in Callers, UndoStep(c)
    PROVE  \E q : \E l \in Layers :
              Becomes(c, q) /\ Undid(call[c], q, l) /\ Decremented(c, l)
<1>0. /\ call[c] \in CallRec /\ call[c].pc = "undo" /\ call[c].todo # {} /\ call[c].todo \subseteq Layers
  BY CallTypes DEF ComposedInv, ShapeInv, Shape, UndoStep
<1>1. PICK l : l = Min(call[c].todo)
  OBVIOUS
<1>2. l \in call[c].todo /\ l \in Layers
  BY <1>0, <1>1, LayerFacts, MinIn
<1>3. PICK t : t = call[c].todo \ {l}
  OBVIOUS
<1>4. PICK p : p = IF call[c].todo = {l} THEN "undone" ELSE "undo"
  OBVIOUS
<1> DEFINE q == [call[c] EXCEPT !.todo = t, !.pc = p]
<1>5. call' = [call EXCEPT ![c] = q]
  BY <1>0, <1>1, <1>3, <1>4 DEF UndoStep, ComposedInv, TypeInv, CallRec
<1>6. /\ q \in CallRec /\ q.pc = p /\ q.todo = t /\ q.got = call[c].got /\ q.answer = call[c].answer
      /\ q.first = call[c].first
  BY <1>0, <1>3, <1>4 DEF CallRec, Pcs
<1>7. p = IF t = {} THEN "undone" ELSE "undo"
  BY <1>2, <1>3, <1>4
<1>8. Decremented(c, l)
  BY <1>1 DEF UndoStep
<1> HIDE DEF q
<1> QED BY <1>0, <1>2, <1>3, <1>5, <1>6, <1>7, <1>8 DEF Becomes, Undid

-----------------------------------------------------------------------------
(* The shape is preserved                                                  *)

LEMMA ShapeOfNew ==
    /\ \A k, q : Begun(k, q) => Shape(q)
    /\ \A k, q : GaveUp(k, q) => Shape(q)
    /\ \A k, q : WasLate(k, q) => Shape(q)
BY DEF Begun, GaveUp, WasLate, Shape, Taken

LEMMA ShapeOfGoes ==
    ASSUME TypeInv, NEW k, NEW q, NEW fr, Goes(k, q, fr)
    PROVE  Shape(q)
<1>0. mode \in Modes4 /\ Layers # {}
  BY ModeFacts, LayerFacts
<1>1. CASE Waits(k, q, fr)
  BY <1>1 DEF Waits, Shape
<1>2. CASE Rolls(k, q, fr)
  BY <1>2 DEF Rolls, Shape, Allowed
<1>3. CASE Finishes(k, q, fr)
  <2>1. q.answer = "allowed" => Allowed(q.got) # {}
    BY <1>0, <1>3 DEF Finishes, Allowed
  <2>2. q.answer = "allowed" /\ mode = "all" => Allowed(q.got) = Layers
    BY <1>3 DEF Finishes
  <2>3. q.answer = "allowed" /\ mode = "race" => q.first \in Allowed(q.got)
    BY <1>3 DEF Finishes, Allowed
  <2>4. q.pc = "ended" /\ q.answer # "timeout"
    BY <1>3 DEF Finishes
  <2> QED BY <2>1, <2>2, <2>3, <2>4 DEF Shape
<1> QED BY <1>1, <1>2, <1>3 DEF Goes

LEMMA ShapeOfRolledBack ==
    ASSUME NEW k, NEW q, NEW l, NEW fr, Shape(k), RolledBack(k, q, l, fr)
    PROVE  Shape(q)
<1>1. CASE q.pc = "rollback"
  BY <1>1 DEF RolledBack, Shape
<1>2. CASE q.pc = "ended"
  <2>1. /\ k.pc = "rollback" /\ q.got = k.got /\ q.first = k.first /\ q.answer = k.answer
    BY DEF RolledBack
  <2>2. q.answer # "timeout" /\ (q.answer = "allowed" => mode = "race" /\ k.first \in Layers /\ k.got[k.first] = "allowed")
    BY <2>1 DEF Shape
  <2>3. q.answer = "allowed" => mode = "race" /\ q.first \in Allowed(q.got)
    BY <2>1, <2>2 DEF Allowed
  <2> QED BY <1>2, <2>2, <2>3 DEF Shape
<1> QED BY <1>1, <1>2 DEF RolledBack

LEMMA ShapeOfUndoes ==
    ASSUME NEW k, NEW q, Shape(k), Undoes(k, q)
    PROVE  Shape(q)
<1>1. /\ q.answer = "allowed" /\ k.pc = "ended" /\ k.answer = "allowed" /\ q.got = k.got /\ q.first = k.first
  BY DEF Undoes
<1>2. /\ mode = "all" => Allowed(q.got) = Layers
      /\ mode = "race" => q.first \in Allowed(q.got)
      /\ Allowed(q.got) # {}
  BY <1>1 DEF Shape
<1>3. q.pc = "undone" \/ (q.pc = "undo" /\ IsFrame(q.todo))
  BY DEF Undoes
<1>4. IsFrame(q.todo) => q.todo # {} /\ (mode # "all" => \E x \in Layers : q.todo = {x})
  BY LayerFacts DEF IsFrame
<1> QED BY <1>1, <1>2, <1>3, <1>4 DEF Shape

LEMMA ShapeOfDrafted ==
    ASSUME NEW k, NEW q, Drafted(k, q)
    PROVE  Shape(q)
BY DEF Drafted, Shape

LEMMA ShapeOfUndid ==
    ASSUME NEW k, NEW q, NEW l, Shape(k), Undid(k, q, l)
    PROVE  Shape(q)
<1>1. CASE q.todo = {}
  BY <1>1 DEF Undid, Shape
<1>2. CASE q.todo # {}
  <2>1. q.pc = "undo" /\ k.pc = "undo" /\ q.got = k.got /\ q.answer = k.answer /\ q.first = k.first
        /\ l \in k.todo /\ q.todo = k.todo \ {l}
    BY <1>2 DEF Undid
  <2>2. mode = "all"
    BY <1>2, <2>1 DEF Shape
  <2> QED BY <1>2, <2>1, <2>2 DEF Shape
<1> QED BY <1>1, <1>2

LEMMA ShapeMoves ==
    ASSUME TypeInv, ShapeInv, mode' = mode, rollbackOnBlock' = rollbackOnBlock,
           NEW c \in Callers, NEW q, Becomes(c, q), Shape(q)
    PROVE  ShapeInv'
<1>1. \A d \in Callers : Shape(call'[d])
  BY Elsewhere DEF ShapeInv
<1>2. ASSUME NEW d \in Callers PROVE Shape(call[d])'
  <2>1. PICK k : k = call'[d]
    OBVIOUS
  <2>2. Shape(k)
    BY <1>1, <2>1
  <2>3. /\ k.pc \in {"idle", "increment"} => k.answer = "none"
        /\ k.pc = "increment" /\ mode' = "race" /\ k.first = 0 => \A l \in Layers : k.got[l] = "asked"
        /\ k.pc = "increment" /\ mode' \in {"overflow", "first-available"} => InTurn(k.got)
        /\ k.pc = "rollback" =>
              /\ k.todo # {} /\ k.todo \subseteq Allowed(k.got)
              /\ \/ mode' = "all" /\ k.answer = "blocked" /\ rollbackOnBlock'
                 \/ /\ mode' = "race" /\ k.answer \in {"allowed", "blocked"}
                    /\ k.first \in Layers \ k.todo /\ k.got[k.first] = k.answer
        /\ k.pc \in {"ended", "undo"} /\ k.answer = "allowed" =>
              /\ mode' = "all" => Allowed(k.got) = Layers
              /\ mode' = "race" => k.first \in Allowed(k.got)
              /\ Allowed(k.got) # {}
        /\ k.answer = "timeout" => mode' = "race" /\ k.pc = "ended"
        /\ k.pc = "undo" =>
              /\ k.todo # {}
              /\ mode' # "all" => k.answer = "allowed" /\ \E x \in Layers : k.todo = {x}
              /\ mode' = "all" => \/ k.answer = "allowed"
                                  \/ k.answer = "blocked" /\ k.todo \subseteq Blocked(k.got)
    BY <2>2 DEF Shape
  <2> QED BY <2>1, <2>3 DEF Shape, InTurn, Allowed, Blocked
<1> QED BY <1>2 DEF ShapeInv

-----------------------------------------------------------------------------
(* The frames                                                              *)

\* At most one frame is pushed.
Pushes(fr) ==
    /\ decrementStacks' = decrementStacks \o fr
    /\ fr = << >> \/ \E f \in SUBSET Layers : IsFrame(f) /\ fr = << f >>

LEMMA PushedFrames ==
    ASSUME TypeInv, FrameInv, mode' = mode, NEW fr, Pushes(fr)
    PROVE  /\ FrameInv' /\ decrementStacks' \in Seq(SUBSET Layers)
           /\ Len(decrementStacks') = Len(decrementStacks) + (IF fr = << >> THEN 0 ELSE 1)
<1>0. decrementStacks \in Seq(SUBSET Layers) /\ decrementStacks' = decrementStacks \o fr
  BY DEF TypeInv, Pushes
<1>1. CASE fr = << >>
  <2>1. decrementStacks' = decrementStacks
    BY <1>0, <1>1
  <2> QED BY <1>0, <1>1, <2>1 DEF FrameInv, IsFrame
<1>2. CASE fr # << >>
  <2>1. PICK f \in SUBSET Layers : IsFrame(f) /\ fr = << f >>
    BY <1>2 DEF Pushes
  <2>2. PICK s : s = decrementStacks
    OBVIOUS
  <2>3. PICK t : t = decrementStacks'
    OBVIOUS
  <2>4. s \in Seq(SUBSET Layers) /\ t = s \o << f >>
    BY <1>0, <2>1, <2>2, <2>3
  <2>5. /\ t \in Seq(SUBSET Layers) /\ Len(t) = Len(s) + 1
        /\ \A i \in 1..Len(t) : IF i \in 1..Len(s) THEN t[i] = s[i] ELSE t[i] = f
    BY <2>4
  <2>6. \A i \in 1..Len(t) : IsFrame(t[i])
    BY <2>1, <2>2, <2>5 DEF FrameInv
  <2>7. FrameInv'
    BY <2>3, <2>6 DEF FrameInv, IsFrame
  <2> QED BY <1>2, <2>2, <2>3, <2>5, <2>7
<1> QED BY <1>1, <1>2

\* An admitted increment has pushed its frame, in the modes that pop frames.
LEMMA GoesPushes ==
    ASSUME TypeInv, NEW k, NEW q, NEW fr, Goes(k, q, fr), decrementStacks' = decrementStacks \o fr
    PROVE  /\ Pushes(fr)
           /\ mode \in {"all", "overflow"} => (fr # << >> <=> q.pc = "ended" /\ q.answer = "allowed")
<1>0. mode \in Modes4
  BY ModeFacts
<1>1. CASE Waits(k, q, fr) \/ Rolls(k, q, fr)
  BY <1>1 DEF Waits, Rolls, Pushes
<1>2. CASE Finishes(k, q, fr)
  <2>1. CASE mode = "all" /\ q.answer = "allowed" /\ Allowed(k.got) = Layers /\ fr = << Layers >>
    <3>1. IsFrame(Layers) /\ Layers \in SUBSET Layers /\ fr # << >>
      BY <2>1 DEF IsFrame
    <3> QED BY <1>2, <2>1, <3>1 DEF Pushes, Finishes
  <2>2. CASE /\ mode \in {"overflow", "first-available"} /\ q.answer = "allowed"
             /\ \E l \in Allowed(k.got) : fr = << {l} >>
    <3>1. PICK l \in Allowed(k.got) : fr = << {l} >>
      BY <2>2
    <3>2. l \in Layers
      BY DEF Allowed
    <3>3. IsFrame({l}) /\ {l} \in SUBSET Layers /\ fr # << >>
      BY <2>2, <3>1, <3>2 DEF IsFrame
    <3> QED BY <1>2, <2>2, <3>1, <3>3 DEF Pushes, Finishes
  <2>3. CASE mode = "race" /\ q.first \in Layers /\ fr = << {q.first} >>
    <3>1. IsFrame({q.first}) /\ {q.first} \in SUBSET Layers
      BY <2>3 DEF IsFrame
    <3> QED BY <2>3, <3>1 DEF Pushes
  <2>4. CASE q.answer \in {"blocked", "threw"} /\ fr = << >>
    BY <2>4 DEF Pushes
  <2> QED BY <1>2, <2>1, <2>2, <2>3, <2>4 DEF Finishes
<1> QED BY <1>1, <1>2 DEF Goes

LEMMA RolledBackPushes ==
    ASSUME TypeInv, NEW k, NEW q, NEW l, NEW fr, Shape(k), RolledBack(k, q, l, fr),
           decrementStacks' = decrementStacks \o fr
    PROVE  /\ Pushes(fr)
           /\ mode \in {"all", "overflow"} => fr = << >> /\ q.answer # "allowed"
<1>1. CASE mode = "race" /\ fr = << {k.first} >>
  <2>1. k.first \in Layers
    BY <1>1 DEF RolledBack, Shape
  <2>2. IsFrame({k.first}) /\ {k.first} \in SUBSET Layers
    BY <1>1, <2>1 DEF IsFrame
  <2> QED BY <1>1, <2>2 DEF Pushes
<1>2. CASE fr = << >>
  BY <1>2 DEF Pushes, RolledBack, Shape
<1> QED BY <1>1, <1>2 DEF RolledBack, Shape

\* decrement() pops the last frame, if there is one.
LEMMA Popped ==
    ASSUME TypeInv, FrameInv, mode' = mode, NEW c \in Callers, Decrement(c)
    PROVE  /\ FrameInv' /\ decrementStacks' \in Seq(SUBSET Layers)
           /\ mode \in {"all", "overflow"} /\ Len(decrementStacks) > 0 =>
                 Len(decrementStacks') = Len(decrementStacks) - 1
<1>0. decrementStacks \in Seq(SUBSET Layers)
  BY DEF TypeInv
<1>1. CASE mode = "first-available" \/ decrementStacks = << >>
  <2>1. decrementStacks' = decrementStacks
    BY <1>1 DEF Decrement
  <2> QED BY <1>0, <1>1, <2>1 DEF FrameInv, IsFrame
<1>2. CASE ~(mode = "first-available" \/ decrementStacks = << >>)
  <2>1. PICK s : s = decrementStacks
    OBVIOUS
  <2>2. PICK t : t = decrementStacks'
    OBVIOUS
  <2>3. s \in Seq(SUBSET Layers) /\ s # << >> /\ t = SubSeq(s, 1, Len(s) - 1)
    BY <1>0, <1>2, <2>1, <2>2 DEF Decrement
  <2>4. /\ t \in Seq(SUBSET Layers) /\ Len(t) = Len(s) - 1
        /\ \A i \in 1..Len(t) : i \in 1..Len(s) /\ t[i] = s[i]
    <3>1. Len(s) \in Nat /\ Len(s) >= 1
      BY <2>3
    <3>2. PICK n \in Nat : n = Len(s) - 1
      BY <3>1
    <3>3. t = SubSeq(s, 1, n) /\ n \in 0..Len(s)
      BY <2>3, <3>1, <3>2
    <3>4. \A i \in 1..n : i \in 1..Len(s) /\ s[i] \in SUBSET Layers
      BY <2>3, <3>1, <3>2
    <3>5. t = [i \in 1..n |-> s[i]]
      BY <2>3, <3>3
    <3>6. t \in Seq(SUBSET Layers) /\ Len(t) = n
      BY <3>4, <3>5
    <3> QED BY <3>2, <3>4, <3>5, <3>6
  <2>5. \A i \in 1..Len(t) : IsFrame(t[i])
    BY <2>1, <2>4 DEF FrameInv
  <2>6. FrameInv'
    BY <2>2, <2>5 DEF FrameInv, IsFrame
  <2> QED BY <2>1, <2>2, <2>4, <2>6
<1> QED BY <1>1, <1>2

-----------------------------------------------------------------------------
(* The shape, the frames and the types are an invariant                    *)

LEMMA DecrementedTypes ==
    ASSUME TypeInv, NEW c \in Callers, NEW l \in Layers, Decremented(c, l)
    PROVE  /\ hits' \in [Layers -> Nat] /\ holds' \in [Callers -> SUBSET Layers] /\ errors' \in Nat
           /\ ("reset" \in faults' <=> "reset" \in faults)
<1>1. hits \in [Layers -> Nat] /\ holds \in [Callers -> SUBSET Layers] /\ errors \in Nat /\ hits[l] \in Nat
  BY DEF TypeInv
<1>2. CASE /\ hits' = [hits EXCEPT ![l] = IF @ > 0 THEN @ - 1 ELSE 0]
           /\ holds' = [holds EXCEPT ![c] = @ \ {l}]
           /\ UNCHANGED <<errors, faults>>
  BY <1>1, <1>2
<1>3. CASE /\ errors + resets < MaxEvents /\ errors' = errors + 1
           /\ faults' = faults \union {"leftBehind"}
           /\ UNCHANGED <<hits, holds>>
  BY <1>1, <1>3
<1> QED BY <1>2, <1>3 DEF Decremented

LEMMA CountedTypes ==
    ASSUME TypeInv, NEW c \in Callers, NEW l \in Layers,
           hits' = [hits EXCEPT ![l] = @ + 1], holds' = [holds EXCEPT ![c] = @ \union {l}]
    PROVE  hits' \in [Layers -> Nat] /\ holds' \in [Callers -> SUBSET Layers]
BY DEF TypeInv

LEMMA ComposedInit == Init => ComposedInv
<1> SUFFICES ASSUME Init PROVE ComposedInv
  OBVIOUS
<1>1. Idle \in CallRec
  BY LayerFacts DEF Idle, CallRec, Pcs, Gots
<1>2. TypeInv
  BY <1>1, LayerFacts DEF Init, TypeInv
<1>3. Shape(Idle)
  BY DEF Shape, Idle
<1>4. ShapeInv /\ FrameInv /\ ResetInv
  BY <1>3 DEF Init, ShapeInv, FrameInv, ResetInv
<1> QED BY <1>2, <1>4 DEF ComposedInv

\* The parts of the state that no call changes.
Settings == mode' = mode /\ rollbackOnBlock' = rollbackOnBlock /\ resetting' = resetting /\ resets' = resets

LEMMA CallMoves ==
    ASSUME ComposedInv, Settings, NEW c \in Callers, NEW q, Becomes(c, q), Shape(q),
           hits' \in [Layers -> Nat], holds' \in [Callers -> SUBSET Layers], errors' \in Nat,
           firstAvailableWinner' \in 0..NumLayers, decrementStacks' \in Seq(SUBSET Layers), FrameInv',
           "reset" \in faults' <=> "reset" \in faults
    PROVE  ComposedInv'
<1>1. ShapeInv'
  BY ShapeMoves DEF ComposedInv, Settings
<1>2. TypeInv'
  BY Elsewhere DEF ComposedInv, TypeInv, Settings
<1>3. ResetInv'
  BY DEF ComposedInv, ResetInv, Settings
<1> QED BY <1>1, <1>2, <1>3 DEF ComposedInv

LEMMA ComposedCall ==
    ASSUME ComposedInv, NEW c \in Callers,
           \/ Increment(c) \/ RaceTimeout(c) \/ RollbackStep(c)
           \/ Decrement(c) \/ RollbackDraft(c) \/ UndoStep(c)
           \/ \E l \in Layers : LayerAnswers(c, l) \/ LayerRejects(c, l) \/ LateHit(c, l)
    PROVE  ComposedInv'
<1>0. /\ TypeInv /\ ShapeInv /\ FrameInv /\ Shape(call[c])
      /\ hits \in [Layers -> Nat] /\ holds \in [Callers -> SUBSET Layers] /\ errors \in Nat
      /\ firstAvailableWinner \in 0..NumLayers /\ decrementStacks \in Seq(SUBSET Layers)
      /\ 0 \in 0..NumLayers
  BY LayerFacts DEF ComposedInv, ShapeInv, TypeInv
<1>1. Settings
  BY DEF Settings, Increment, RaceTimeout, RollbackStep, Decrement, RollbackDraft, UndoStep,
         LayerAnswers, LayerRejects, LateHit
<1>2. ASSUME decrementStacks' = decrementStacks PROVE FrameInv'
  BY <1>0, <1>1, <1>2 DEF FrameInv, IsFrame, Settings
<1>3. CASE Increment(c)
  <2>1. PICK q : Becomes(c, q) /\ Begun(call[c], q)
    BY <1>3, IncrementDoes
  <2>2. UNCHANGED <<hits, decrementStacks, firstAvailableWinner, holds, errors, faults>>
    BY <1>3 DEF Increment
  <2> QED BY <1>0, <1>1, <1>2, <2>1, <2>2, ShapeOfNew, CallMoves
<1>4. CASE RaceTimeout(c)
  <2>1. PICK q : Becomes(c, q) /\ GaveUp(call[c], q)
    BY <1>4, RaceTimeoutDoes
  <2>2. UNCHANGED <<hits, decrementStacks, firstAvailableWinner, holds, errors, faults>>
    BY <1>4 DEF RaceTimeout
  <2> QED BY <1>0, <1>1, <1>2, <2>1, <2>2, ShapeOfNew, CallMoves
<1>5. CASE RollbackStep(c)
  <2>1. PICK q : \E l \in Layers : \E fr \in Seq(SUBSET Layers) :
           /\ Becomes(c, q) /\ RolledBack(call[c], q, l, fr) /\ Decremented(c, l)
           /\ decrementStacks' = decrementStacks \o fr
           /\ firstAvailableWinner' = firstAvailableWinner
    BY <1>5, RollbackDoes
  <2>2. PICK l \in Layers, fr \in Seq(SUBSET Layers) :
           /\ Becomes(c, q) /\ RolledBack(call[c], q, l, fr) /\ Decremented(c, l)
           /\ decrementStacks' = decrementStacks \o fr
           /\ firstAvailableWinner' = firstAvailableWinner
    BY <2>1
  <2>3. Shape(q) /\ Pushes(fr)
    BY <1>0, <2>2, ShapeOfRolledBack, RolledBackPushes
  <2>4. FrameInv' /\ decrementStacks' \in Seq(SUBSET Layers)
    BY <1>0, <1>1, <2>3, PushedFrames DEF Settings
  <2>5. /\ hits' \in [Layers -> Nat] /\ holds' \in [Callers -> SUBSET Layers] /\ errors' \in Nat
        /\ ("reset" \in faults' <=> "reset" \in faults)
    BY <1>0, <2>2, DecrementedTypes
  <2> QED BY <1>0, <1>1, <2>2, <2>3, <2>4, <2>5, CallMoves
<1>6. CASE Decrement(c)
  <2>1. PICK q : Becomes(c, q) /\ Undoes(call[c], q)
    BY <1>6, DecrementDoes
  <2>2. /\ UNCHANGED <<hits, holds, errors>> /\ firstAvailableWinner' = 0
        /\ ("reset" \in faults' <=> "reset" \in faults)
    BY <1>6 DEF Decrement
  <2>3. FrameInv' /\ decrementStacks' \in Seq(SUBSET Layers)
    BY <1>0, <1>1, <1>6, Popped DEF Settings
  <2> QED BY <1>0, <1>1, <2>1, <2>2, <2>3, ShapeOfUndoes, CallMoves
<1>7. CASE RollbackDraft(c)
  <2>1. PICK q : Becomes(c, q) /\ Drafted(call[c], q)
    BY <1>7, RollbackDraftDoes
  <2>2. UNCHANGED <<hits, decrementStacks, firstAvailableWinner, holds, errors, faults>>
    BY <1>7 DEF RollbackDraft
  <2> QED BY <1>0, <1>1, <1>2, <2>1, <2>2, ShapeOfDrafted, CallMoves
<1>8. CASE UndoStep(c)
  <2>1. PICK q : \E l \in Layers : Becomes(c, q) /\ Undid(call[c], q, l) /\ Decremented(c, l)
    BY <1>8, UndoDoes
  <2>2. PICK l \in Layers : Becomes(c, q) /\ Undid(call[c], q, l) /\ Decremented(c, l)
    BY <2>1
  <2>3. Shape(q)
    BY <1>0, <2>2, ShapeOfUndid
  <2>4. UNCHANGED <<decrementStacks, firstAvailableWinner>>
    BY <1>8 DEF UndoStep
  <2>5. /\ hits' \in [Layers -> Nat] /\ holds' \in [Callers -> SUBSET Layers] /\ errors' \in Nat
        /\ ("reset" \in faults' <=> "reset" \in faults)
    BY <1>0, <2>2, DecrementedTypes
  <2> QED BY <1>0, <1>1, <1>2, <2>2, <2>3, <2>4, <2>5, CallMoves
<1>9. ASSUME NEW l \in Layers, NEW v \in Answers,
             call[c].pc = "increment", call[c].got[l] = "asked",
             Resume(c, After([call[c] EXCEPT !.got[l] = v], l)),
             hits' \in [Layers -> Nat], holds' \in [Callers -> SUBSET Layers], errors' \in Nat,
             faults' = faults
      PROVE  ComposedInv'
  <2>1. PICK q, k1 : \E fr \in Seq(SUBSET Layers) :
              /\ Becomes(c, q) /\ Told(call[c], k1, l, v) /\ Goes(k1, q, fr)
              /\ decrementStacks' = decrementStacks \o fr
              /\ firstAvailableWinner' \in 0..NumLayers
    BY <1>9, LayerDoes
  <2>2. PICK fr \in Seq(SUBSET Layers) :
              /\ Becomes(c, q) /\ Told(call[c], k1, l, v) /\ Goes(k1, q, fr)
              /\ decrementStacks' = decrementStacks \o fr
              /\ firstAvailableWinner' \in 0..NumLayers
    BY <2>1
  <2>3. Shape(q) /\ Pushes(fr)
    BY <1>0, <2>2, ShapeOfGoes, GoesPushes
  <2>4. FrameInv' /\ decrementStacks' \in Seq(SUBSET Layers)
    BY <1>0, <1>1, <2>3, PushedFrames DEF Settings
  <2> QED BY <1>0, <1>1, <1>9, <2>2, <2>3, <2>4, CallMoves
<1>10. ASSUME NEW l \in Layers, LayerAnswers(c, l) PROVE ComposedInv'
  <2>1. PICK v : v = IF hits[l] + 1 > Cap[l] THEN "blocked" ELSE "allowed"
    OBVIOUS
  <2>2. v \in Answers
    BY <2>1 DEF Answers
  <2>3. hits' \in [Layers -> Nat] /\ holds' \in [Callers -> SUBSET Layers]
    BY <1>0, <1>10, CountedTypes DEF LayerAnswers
  <2>4. /\ call[c].pc = "increment" /\ call[c].got[l] = "asked" /\ errors' = errors /\ faults' = faults
        /\ Resume(c, After([call[c] EXCEPT !.got[l] = v], l))
    BY <1>10, <2>1 DEF LayerAnswers
  <2> QED BY <1>0, <1>9, <2>2, <2>3, <2>4
<1>11. ASSUME NEW l \in Layers, LayerRejects(c, l) PROVE ComposedInv'
  <2>2. PICK v \in Answers : v = "rejected"
    BY DEF Answers
  <2>3. hits' \in [Layers -> Nat] /\ holds' \in [Callers -> SUBSET Layers]
    BY <1>0, <1>11, CountedTypes DEF LayerRejects
  <2>4. /\ call[c].pc = "increment" /\ call[c].got[l] = "asked" /\ errors' \in Nat /\ faults' = faults
        /\ Resume(c, After([call[c] EXCEPT !.got[l] = v], l))
    BY <1>0, <1>11, <2>2 DEF LayerRejects
  <2> QED BY <1>0, <1>9, <2>2, <2>3, <2>4
<1>12. ASSUME NEW l \in Layers, LateHit(c, l) PROVE ComposedInv'
  <2>1. PICK q : Becomes(c, q) /\ WasLate(call[c], q)
    BY <1>12, LateHitDoes
  <2>2. UNCHANGED <<decrementStacks, firstAvailableWinner, errors>> /\ ("reset" \in faults' <=> "reset" \in faults)
    BY <1>12 DEF LateHit
  <2>3. hits' \in [Layers -> Nat] /\ holds' \in [Callers -> SUBSET Layers]
    BY <1>0, <1>12, CountedTypes DEF LateHit
  <2> QED BY <1>0, <1>1, <1>2, <2>1, <2>2, <2>3, ShapeOfNew, CallMoves
<1> QED BY <1>3, <1>4, <1>5, <1>6, <1>7, <1>8, <1>10, <1>11, <1>12

LEMMA ComposedReset ==
    ASSUME ComposedInv, Reset \/ ResetAll \/ (\E l \in Layers : ResetLayer(l)) \/ UNCHANGED vars
    PROVE  ComposedInv'
<1>0. TypeInv /\ ShapeInv /\ FrameInv /\ ResetInv
  BY DEF ComposedInv
<1>1. mode' = mode /\ rollbackOnBlock' = rollbackOnBlock /\ call' = call
  BY DEF Reset, ResetAll, ResetLayer, vars
<1>2. ShapeInv'
  BY <1>0, <1>1 DEF ShapeInv, Shape, InTurn, Allowed, Blocked
<1>3. FrameInv'
  <2>1. decrementStacks' = decrementStacks \/ decrementStacks' = << >>
    BY DEF Reset, ResetAll, ResetLayer, vars
  <2> QED BY <1>0, <1>1, <2>1 DEF FrameInv, IsFrame
<1>4. TypeInv'
  <2>1. CASE Reset
    BY <1>0, <2>1, LayerFacts DEF Reset, TypeInv
  <2>2. CASE ResetAll
    BY <1>0, <2>2 DEF ResetAll, TypeInv
  <2>3. ASSUME NEW l \in Layers, ResetLayer(l) PROVE TypeInv'
    BY <1>0, <2>3 DEF ResetLayer, TypeInv
  <2>4. CASE UNCHANGED vars
    BY <1>0, <2>4 DEF vars, TypeInv
  <2> QED BY <2>1, <2>2, <2>3, <2>4
<1>5. ResetInv'
  <2>1. CASE Reset
    BY <1>0, <2>1 DEF Reset, ResetInv, TypeInv
  <2>2. CASE ResetAll
    BY <1>0, <2>2 DEF ResetAll, ResetInv, TypeInv
  <2>3. ASSUME NEW l \in Layers, ResetLayer(l) PROVE ResetInv'
    BY <1>0, <2>3 DEF ResetLayer, ResetInv
  <2>4. CASE UNCHANGED vars
    BY <1>0, <2>4 DEF vars, ResetInv
  <2> QED BY <2>1, <2>2, <2>3, <2>4
<1> QED BY <1>2, <1>3, <1>4, <1>5 DEF ComposedInv

LEMMA ComposedStep == ComposedInv /\ [Next]_vars => ComposedInv'
BY ComposedCall, ComposedReset DEF Next

-----------------------------------------------------------------------------
(* One frame for every admitted call                                       *)

IsAdmitted(k) == k.answer = "allowed" /\ k.pc = "ended"

LEMMA AdmittedMoves ==
    ASSUME TypeInv, NEW c \in Callers, NEW q, Becomes(c, q)
    PROVE  /\ Cardinality(Admitted) \in Nat
           /\ Cardinality(Admitted') = Cardinality(Admitted)
                 + (IF IsAdmitted(q) THEN 1 ELSE 0) - (IF IsAdmitted(call[c]) THEN 1 ELSE 0)
           /\ IsAdmitted(call[c]) => Cardinality(Admitted) > 0
<1>0. IsFiniteSet(Callers)
  BY ComposedAssumption
<1>1. PICK A : A = Admitted
  OBVIOUS
<1>2. PICK B : B = Admitted'
  OBVIOUS
<1>3. A \subseteq Callers /\ IsFiniteSet(A) /\ Cardinality(A) \in Nat /\ (c \in A <=> IsAdmitted(call[c]))
  <2>1. A \subseteq Callers /\ (c \in A <=> IsAdmitted(call[c]))
    BY <1>1 DEF Admitted, IsAdmitted
  <2> QED BY <1>0, <2>1, FS_Subset, FS_CardinalityType
<1>4. B = IF IsAdmitted(q) THEN A \union {c} ELSE A \ {c}
  BY <1>1, <1>2, Elsewhere DEF Admitted, IsAdmitted
<1>5. /\ Cardinality(A \union {c}) = IF c \in A THEN Cardinality(A) ELSE Cardinality(A) + 1
      /\ Cardinality(A \ {c}) = IF c \in A THEN Cardinality(A) - 1 ELSE Cardinality(A)
  BY <1>3, FS_AddElement, FS_RemoveElement
<1>6. c \in A => Cardinality(A) > 0
  BY <1>3, FS_EmptySet
<1> QED BY <1>1, <1>2, <1>3, <1>4, <1>5, <1>6

\* A step pushes a frame for the call that it admits, or leaves frames and admissions.
LEMMA FramesMove ==
    ASSUME ComposedInv, Settings, FramesMatchAdmissions, NEW c \in Callers, NEW q, Becomes(c, q),
           NEW fr, Pushes(fr), ~ IsAdmitted(call[c]),
           mode \in {"all", "overflow"} => (fr # << >> <=> IsAdmitted(q))
    PROVE  FramesMatchAdmissions'
<1>0. TypeInv /\ FrameInv
  BY DEF ComposedInv
<1>1. SUFFICES ASSUME mode \in {"all", "overflow"}, resets = 0
               PROVE  Len(decrementStacks') = Cardinality(Admitted')
  BY DEF FramesMatchAdmissions, Settings
<1>2. Len(decrementStacks) = Cardinality(Admitted)
  BY <1>1 DEF FramesMatchAdmissions
<1>3. Len(decrementStacks') = Len(decrementStacks) + (IF fr = << >> THEN 0 ELSE 1)
  BY <1>0, PushedFrames DEF Settings
<1>4. /\ Cardinality(Admitted) \in Nat
      /\ Cardinality(Admitted') = Cardinality(Admitted) + (IF IsAdmitted(q) THEN 1 ELSE 0) - 0
  BY <1>0, AdmittedMoves
<1>5. fr # << >> <=> IsAdmitted(q)
  BY <1>1
<1>6. CASE IsAdmitted(q)
  BY <1>2, <1>3, <1>4, <1>5, <1>6
<1>7. CASE ~ IsAdmitted(q)
  BY <1>2, <1>3, <1>4, <1>5, <1>7
<1> QED BY <1>6, <1>7

LEMMA FramesStay ==
    ASSUME ComposedInv, Settings, FramesMatchAdmissions, NEW c \in Callers, NEW q, Becomes(c, q),
           decrementStacks' = decrementStacks, ~ IsAdmitted(call[c]), ~ IsAdmitted(q)
    PROVE  FramesMatchAdmissions'
<1>1. decrementStacks \o << >> = decrementStacks
  BY DEF ComposedInv, TypeInv
<1>2. Pushes(<< >>)
  BY <1>1 DEF Pushes
<1> QED BY <1>2, FramesMove

LEMMA FramesCall ==
    ASSUME ComposedInv, FramesMatchAdmissions, NEW c \in Callers,
           \/ Increment(c) \/ RaceTimeout(c) \/ RollbackStep(c)
           \/ Decrement(c) \/ RollbackDraft(c) \/ UndoStep(c)
           \/ \E l \in Layers : LayerAnswers(c, l) \/ LayerRejects(c, l) \/ LateHit(c, l)
    PROVE  FramesMatchAdmissions'
<1>0. TypeInv /\ FrameInv /\ Shape(call[c])
  BY DEF ComposedInv, ShapeInv
<1>1. Settings
  BY DEF Settings, Increment, RaceTimeout, RollbackStep, Decrement, RollbackDraft, UndoStep,
         LayerAnswers, LayerRejects, LateHit
<1>3. CASE Increment(c)
  <2>1. PICK q : Becomes(c, q) /\ Begun(call[c], q)
    BY <1>3, IncrementDoes
  <2>2. ~ IsAdmitted(call[c]) /\ ~ IsAdmitted(q) /\ decrementStacks' = decrementStacks
    BY <1>3, <2>1 DEF Begun, IsAdmitted, Increment
  <2> QED BY <1>1, <2>1, <2>2, FramesStay
<1>4. CASE RaceTimeout(c)
  <2>1. PICK q : Becomes(c, q) /\ GaveUp(call[c], q)
    BY <1>4, RaceTimeoutDoes
  <2>2. ~ IsAdmitted(call[c]) /\ ~ IsAdmitted(q) /\ decrementStacks' = decrementStacks
    BY <1>4, <2>1 DEF GaveUp, IsAdmitted, RaceTimeout
  <2> QED BY <1>1, <2>1, <2>2, FramesStay
<1>5. CASE RollbackStep(c)
  <2>1. PICK q : \E l \in Layers : \E fr \in Seq(SUBSET Layers) :
           /\ Becomes(c, q) /\ RolledBack(call[c], q, l, fr) /\ Decremented(c, l)
           /\ decrementStacks' = decrementStacks \o fr
    BY <1>5, RollbackDoes
  <2>2. PICK l \in Layers, fr \in Seq(SUBSET Layers) :
           /\ Becomes(c, q) /\ RolledBack(call[c], q, l, fr)
           /\ decrementStacks' = decrementStacks \o fr
    BY <2>1
  <2>3. Pushes(fr) /\ (mode \in {"all", "overflow"} => fr = << >> /\ ~ IsAdmitted(q))
    BY <1>0, <2>2, RolledBackPushes DEF IsAdmitted
  <2>4. ~ IsAdmitted(call[c])
    BY <2>2 DEF RolledBack, IsAdmitted
  <2> QED BY <1>1, <2>2, <2>3, <2>4, FramesMove
<1>6. CASE Decrement(c)
  <2>1. PICK q : Becomes(c, q) /\ Undoes(call[c], q)
    BY <1>6, DecrementDoes
  <2>2. IsAdmitted(call[c]) /\ ~ IsAdmitted(q)
    BY <2>1 DEF Undoes, IsAdmitted
  <2>3. SUFFICES ASSUME mode \in {"all", "overflow"}, resets = 0
                 PROVE  Len(decrementStacks') = Cardinality(Admitted')
    BY <1>1 DEF FramesMatchAdmissions, Settings
  <2>4. Len(decrementStacks) = Cardinality(Admitted)
    BY <2>3 DEF FramesMatchAdmissions
  <2>5. /\ Cardinality(Admitted) \in Nat /\ Cardinality(Admitted) > 0
        /\ Cardinality(Admitted') = Cardinality(Admitted) + 0 - 1
    BY <1>0, <2>1, <2>2, AdmittedMoves
  <2>6. Len(decrementStacks') = Len(decrementStacks) - 1
    BY <1>0, <1>1, <1>6, <2>3, <2>4, <2>5, Popped DEF Settings
  <2> QED BY <2>4, <2>5, <2>6
<1>7. CASE RollbackDraft(c)
  <2>1. PICK q : Becomes(c, q) /\ Drafted(call[c], q)
    BY <1>7, RollbackDraftDoes
  <2>2. ~ IsAdmitted(call[c]) /\ ~ IsAdmitted(q) /\ decrementStacks' = decrementStacks
    BY <1>7, <2>1 DEF Drafted, IsAdmitted, RollbackDraft
  <2> QED BY <1>1, <2>1, <2>2, FramesStay
<1>8. CASE UndoStep(c)
  <2>1. PICK q : \E l \in Layers : Becomes(c, q) /\ Undid(call[c], q, l) /\ Decremented(c, l)
    BY <1>8, UndoDoes
  <2>2. Becomes(c, q) /\ ~ IsAdmitted(call[c]) /\ ~ IsAdmitted(q) /\ decrementStacks' = decrementStacks
    BY <1>8, <2>1 DEF Undid, IsAdmitted, UndoStep
  <2> QED BY <1>1, <2>2, FramesStay
<1>9. ASSUME NEW l \in Layers, NEW v \in Answers,
             call[c].pc = "increment", call[c].got[l] = "asked",
             Resume(c, After([call[c] EXCEPT !.got[l] = v], l))
      PROVE  FramesMatchAdmissions'
  <2>1. PICK q, k1 : \E fr \in Seq(SUBSET Layers) :
              /\ Becomes(c, q) /\ Told(call[c], k1, l, v) /\ Goes(k1, q, fr)
              /\ decrementStacks' = decrementStacks \o fr
    BY <1>9, LayerDoes
  <2>2. PICK fr \in Seq(SUBSET Layers) :
              /\ Becomes(c, q) /\ Goes(k1, q, fr)
              /\ decrementStacks' = decrementStacks \o fr
    BY <2>1
  <2>3. Pushes(fr) /\ (mode \in {"all", "overflow"} => (fr # << >> <=> IsAdmitted(q)))
    BY <1>0, <2>2, GoesPushes DEF IsAdmitted
  <2>4. ~ IsAdmitted(call[c])
    BY <1>9 DEF IsAdmitted
  <2> QED BY <1>1, <2>2, <2>3, <2>4, FramesMove
<1>10. ASSUME NEW l \in Layers, LayerAnswers(c, l) PROVE FramesMatchAdmissions'
  <2>1. PICK v \in Answers : v = IF hits[l] + 1 > Cap[l] THEN "blocked" ELSE "allowed"
    BY DEF Answers
  <2>2. /\ call[c].pc = "increment" /\ call[c].got[l] = "asked"
        /\ Resume(c, After([call[c] EXCEPT !.got[l] = v], l))
    BY <1>10, <2>1 DEF LayerAnswers
  <2> QED BY <1>9, <2>2
<1>11. ASSUME NEW l \in Layers, LayerRejects(c, l) PROVE FramesMatchAdmissions'
  <2>1. PICK v \in Answers : v = "rejected"
    BY DEF Answers
  <2>2. /\ call[c].pc = "increment" /\ call[c].got[l] = "asked"
        /\ Resume(c, After([call[c] EXCEPT !.got[l] = v], l))
    BY <1>11, <2>1 DEF LayerRejects
  <2> QED BY <1>9, <2>2
<1>12. ASSUME NEW l \in Layers, LateHit(c, l) PROVE FramesMatchAdmissions'
  <2>1. PICK q : Becomes(c, q) /\ WasLate(call[c], q)
    BY <1>12, LateHitDoes
  <2>2. ~ IsAdmitted(call[c]) /\ ~ IsAdmitted(q) /\ decrementStacks' = decrementStacks
    BY <1>12, <2>1 DEF WasLate, IsAdmitted, LateHit
  <2> QED BY <1>1, <2>1, <2>2, FramesStay
<1> QED BY <1>3, <1>4, <1>5, <1>6, <1>7, <1>8, <1>10, <1>11, <1>12

LEMMA FramesStep == ComposedInv /\ FramesMatchAdmissions /\ [Next]_vars => FramesMatchAdmissions'
<1> SUFFICES ASSUME ComposedInv, FramesMatchAdmissions, [Next]_vars PROVE FramesMatchAdmissions'
  OBVIOUS
<1>1. CASE Reset \/ ResetAll
  <2>1. resets' # 0
    BY <1>1 DEF ComposedInv, TypeInv, Reset, ResetAll
  <2> QED BY <2>1 DEF FramesMatchAdmissions
<1>2. CASE (\E l \in Layers : ResetLayer(l)) \/ UNCHANGED vars
  <2>1. UNCHANGED <<mode, resets, call, decrementStacks>>
    BY <1>2 DEF ResetLayer, vars
  <2> QED BY <2>1 DEF FramesMatchAdmissions, Admitted
<1> QED BY <1>1, <1>2, FramesCall DEF Next

\* In the modes that pop frames (all and overflow), as long as no reset() has run, there is
\* exactly one frame on the stack for every admitted increment that has not been undone: no
\* interleaving of increments, rollbacks and decrements loses a frame or leaves one behind.
THEOREM FramesExact == Spec => []FramesMatchAdmissions
<1>1. Init => FramesMatchAdmissions
  <2> SUFFICES ASSUME Init PROVE FramesMatchAdmissions
    OBVIOUS
  <2>1. Admitted = {} /\ decrementStacks = << >>
    BY DEF Init, Admitted, Idle
  <2> QED BY <2>1, FS_EmptySet DEF FramesMatchAdmissions
<1> QED BY <1>1, ComposedInit, ComposedStep, FramesStep, PTL DEF Spec

-----------------------------------------------------------------------------
(* Where the hits of a call are counted                                    *)

\* The layers that keep the hit of a call that is undone.
Left(k) == IF mode # "all" THEN Blocked(k.got)
           ELSE IF k.answer = "blocked" /\ ~ rollbackOnBlock THEN Allowed(k.got) ELSE {}

\* The winner of a race that was admitted.
Won(k) == IF k.answer = "allowed" THEN {k.first} ELSE {}

\* The layers that count the hit of the call k, at every point of the call.
Held(k) ==
    IF k.pc = "idle" THEN {}
    ELSE IF k.pc = "increment" THEN Taken(k.got)
    ELSE IF k.pc = "rollback"
    THEN Blocked(k.got) \union k.todo \union (IF mode = "race" THEN Won(k) ELSE {})
    ELSE IF k.pc = "undo" THEN Left(k) \union k.todo
    ELSE IF k.pc = "undone" THEN Left(k)
    ELSE IF mode = "all" /\ k.answer = "blocked" /\ rollbackOnBlock THEN Blocked(k.got)
    ELSE IF mode = "race" THEN Blocked(k.got) \union Won(k)
    ELSE Taken(k.got)

HeldAll(h, cs) == \A c \in Callers :
    h[c] = Held(cs[c]) /\ (cs[c].pc = "undo" => cs[c].todo \cap Left(cs[c]) = {})

HeldInv == faults = {} /\ errors = 0 => HeldAll(holds, call)

\* The call of c becomes q, and its hits are where they are said to be.
LEMMA HeldMoves ==
    ASSUME ComposedInv, Settings, HeldAll(holds, call), NEW c \in Callers, NEW q, Becomes(c, q),
           NEW h, holds' = [holds EXCEPT ![c] = h], h = Held(q),
           q.pc = "undo" => q.todo \cap Left(q) = {}
    PROVE  HeldInv'
<1>1. holds \in [Callers -> SUBSET Layers] /\ TypeInv
  BY DEF ComposedInv, TypeInv
<1>2. PICK hh : hh = holds'
  OBVIOUS
<1>3. PICK cs : cs = call'
  OBVIOUS
<1>4. HeldAll(hh, cs)
  BY <1>1, <1>2, <1>3, Elsewhere DEF HeldAll
<1>5. HeldAll(hh, cs) = HeldAll(hh, cs)'
  BY DEF HeldAll, Held, Left, Won, Taken, Blocked, Allowed, Settings
<1> QED BY <1>2, <1>3, <1>4, <1>5 DEF HeldInv

LEMMA HeldGoes ==
    ASSUME TypeInv, NEW k, NEW q, NEW fr, Goes(k, q, fr)
    PROVE  Held(q) = Taken(k.got) /\ q.pc # "undo"
<1>0. mode \in Modes4
  BY ModeFacts
<1>1. CASE Waits(k, q, fr)
  BY <1>1 DEF Waits, Held, Taken
<1>2. CASE Rolls(k, q, fr)
  <2>1. q.pc = "rollback" /\ q.got = k.got
    BY <1>2 DEF Rolls
  <2>2. Held(q) = Blocked(k.got) \union q.todo \union (IF mode = "race" THEN Won(q) ELSE {})
    BY <2>1 DEF Held
  <2>3. CASE mode = "all" /\ q.todo = Allowed(k.got)
    BY <2>1, <2>2, <2>3 DEF Taken
  <2>4. CASE /\ mode = "race" /\ q.first \in Layers /\ q.answer = k.got[q.first]
             /\ q.answer \in {"allowed", "blocked"} /\ q.todo = Allowed(k.got) \ {q.first}
    <3>1. q.answer = "allowed" <=> q.first \in Allowed(k.got)
      BY <2>4 DEF Allowed
    <3>2. Held(q) = Blocked(k.got) \union (Allowed(k.got) \ {q.first}) \union Won(q)
      BY <2>2, <2>4
    <3> QED BY <2>1, <3>1, <3>2 DEF Won, Taken
  <2> QED BY <1>2, <2>3, <2>4 DEF Rolls
<1>3. CASE Finishes(k, q, fr)
  <2>1. q.pc = "ended" /\ q.got = k.got
    BY <1>3 DEF Finishes
  <2>2. Held(q) = IF mode = "all" /\ q.answer = "blocked" /\ rollbackOnBlock THEN Blocked(k.got)
                  ELSE IF mode = "race" THEN Blocked(k.got) \union Won(q) ELSE Taken(k.got)
    BY <2>1 DEF Held
  <2>3. CASE mode # "race" /\ q.answer = "allowed"
    BY <2>1, <2>2, <2>3
  <2>4. CASE /\ mode = "race" /\ q.first \in Layers /\ q.answer = k.got[q.first]
             /\ q.answer \in {"allowed", "blocked"} /\ Allowed(k.got) \subseteq {q.first}
    <3>1. q.answer = "allowed" <=> q.first \in Allowed(k.got)
      BY <2>4 DEF Allowed
    <3>2. Held(q) = Blocked(k.got) \union Won(q)
      BY <2>2, <2>4
    <3> QED BY <2>1, <2>4, <3>1, <3>2 DEF Won, Taken
  <2>5. CASE /\ q.answer \in {"blocked", "threw"} /\ fr = << >>
             /\ mode = "all" => q.answer = "blocked" /\ (rollbackOnBlock => Allowed(k.got) = {})
             /\ mode = "race" => Taken(k.got) = {}
    <3>1. Won(q) = {}
      BY <2>5 DEF Won
    <3> QED BY <2>1, <2>2, <2>5, <3>1 DEF Taken
  <2> QED BY <1>3, <2>3, <2>4, <2>5 DEF Finishes
<1> QED BY <1>1, <1>2, <1>3 DEF Goes

\* A decrement that did not fail took the hit of c from layer l.
LEMMA TakenBack ==
    ASSUME NEW c \in Callers, NEW l \in Layers, Decremented(c, l), faults' = {}, errors' = 0,
           TypeInv
    PROVE  holds' = [holds EXCEPT ![c] = holds[c] \ {l}] /\ faults = {} /\ errors = 0
<1>1. errors \in Nat /\ holds \in [Callers -> SUBSET Layers]
  BY DEF TypeInv
<1> QED BY <1>1 DEF Decremented

LEMMA HeldCall ==
    ASSUME ComposedInv, HeldInv, NEW c \in Callers,
           \/ Increment(c) \/ RaceTimeout(c) \/ RollbackStep(c)
           \/ Decrement(c) \/ RollbackDraft(c) \/ UndoStep(c)
           \/ \E l \in Layers : LayerAnswers(c, l) \/ LayerRejects(c, l) \/ LateHit(c, l)
    PROVE  HeldInv'
<1>0. /\ TypeInv /\ FrameInv /\ Shape(call[c]) /\ call[c] \in CallRec /\ errors \in Nat
      /\ holds \in [Callers -> SUBSET Layers] /\ mode \in Modes4
  BY CallTypes, ModeFacts DEF ComposedInv, ShapeInv, TypeInv
<1>1. Settings
  BY DEF Settings, Increment, RaceTimeout, RollbackStep, Decrement, RollbackDraft, UndoStep,
         LayerAnswers, LayerRejects, LateHit
<1> SUFFICES ASSUME faults' = {}, errors' = 0 PROVE HeldInv'
  BY DEF HeldInv
<1>2. ASSUME UNCHANGED holds PROVE holds' = [holds EXCEPT ![c] = holds[c]]
  BY <1>0, <1>2
<1>3. ASSUME faults = {}, errors = 0
      PROVE  /\ HeldAll(holds, call) /\ holds[c] = Held(call[c])
             /\ call[c].pc = "undo" => call[c].todo \cap Left(call[c]) = {}
  BY <1>3 DEF HeldInv, HeldAll
<1>4. CASE Increment(c)
  <2>1. PICK q : Becomes(c, q) /\ Begun(call[c], q)
    BY <1>4, IncrementDoes
  <2>2. holds' = [holds EXCEPT ![c] = holds[c]] /\ faults = {} /\ errors = 0
    BY <1>2, <1>4 DEF Increment
  <2>3. Held(call[c]) = {} /\ Held(q) = {} /\ q.pc # "undo"
    BY <2>1 DEF Begun, Held, Taken
  <2> QED BY <1>1, <1>3, <2>1, <2>2, <2>3, HeldMoves
<1>5. CASE RaceTimeout(c)
  <2>1. PICK q : Becomes(c, q) /\ GaveUp(call[c], q)
    BY <1>5, RaceTimeoutDoes
  <2>2. holds' = [holds EXCEPT ![c] = holds[c]] /\ faults = {} /\ errors = 0
    BY <1>2, <1>5 DEF RaceTimeout
  <2>3. Held(call[c]) = {} /\ Held(q) = {} /\ q.pc # "undo"
    BY <2>1 DEF GaveUp, Held, Taken, Won
  <2> QED BY <1>1, <1>3, <2>1, <2>2, <2>3, HeldMoves
<1>6. CASE RollbackStep(c)
  <2>1. PICK q : \E l \in Layers : \E fr \in Seq(SUBSET Layers) :
           /\ Becomes(c, q) /\ RolledBack(call[c], q, l, fr) /\ Decremented(c, l)
           /\ decrementStacks' = decrementStacks \o fr
    BY <1>6, RollbackDoes
  <2>2. PICK l \in Layers, fr \in Seq(SUBSET Layers) :
           Becomes(c, q) /\ RolledBack(call[c], q, l, fr) /\ Decremented(c, l)
    BY <2>1
  <2>3. holds' = [holds EXCEPT ![c] = holds[c] \ {l}] /\ faults = {} /\ errors = 0
    BY <1>0, <2>2, TakenBack
  <2>4. PICK k : k = call[c]
    OBVIOUS
  <2>5. /\ k.pc = "rollback" /\ l \in k.todo /\ q.todo = k.todo \ {l} /\ q.got = k.got
        /\ q.first = k.first /\ q.answer = k.answer /\ k.todo \subseteq Allowed(k.got)
        /\ (q.pc = "rollback" \/ (q.pc = "ended" /\ q.todo = {}))
    BY <1>0, <2>2, <2>4 DEF RolledBack, Shape
  <2>6. \/ mode = "all" /\ k.answer = "blocked" /\ rollbackOnBlock
        \/ mode = "race" /\ k.first \notin k.todo
    BY <1>0, <2>4, <2>5 DEF Shape
  <2>7. l \notin Blocked(k.got) /\ Won(q) = Won(k)
    BY <2>5 DEF Allowed, Blocked, Won
  <2>8. Held(k) = Blocked(k.got) \union k.todo \union (IF mode = "race" THEN Won(k) ELSE {})
    BY <2>5 DEF Held
  <2>9. Held(q) = Blocked(k.got) \union q.todo \union (IF mode = "race" THEN Won(k) ELSE {})
    BY <2>5, <2>6, <2>7 DEF Held
  <2>10. mode = "race" => l \notin Won(k)
    BY <2>5, <2>6 DEF Won
  <2>11. Held(q) = holds[c] \ {l} /\ q.pc # "undo"
    BY <1>3, <2>3, <2>4, <2>5, <2>7, <2>8, <2>9, <2>10
  <2> QED BY <1>1, <1>3, <2>2, <2>3, <2>11, HeldMoves
<1>7. CASE Decrement(c)
  <2>1. PICK q : Becomes(c, q) /\ Undoes(call[c], q)
    BY <1>7, DecrementDoes
  <2>2. /\ holds' = [holds EXCEPT ![c] = holds[c]] /\ faults = {} /\ errors = 0
        /\ FrameToUndo = OwnFrame(c)
    BY <1>2, <1>7 DEF Decrement
  <2>3. PICK k : k = call[c]
    OBVIOUS
  <2>4. /\ k.pc = "ended" /\ k.answer = "allowed" /\ q.got = k.got /\ q.first = k.first /\ q.answer = "allowed"
        /\ q.todo = (IF mode = "race" THEN {k.first} ELSE Allowed(k.got))
        /\ mode = "all" => Allowed(k.got) = Layers
        /\ mode = "race" => k.first \in Allowed(k.got)
        /\ Allowed(k.got) # {}
    BY <1>0, <2>1, <2>2, <2>3 DEF Undoes, OwnFrame, Shape
  <2>5. q.pc = "undo"
    BY <2>1, <2>4 DEF Undoes
  <2>6. Left(q) = IF mode # "all" THEN Blocked(k.got) ELSE {}
    BY <2>4 DEF Left
  <2>7. Allowed(k.got) \cap Blocked(k.got) = {} /\ Blocked(k.got) \subseteq Layers
    BY DEF Allowed, Blocked
  <2>8. Held(q) = Left(q) \union q.todo
    BY <2>5 DEF Held
  <2>9. Held(k) = IF mode = "race" THEN Blocked(k.got) \union {k.first} ELSE Taken(k.got)
    BY <2>4 DEF Held, Won
  <2>10. Held(q) = Held(k) /\ q.todo \cap Left(q) = {}
    BY <2>4, <2>6, <2>7, <2>8, <2>9 DEF Taken
  <2> QED BY <1>1, <1>3, <2>1, <2>2, <2>3, <2>10, HeldMoves
<1>8. CASE RollbackDraft(c)
  <2>1. PICK q : Becomes(c, q) /\ Drafted(call[c], q)
    BY <1>8, RollbackDraftDoes
  <2>2. holds' = [holds EXCEPT ![c] = holds[c]] /\ faults = {} /\ errors = 0
    BY <1>2, <1>8 DEF RollbackDraft
  <2>3. Held(q) = Held(call[c]) /\ q.todo \cap Left(q) = {}
    BY <2>1 DEF Drafted, Held, Left, Taken, Allowed, Blocked
  <2> QED BY <1>1, <1>3, <2>1, <2>2, <2>3, HeldMoves
<1>9. CASE UndoStep(c)
  <2>1. PICK q : \E l \in Layers : Becomes(c, q) /\ Undid(call[c], q, l) /\ Decremented(c, l)
    BY <1>9, UndoDoes
  <2>2. PICK l \in Layers : Becomes(c, q) /\ Undid(call[c], q, l) /\ Decremented(c, l)
    BY <2>1
  <2>3. holds' = [holds EXCEPT ![c] = holds[c] \ {l}] /\ faults = {} /\ errors = 0
    BY <1>0, <2>2, TakenBack
  <2>4. PICK k : k = call[c]
    OBVIOUS
  <2>5. /\ k.pc = "undo" /\ l \in k.todo /\ q.todo = k.todo \ {l} /\ q.got = k.got /\ q.answer = k.answer
        /\ q.pc = IF q.todo = {} THEN "undone" ELSE "undo"
    BY <2>2, <2>4 DEF Undid
  <2>6. Left(q) = Left(k)
    BY <2>5 DEF Left
  <2>7. k.todo \cap Left(k) = {} /\ holds[c] = Left(k) \union k.todo
    BY <1>3, <2>3, <2>4, <2>5 DEF Held
  <2>8. Held(q) = Left(k) \union q.todo
    BY <2>5, <2>6 DEF Held
  <2>9. Held(q) = holds[c] \ {l} /\ q.todo \cap Left(q) = {}
    BY <2>5, <2>6, <2>7, <2>8
  <2> QED BY <1>1, <1>3, <2>2, <2>3, <2>9, HeldMoves
<1>10. ASSUME NEW l \in Layers, LayerAnswers(c, l) PROVE HeldInv'
  <2>1. PICK v \in {"allowed", "blocked"} : v = IF hits[l] + 1 > Cap[l] THEN "blocked" ELSE "allowed"
    OBVIOUS
  <2>2. /\ call[c].pc = "increment" /\ call[c].got[l] = "asked" /\ v \in Answers
        /\ Resume(c, After([call[c] EXCEPT !.got[l] = v], l))
        /\ holds' = [holds EXCEPT ![c] = holds[c] \union {l}] /\ faults = {} /\ errors = 0
    BY <1>10, <2>1 DEF LayerAnswers, Answers
  <2>3. PICK q, k1 : \E fr \in Seq(SUBSET Layers) :
              Becomes(c, q) /\ Told(call[c], k1, l, v) /\ Goes(k1, q, fr)
    BY <2>2, LayerDoes
  <2>4. PICK fr \in Seq(SUBSET Layers) :
              Becomes(c, q) /\ Told(call[c], k1, l, v) /\ Goes(k1, q, fr)
    BY <2>3
  <2>5. Held(q) = Taken(k1.got) /\ q.pc # "undo"
    BY <1>0, <2>4, HeldGoes
  <2>6. k1.got = [call[c].got EXCEPT ![l] = v] /\ call[c].got \in [Layers -> Gots]
    BY <1>0, <2>4 DEF Told, CallRec
  <2>7. Taken(k1.got) = Taken(call[c].got) \union {l}
    BY <2>1, <2>6 DEF Taken, Allowed, Blocked
  <2>8. holds[c] = Taken(call[c].got)
    BY <1>3, <2>2 DEF Held
  <2> QED BY <1>1, <1>3, <2>2, <2>4, <2>5, <2>7, <2>8, HeldMoves
<1>11. ASSUME NEW l \in Layers, LayerRejects(c, l) PROVE HeldInv'
  BY <1>0, <1>11 DEF LayerRejects
<1>12. ASSUME NEW l \in Layers, LateHit(c, l) PROVE HeldInv'
  BY <1>12 DEF LateHit
<1> QED BY <1>4, <1>5, <1>6, <1>7, <1>8, <1>9, <1>10, <1>11, <1>12

LEMMA HeldStep == ComposedInv /\ HeldInv /\ [Next]_vars => HeldInv'
<1> SUFFICES ASSUME ComposedInv, HeldInv, [Next]_vars PROVE HeldInv'
  OBVIOUS
<1>1. CASE Reset \/ ResetAll
  <2>1. faults' # {}
    BY <1>1 DEF Reset, ResetAll
  <2> QED BY <2>1 DEF HeldInv
<1>2. ASSUME NEW l \in Layers, ResetLayer(l) PROVE HeldInv'
  <2>1. "reset" \in faults' /\ faults' = faults
    BY <1>2 DEF ResetLayer, ComposedInv, ResetInv
  <2> QED BY <2>1 DEF HeldInv
<1>3. CASE UNCHANGED vars
  BY <1>3 DEF HeldInv, HeldAll, Held, Left, Won, Taken, Blocked, Allowed, vars
<1> QED BY <1>1, <1>2, <1>3, HeldCall DEF Next

LEMMA HeldBelongs == ComposedInv /\ HeldInv => HitsWhereTheyBelong
<1> SUFFICES ASSUME ComposedInv, HeldInv, faults = {}, errors = 0, NEW c \in Callers,
                    call[c].pc \in {"ended", "undone"}
             PROVE  holds[c] = Belongs(c)
  BY DEF HitsWhereTheyBelong
<1>1. holds[c] = Held(call[c])
  BY DEF HeldInv, HeldAll
<1>2. PICK k : k = call[c]
  OBVIOUS
<1>3. Taken(k.got) = {l \in Layers : k.got[l] \in {"allowed", "blocked"}}
  BY DEF Taken, Allowed, Blocked
<1> QED BY <1>1, <1>2, <1>3 DEF Held, Belongs, Left, Won, Blocked

\* As long as no store fails, no race is given up, no reset() runs and no decrement() is given
\* another call's frame, a call that is over has its hit counted in exactly the layers that its
\* mode says: rollbacks and decrements, however interleaved, give back what was taken and
\* nothing else.
THEOREM HitsPlaced == Spec => []HitsWhereTheyBelong
<1>1. Init => HeldInv
  BY DEF Init, HeldInv, HeldAll, Held, Idle
<1> QED BY <1>1, ComposedInit, ComposedStep, HeldStep, HeldBelongs, PTL DEF Spec

-----------------------------------------------------------------------------
(* The places that admitted hits fill, in the modes other than "all"        *)

\* The layers in which a call holds a place, which a decrement of this call will give back.
Claims(k) ==
    IF k.pc = "increment" THEN Allowed(k.got)
    ELSE IF k.pc = "rollback" THEN k.todo \union Won(k)
    ELSE IF k.pc = "ended"
    THEN IF k.answer # "allowed" THEN {} ELSE IF mode = "race" THEN {k.first} ELSE Allowed(k.got)
    ELSE IF k.pc = "undo" THEN k.todo ELSE {}

AllClaims(cs) == {x \in Callers \X Layers : x[2] \in Claims(cs[x[1]])}

\* The places up to each layer's cap that its hits fill.
Filled(h) == {x \in Places : x[2] <= h[x[1]]}

ClaimInv == mode # "all" /\ "reset" \notin faults => Cardinality(AllClaims(call)) <= Cardinality(Filled(hits))

LEMMA PlacesFinite ==
    /\ IsFiniteSet(Places)
    /\ \A x : x \in Places <=> \E l \in Layers : \E i \in 1..Cap[l] : x = <<l, i>>
<1> DEFINE P(l) == {l} \X (1..Cap[l])
           Ps == {P(l) : l \in Layers}
<1>1. ASSUME NEW l \in Layers PROVE IsFiniteSet(P(l))
  <2>1. Cap[l] \in Nat /\ IsFiniteSet({l})
    BY LayerFacts, FS_Singleton
  <2>2. IsFiniteSet(1..Cap[l])
    BY <2>1, FS_Interval
  <2> QED BY <2>1, <2>2, FS_Product
<1>2. IsFiniteSet(Ps)
  <2> DEFINE f == [l \in Layers |-> P(l)]
  <2>1. f \in Surjection(Layers, Ps)
    BY DEF Surjection
  <2> QED BY <2>1, LayerFacts, FS_Surjection
<1>3. IsFiniteSet(UNION Ps)
  BY <1>1, <1>2, FS_UNION
<1>4. Places = UNION Ps
  BY DEF Places
<1>5. \A x : x \in UNION Ps <=> \E l \in Layers : \E i \in 1..Cap[l] : x = <<l, i>>
  OBVIOUS
<1> QED BY <1>3, <1>4, <1>5

LEMMA FilledFinite ==
    ASSUME NEW h
    PROVE  /\ IsFiniteSet(Filled(h)) /\ Cardinality(Filled(h)) \in Nat
           /\ Cardinality(Filled(h)) <= Cardinality(Places) /\ Cardinality(Places) \in Nat
<1>1. Filled(h) \in SUBSET Places
  BY DEF Filled
<1>2. PICK F : F = Filled(h)
  OBVIOUS
<1>3. IsFiniteSet(F) /\ Cardinality(F) <= Cardinality(Places)
  BY <1>1, <1>2, PlacesFinite, FS_Subset
<1> QED BY <1>2, <1>3, PlacesFinite, FS_CardinalityType

LEMMA FilledIs ==
    ASSUME NEW h, NEW x
    PROVE  x \in Filled(h) <=> \E l \in Layers : \E i \in 1..Cap[l] : x = <<l, i>> /\ i <= h[l]
<1>1. ASSUME x \in Filled(h) PROVE \E l \in Layers : \E i \in 1..Cap[l] : x = <<l, i>> /\ i <= h[l]
  <2>1. x \in Places /\ x[2] <= h[x[1]]
    BY <1>1 DEF Filled
  <2>2. PICK l \in Layers, i \in Nat : i \in 1..Cap[l] /\ x = <<l, i>>
    BY <2>1, PlacesFinite
  <2> QED BY <2>1, <2>2
<1>2. ASSUME NEW l \in Layers, NEW i \in 1..Cap[l], x = <<l, i>>, i <= h[l] PROVE x \in Filled(h)
  BY <1>2, PlacesFinite DEF Filled
<1> QED BY <1>1, <1>2

LEMMA FilledGrows ==
    ASSUME NEW h \in [Layers -> Nat], NEW g \in [Layers -> Nat], \A l \in Layers : h[l] <= g[l]
    PROVE  Cardinality(Filled(h)) <= Cardinality(Filled(g))
<1>1. ASSUME NEW x \in Filled(h) PROVE x \in Filled(g)
  <2>1. PICK l \in Layers, i \in Nat : i \in 1..Cap[l] /\ x = <<l, i>> /\ i <= h[l]
    BY FilledIs
  <2>2. i \in Nat /\ h[l] \in Nat /\ g[l] \in Nat /\ h[l] <= g[l]
    BY LayerFacts
  <2>3. i <= g[l]
    BY <2>1, <2>2
  <2> QED BY <2>1, <2>3, FilledIs
<1>2. Filled(h) \in SUBSET Filled(g)
  BY <1>1
<1>3. IsFiniteSet(Filled(g))
  BY FilledFinite
<1> QED BY <1>2, <1>3, FS_Subset

\* A hit within the cap fills one more place.
LEMMA FilledGains ==
    ASSUME NEW h \in [Layers -> Nat], NEW l \in Layers, h[l] + 1 <= Cap[l],
           NEW g, g = [h EXCEPT ![l] = h[l] + 1]
    PROVE  Cardinality(Filled(g)) >= Cardinality(Filled(h)) + 1
<1>1. PICK p : p = <<l, h[l] + 1>>
  OBVIOUS
<1>2. h[l] \in Nat /\ Cap[l] \in Nat /\ h[l] + 1 \in 1..Cap[l] /\ g[l] = h[l] + 1
      /\ \A x \in Layers : x # l => g[x] = h[x]
  BY LayerFacts
<1>3. p \in Filled(g)
  <2>1. h[l] + 1 <= g[l]
    BY <1>2
  <2> QED BY <1>1, <1>2, <2>1, FilledIs
<1>4. p \notin Filled(h)
  <2>1. SUFFICES ASSUME p \in Filled(h) PROVE FALSE
    OBVIOUS
  <2>2. PICK x \in Layers, i \in Nat : i \in 1..Cap[x] /\ p = <<x, i>> /\ i <= h[x]
    BY <2>1, FilledIs
  <2>3. x = l /\ i = h[l] + 1
    BY <1>1, <2>2
  <2> QED BY <1>2, <2>2, <2>3
<1>5. ASSUME NEW y \in Filled(h) PROVE y \in Filled(g)
  <2>1. PICK x \in Layers, i \in Nat : i \in 1..Cap[x] /\ y = <<x, i>> /\ i <= h[x]
    BY FilledIs
  <2>2. i \in Nat /\ h[x] \in Nat
    BY LayerFacts
  <2>3. i <= g[x]
    BY <1>2, <2>1, <2>2
  <2> QED BY <2>1, <2>3, FilledIs
<1>6. PICK F : F = Filled(h)
  OBVIOUS
<1>7. PICK G : G = Filled(g)
  OBVIOUS
<1>8. IsFiniteSet(F) /\ IsFiniteSet(G) /\ Cardinality(F) \in Nat /\ Cardinality(G) \in Nat
  BY <1>6, <1>7, FilledFinite
<1>9. F \union {p} \in SUBSET G /\ p \notin F
  BY <1>3, <1>4, <1>5, <1>6, <1>7
<1>10. Cardinality(F \union {p}) = Cardinality(F) + 1 /\ Cardinality(F \union {p}) <= Cardinality(G)
  BY <1>8, <1>9, FS_AddElement, FS_Subset
<1> QED BY <1>6, <1>7, <1>8, <1>10

\* A decrement empties one place at most.
LEMMA FilledLoses ==
    ASSUME NEW h \in [Layers -> Nat], NEW l \in Layers,
           NEW g, g = [h EXCEPT ![l] = IF h[l] > 0 THEN h[l] - 1 ELSE 0]
    PROVE  Cardinality(Filled(g)) + 1 >= Cardinality(Filled(h))
<1>1. PICK p : p = <<l, h[l]>>
  OBVIOUS
<1>2. /\ h[l] \in Nat /\ g[l] \in Nat /\ \A i \in Nat : i <= h[l] /\ i # h[l] => i <= g[l]
      /\ \A x \in Layers : x # l => g[x] = h[x]
  OBVIOUS
<1>3. ASSUME NEW y \in Filled(h), y # p PROVE y \in Filled(g)
  <2>1. PICK x \in Layers, i \in Nat : i \in 1..Cap[x] /\ y = <<x, i>> /\ i <= h[x]
    BY FilledIs
  <2>2. i \in Nat
    BY LayerFacts
  <2>3. i <= g[x]
    BY <1>1, <1>2, <1>3, <2>1, <2>2
  <2> QED BY <2>1, <2>3, FilledIs
<1>6. PICK F : F = Filled(h)
  OBVIOUS
<1>7. PICK G : G = Filled(g)
  OBVIOUS
<1>8. IsFiniteSet(F) /\ IsFiniteSet(G) /\ Cardinality(F) \in Nat /\ Cardinality(G) \in Nat
  BY <1>6, <1>7, FilledFinite
<1>9. F \in SUBSET (G \union {p})
  BY <1>3, <1>6, <1>7
<1>10. /\ IsFiniteSet(G \union {p})
       /\ Cardinality(G \union {p}) = (IF p \in G THEN Cardinality(G) ELSE Cardinality(G) + 1)
  BY <1>8, FS_AddElement
<1>11. Cardinality(F) <= Cardinality(G \union {p})
  BY <1>9, <1>10, FS_Subset
<1> QED BY <1>6, <1>7, <1>8, <1>10, <1>11

-----------------------------------------------------------------------------
(* The claims                                                              *)

LEMMA ClaimsFinite ==
    ASSUME NEW cs
    PROVE  IsFiniteSet(AllClaims(cs)) /\ Cardinality(AllClaims(cs)) \in Nat
<1>1. IsFiniteSet(Callers \X Layers)
  BY ComposedAssumption, LayerFacts, FS_Product
<1>2. PICK A : A = AllClaims(cs)
  OBVIOUS
<1>3. A \in SUBSET (Callers \X Layers)
  BY <1>2 DEF AllClaims
<1> QED BY <1>1, <1>2, <1>3, FS_Subset, FS_CardinalityType

\* The claims after call c becomes q.
LEMMA ClaimsMove ==
    ASSUME TypeInv, NEW c \in Callers, NEW q, Becomes(c, q), NEW x
    PROVE  x \in AllClaims(call') <=>
              \/ x \in AllClaims(call) /\ x[1] # c
              \/ \E l \in Layers : l \in Claims(q) /\ x = <<c, l>>
<1>1. PICK cs : cs = call'
  OBVIOUS
<1>2. cs[c] = q /\ \A d \in Callers : d # c => cs[d] = call[d]
  BY <1>1, Elsewhere
<1>3. ASSUME x \in AllClaims(cs)
      PROVE  \/ x \in AllClaims(call) /\ x[1] # c
             \/ \E l \in Layers : l \in Claims(q) /\ x = <<c, l>>
  <2>1. PICK d \in Callers, l \in Layers : x = <<d, l>> /\ l \in Claims(cs[d])
    BY <1>3 DEF AllClaims
  <2>2. CASE d = c
    BY <1>2, <2>1, <2>2
  <2>3. CASE d # c
    BY <1>2, <2>1, <2>3 DEF AllClaims
  <2> QED BY <2>2, <2>3
<1>4. ASSUME x \in AllClaims(call), x[1] # c PROVE x \in AllClaims(cs)
  <2>1. PICK d \in Callers, l \in Layers : x = <<d, l>> /\ l \in Claims(call[d])
    BY <1>4 DEF AllClaims
  <2>2. cs[d] = call[d]
    BY <1>2, <1>4, <2>1
  <2> QED BY <2>1, <2>2 DEF AllClaims
<1>5. ASSUME NEW l \in Layers, l \in Claims(q), x = <<c, l>> PROVE x \in AllClaims(cs)
  BY <1>2, <1>5 DEF AllClaims
<1> QED BY <1>1, <1>3, <1>4, <1>5

\* The call makes no claim that it did not have, but perhaps that of l.
LEMMA ClaimsGain ==
    ASSUME TypeInv, NEW c \in Callers, NEW q, Becomes(c, q), NEW l, Claims(q) \subseteq Claims(call[c]) \union {l}
    PROVE  Cardinality(AllClaims(call')) <= Cardinality(AllClaims(call)) + 1
<1>1. PICK A : A = AllClaims(call)
  OBVIOUS
<1>2. PICK B : B = AllClaims(call')
  OBVIOUS
<1>3. ASSUME NEW x \in B PROVE x \in A \union {<<c, l>>}
  <2>1. CASE x \in AllClaims(call)
    BY <1>1, <2>1
  <2>2. ASSUME NEW y \in Layers, y \in Claims(q), x = <<c, y>> PROVE x \in A \union {<<c, l>>}
    BY <1>1, <2>2 DEF AllClaims
  <2> QED BY <1>2, <2>1, <2>2, ClaimsMove
<1>4. IsFiniteSet(A) /\ Cardinality(A) \in Nat /\ Cardinality(B) \in Nat
  BY <1>1, <1>2, ClaimsFinite
<1>5. PICK p : p = <<c, l>>
  OBVIOUS
<1>6. /\ IsFiniteSet(A \union {p})
      /\ Cardinality(A \union {p}) = (IF p \in A THEN Cardinality(A) ELSE Cardinality(A) + 1)
  BY <1>4, FS_AddElement
<1>7. Cardinality(B) <= Cardinality(A \union {p})
  BY <1>3, <1>5, <1>6, FS_Subset
<1> QED BY <1>1, <1>2, <1>4, <1>6, <1>7

LEMMA ClaimsKeep ==
    ASSUME TypeInv, NEW c \in Callers, NEW q, Becomes(c, q), Claims(q) \subseteq Claims(call[c])
    PROVE  Cardinality(AllClaims(call')) <= Cardinality(AllClaims(call))
<1>1. PICK A : A = AllClaims(call)
  OBVIOUS
<1>2. PICK B : B = AllClaims(call')
  OBVIOUS
<1>3. ASSUME NEW x \in B PROVE x \in A
  <2>1. CASE x \in AllClaims(call)
    BY <1>1, <2>1
  <2>2. ASSUME NEW y \in Layers, y \in Claims(q), x = <<c, y>> PROVE x \in A
    BY <1>1, <2>2 DEF AllClaims
  <2> QED BY <1>2, <2>1, <2>2, ClaimsMove
<1>4. IsFiniteSet(A)
  BY <1>1, ClaimsFinite
<1> QED BY <1>1, <1>2, <1>3, <1>4, FS_Subset

\* The call gives up its claim of l.
LEMMA ClaimsLose ==
    ASSUME TypeInv, NEW c \in Callers, NEW q, Becomes(c, q), NEW l \in Layers, l \in Claims(call[c]),
           Claims(q) \subseteq Claims(call[c]) \ {l}
    PROVE  Cardinality(AllClaims(call')) + 1 <= Cardinality(AllClaims(call))
<1>1. PICK A : A = AllClaims(call)
  OBVIOUS
<1>2. PICK B : B = AllClaims(call')
  OBVIOUS
<1>3. PICK p : p = <<c, l>>
  OBVIOUS
<1>4. ASSUME NEW x \in B PROVE x \in A \ {p}
  <2>1. CASE x \in AllClaims(call) /\ x[1] # c
    BY <1>1, <1>3, <2>1
  <2>2. ASSUME NEW y \in Layers, y \in Claims(q), x = <<c, y>> PROVE x \in A \ {p}
    BY <1>1, <1>3, <2>2 DEF AllClaims
  <2> QED BY <1>2, <2>1, <2>2, ClaimsMove
<1>5. p \in A
  BY <1>1, <1>3 DEF AllClaims
<1>6. IsFiniteSet(A) /\ Cardinality(A) \in Nat /\ Cardinality(B) \in Nat
  BY <1>1, <1>2, ClaimsFinite
<1>7. IsFiniteSet(A \ {p}) /\ Cardinality(A \ {p}) = Cardinality(A) - 1
  BY <1>5, <1>6, FS_RemoveElement
<1>8. Cardinality(B) <= Cardinality(A \ {p})
  BY <1>4, <1>7, FS_Subset
<1> QED BY <1>1, <1>2, <1>6, <1>7, <1>8

\* The call has one claim, in the place of one or more.
LEMMA ClaimsSwap ==
    ASSUME TypeInv, NEW c \in Callers, NEW q, Becomes(c, q), NEW l \in Layers, l \in Claims(call[c]),
           NEW y, Claims(q) \subseteq {y}
    PROVE  Cardinality(AllClaims(call')) <= Cardinality(AllClaims(call))
<1>1. PICK A : A = AllClaims(call)
  OBVIOUS
<1>2. PICK B : B = AllClaims(call')
  OBVIOUS
<1>3. PICK p : p = <<c, l>>
  OBVIOUS
<1>4. PICK r : r = <<c, y>>
  OBVIOUS
<1>5. ASSUME NEW x \in B PROVE x \in (A \ {p}) \union {r}
  <2>1. CASE x \in AllClaims(call) /\ x[1] # c
    BY <1>1, <1>3, <2>1
  <2>2. ASSUME NEW z \in Layers, z \in Claims(q), x = <<c, z>> PROVE x \in (A \ {p}) \union {r}
    BY <1>4, <2>2
  <2> QED BY <1>2, <2>1, <2>2, ClaimsMove
<1>6. p \in A
  BY <1>1, <1>3 DEF AllClaims
<1>7. IsFiniteSet(A) /\ Cardinality(A) \in Nat /\ Cardinality(B) \in Nat
  BY <1>1, <1>2, ClaimsFinite
<1>8. PICK D : D = A \ {p}
  OBVIOUS
<1>9. IsFiniteSet(D) /\ Cardinality(D) = Cardinality(A) - 1
  BY <1>6, <1>7, <1>8, FS_RemoveElement
<1>10. /\ IsFiniteSet(D \union {r})
       /\ Cardinality(D \union {r}) = (IF r \in D THEN Cardinality(D) ELSE Cardinality(D) + 1)
  BY <1>9, FS_AddElement
<1>11. Cardinality(B) <= Cardinality(D \union {r})
  BY <1>5, <1>8, <1>10, FS_Subset
<1> QED BY <1>1, <1>2, <1>7, <1>9, <1>10, <1>11

\* The bound on the claims moves from one state to the next.
LEMMA ClaimNext ==
    ASSUME mode' = mode, Cardinality(AllClaims(call')) <= Cardinality(Filled(hits'))
    PROVE  ClaimInv'
<1>1. PICK cs : cs = call'
  OBVIOUS
<1>2. PICK h : h = hits'
  OBVIOUS
<1>3. AllClaims(cs) = AllClaims(cs)' /\ Filled(h) = Filled(h)'
  BY DEF AllClaims, Claims, Won, Allowed, Filled, Places
<1> QED BY <1>1, <1>2, <1>3 DEF ClaimInv

LEMMA ClaimsOfGoes ==
    ASSUME TypeInv, mode # "all", NEW k, NEW q, NEW fr, Goes(k, q, fr)
    PROVE  Claims(q) \subseteq Allowed(k.got)
<1>1. CASE Waits(k, q, fr)
  BY <1>1 DEF Waits, Claims
<1>2. CASE Rolls(k, q, fr)
  BY <1>2 DEF Rolls, Claims, Won, Allowed
<1>3. CASE Finishes(k, q, fr)
  <2>1. q.pc = "ended" /\ q.got = k.got
    BY <1>3 DEF Finishes
  <2>2. Claims(q) = IF q.answer # "allowed" THEN {} ELSE IF mode = "race" THEN {q.first} ELSE Allowed(k.got)
    BY <2>1 DEF Claims
  <2>3. mode = "race" /\ q.answer = "allowed" => q.first \in Layers /\ k.got[q.first] = "allowed"
    BY <1>3 DEF Finishes
  <2> QED BY <2>2, <2>3 DEF Allowed
<1> QED BY <1>1, <1>2, <1>3 DEF Goes

\* A failing decrement leaves the hits; one that succeeds empties one place at most.
LEMMA DecrementedFills ==
    ASSUME TypeInv, NEW c \in Callers, NEW l \in Layers, Decremented(c, l)
    PROVE  Cardinality(Filled(hits')) + 1 >= Cardinality(Filled(hits))
<1>1. hits \in [Layers -> Nat]
  BY DEF TypeInv
<1>2. CASE hits' = hits
  <2>1. Cardinality(Filled(hits)) \in Nat
    BY FilledFinite
  <2> QED BY <1>2, <2>1
<1>3. CASE hits' = [hits EXCEPT ![l] = IF hits[l] > 0 THEN hits[l] - 1 ELSE 0]
  BY <1>1, <1>3, FilledLoses
<1> QED BY <1>1, <1>2, <1>3 DEF Decremented

LEMMA ClaimCall ==
    ASSUME ComposedInv, ClaimInv, mode # "all", "reset" \notin faults, NEW c \in Callers,
           \/ Increment(c) \/ RaceTimeout(c) \/ RollbackStep(c)
           \/ Decrement(c) \/ RollbackDraft(c) \/ UndoStep(c)
           \/ \E l \in Layers : LayerAnswers(c, l) \/ LayerRejects(c, l) \/ LateHit(c, l)
    PROVE  ClaimInv'
<1>0. /\ TypeInv /\ FrameInv /\ Shape(call[c]) /\ call[c] \in CallRec
      /\ call[c].got \in [Layers -> Gots] /\ hits \in [Layers -> Nat]
  BY CallTypes DEF ComposedInv, ShapeInv, TypeInv
<1>1. mode' = mode
  BY DEF Increment, RaceTimeout, RollbackStep, Decrement, RollbackDraft, UndoStep,
         LayerAnswers, LayerRejects, LateHit
<1>2. PICK A \in Nat : A = Cardinality(AllClaims(call))
  BY ClaimsFinite
<1>3. PICK B \in Nat : B = Cardinality(AllClaims(call'))
  BY ClaimsFinite
<1>4. PICK F \in Nat : F = Cardinality(Filled(hits))
  BY FilledFinite
<1>5. PICK G \in Nat : G = Cardinality(Filled(hits'))
  BY FilledFinite
<1>6. A <= F
  BY <1>2, <1>4 DEF ClaimInv
<1> SUFFICES B <= G
  BY <1>1, <1>3, <1>5, ClaimNext
<1>7. ASSUME hits' = hits PROVE G = F
  BY <1>4, <1>5, <1>7
<1>8. ASSUME NEW l \in Layers, hits' = [hits EXCEPT ![l] = hits[l] + 1] PROVE F <= G
  <2>1. hits' \in [Layers -> Nat] /\ \A x \in Layers : hits[x] <= hits'[x]
    BY <1>0, <1>8
  <2> QED BY <1>0, <1>4, <1>5, <2>1, FilledGrows
<1>9. CASE Increment(c)
  <2>1. PICK q : Becomes(c, q) /\ Begun(call[c], q)
    BY <1>9, IncrementDoes
  <2>2. Claims(q) = {} /\ hits' = hits
    BY <1>9, <2>1 DEF Begun, Claims, Increment
  <2>3. B <= A
    BY <1>0, <1>2, <1>3, <2>1, <2>2, ClaimsKeep
  <2> QED BY <1>6, <1>7, <2>2, <2>3
<1>10. CASE RaceTimeout(c)
  <2>1. PICK q : Becomes(c, q) /\ GaveUp(call[c], q)
    BY <1>10, RaceTimeoutDoes
  <2>2. Claims(q) = {} /\ hits' = hits
    BY <1>10, <2>1 DEF GaveUp, Claims, RaceTimeout
  <2>3. B <= A
    BY <1>0, <1>2, <1>3, <2>1, <2>2, ClaimsKeep
  <2> QED BY <1>6, <1>7, <2>2, <2>3
<1>11. CASE RollbackStep(c)
  <2>1. PICK q : \E l \in Layers : \E fr \in Seq(SUBSET Layers) :
           /\ Becomes(c, q) /\ RolledBack(call[c], q, l, fr) /\ Decremented(c, l)
           /\ decrementStacks' = decrementStacks \o fr
    BY <1>11, RollbackDoes
  <2>2. PICK l \in Layers, fr \in Seq(SUBSET Layers) :
           Becomes(c, q) /\ RolledBack(call[c], q, l, fr) /\ Decremented(c, l)
    BY <2>1
  <2>3. PICK k : k = call[c]
    OBVIOUS
  <2>4. /\ k.pc = "rollback" /\ l \in k.todo /\ q.todo = k.todo \ {l}
        /\ q.first = k.first /\ q.answer = k.answer
        /\ (q.pc = "rollback" \/ (q.pc = "ended" /\ q.todo = {}))
        /\ mode = "race" /\ k.first \notin k.todo
    BY <1>0, <2>2, <2>3 DEF RolledBack, Shape
  <2>5. Claims(k) = k.todo \union Won(k) /\ Claims(q) = q.todo \union Won(k) /\ l \notin Won(k)
    BY <2>4 DEF Claims, Won
  <2>6. l \in Claims(k) /\ Claims(q) \subseteq Claims(k) \ {l}
    BY <2>4, <2>5
  <2>7. B + 1 <= A
    BY <1>0, <1>2, <1>3, <2>2, <2>3, <2>6, ClaimsLose
  <2>8. G + 1 >= F
    BY <1>0, <1>4, <1>5, <2>2, DecrementedFills
  <2> QED BY <1>6, <2>7, <2>8
<1>12. CASE Decrement(c)
  <2>1. PICK q : Becomes(c, q) /\ Undoes(call[c], q)
    BY <1>12, DecrementDoes
  <2>2. hits' = hits
    BY <1>12 DEF Decrement
  <2>3. PICK k : k = call[c]
    OBVIOUS
  <2>4. k.pc = "ended" /\ k.answer = "allowed" /\ Allowed(k.got) # {} /\ (mode = "race" => k.first \in Layers)
    BY <1>0, <2>1, <2>3 DEF Undoes, Shape, Allowed
  <2>5. Claims(k) = IF mode = "race" THEN {k.first} ELSE Allowed(k.got)
    BY <2>4 DEF Claims
  <2>6. PICK l \in Layers : l \in Claims(k)
    BY <2>4, <2>5 DEF Allowed
  <2>7. \E y : Claims(q) \subseteq {y}
    BY <2>1 DEF Undoes, IsFrame, Claims
  <2>8. B <= A
    BY <1>0, <1>2, <1>3, <2>1, <2>3, <2>6, <2>7, ClaimsSwap
  <2> QED BY <1>6, <1>7, <2>2, <2>8
<1>13. CASE RollbackDraft(c)
  BY <1>13 DEF RollbackDraft
<1>14. CASE UndoStep(c)
  <2>1. PICK q : \E l \in Layers : Becomes(c, q) /\ Undid(call[c], q, l) /\ Decremented(c, l)
    BY <1>14, UndoDoes
  <2>2. PICK l \in Layers : Becomes(c, q) /\ Undid(call[c], q, l) /\ Decremented(c, l)
    BY <2>1
  <2>3. PICK k : k = call[c]
    OBVIOUS
  <2>4. /\ k.pc = "undo" /\ l \in k.todo /\ q.todo = k.todo \ {l}
        /\ q.pc = IF q.todo = {} THEN "undone" ELSE "undo"
    BY <2>2, <2>3 DEF Undid
  <2>5. Claims(k) = k.todo /\ Claims(q) \subseteq q.todo
    BY <2>4 DEF Claims
  <2>6. l \in Claims(k) /\ Claims(q) \subseteq Claims(k) \ {l}
    BY <2>4, <2>5
  <2>7. B + 1 <= A
    BY <1>0, <1>2, <1>3, <2>2, <2>3, <2>6, ClaimsLose
  <2>8. G + 1 >= F
    BY <1>0, <1>4, <1>5, <2>2, DecrementedFills
  <2> QED BY <1>6, <2>7, <2>8
<1>15. ASSUME NEW l \in Layers, LayerAnswers(c, l) PROVE B <= G
  <2>1. PICK v \in {"allowed", "blocked"} : v = IF hits[l] + 1 > Cap[l] THEN "blocked" ELSE "allowed"
    OBVIOUS
  <2>2. /\ call[c].pc = "increment" /\ call[c].got[l] = "asked" /\ v \in Answers
        /\ Resume(c, After([call[c] EXCEPT !.got[l] = v], l))
        /\ hits' = [hits EXCEPT ![l] = hits[l] + 1]
    BY <1>15, <2>1 DEF LayerAnswers, Answers
  <2>3. PICK q, k1 : \E fr \in Seq(SUBSET Layers) :
              Becomes(c, q) /\ Told(call[c], k1, l, v) /\ Goes(k1, q, fr)
    BY <2>2, LayerDoes
  <2>4. PICK fr \in Seq(SUBSET Layers) :
              Becomes(c, q) /\ Told(call[c], k1, l, v) /\ Goes(k1, q, fr)
    BY <2>3
  <2>5. Claims(q) \subseteq Allowed(k1.got)
    BY <1>0, <2>4, ClaimsOfGoes
  <2>6. k1.got = [call[c].got EXCEPT ![l] = v] /\ Claims(call[c]) = Allowed(call[c].got)
    BY <2>2, <2>4 DEF Told, Claims
  <2>7. CASE v = "allowed"
    <3>1. Allowed(k1.got) \subseteq Allowed(call[c].got) \union {l}
      BY <1>0, <2>6 DEF Allowed
    <3>2. B <= A + 1
      BY <1>0, <1>2, <1>3, <2>4, <2>5, <2>6, <3>1, ClaimsGain
    <3>3. hits[l] \in Nat /\ Cap[l] \in Nat /\ ~(hits[l] + 1 > Cap[l])
      BY <1>0, <2>1, <2>7, LayerFacts
    <3>4. hits[l] + 1 <= Cap[l]
      BY <3>3
    <3>5. G >= F + 1
      BY <1>0, <1>4, <1>5, <2>2, <3>4, FilledGains
    <3> QED BY <1>6, <3>2, <3>5
  <2>8. CASE v = "blocked"
    <3>1. Allowed(k1.got) \subseteq Allowed(call[c].got)
      BY <1>0, <2>6, <2>8 DEF Allowed
    <3>2. B <= A
      BY <1>0, <1>2, <1>3, <2>4, <2>5, <2>6, <3>1, ClaimsKeep
    <3>3. F <= G
      BY <1>8, <2>2
    <3> QED BY <1>6, <3>2, <3>3
  <2> QED BY <2>7, <2>8
<1>16. ASSUME NEW l \in Layers, LayerRejects(c, l) PROVE B <= G
  <2>1. PICK v \in Answers : v = "rejected"
    BY DEF Answers
  <2>2. /\ call[c].pc = "increment" /\ call[c].got[l] = "asked"
        /\ Resume(c, After([call[c] EXCEPT !.got[l] = v], l))
        /\ hits' = hits \/ hits' = [hits EXCEPT ![l] = hits[l] + 1]
    BY <1>16, <2>1 DEF LayerRejects
  <2>3. PICK q, k1 : \E fr \in Seq(SUBSET Layers) :
              Becomes(c, q) /\ Told(call[c], k1, l, v) /\ Goes(k1, q, fr)
    BY <2>2, LayerDoes
  <2>4. PICK fr \in Seq(SUBSET Layers) :
              Becomes(c, q) /\ Told(call[c], k1, l, v) /\ Goes(k1, q, fr)
    BY <2>3
  <2>5. Claims(q) \subseteq Allowed(k1.got)
    BY <1>0, <2>4, ClaimsOfGoes
  <2>6. k1.got = [call[c].got EXCEPT ![l] = v] /\ Claims(call[c]) = Allowed(call[c].got)
    BY <2>2, <2>4 DEF Told, Claims
  <2>7. Allowed(k1.got) \subseteq Allowed(call[c].got)
    BY <1>0, <2>1, <2>6 DEF Allowed
  <2>8. B <= A
    BY <1>0, <1>2, <1>3, <2>4, <2>5, <2>6, <2>7, ClaimsKeep
  <2>9. F <= G
    BY <1>7, <1>8, <2>2
  <2> QED BY <1>6, <2>8, <2>9
<1>17. ASSUME NEW l \in Layers, LateHit(c, l) PROVE B <= G
  <2>1. PICK q : Becomes(c, q) /\ WasLate(call[c], q)
    BY <1>17, LateHitDoes
  <2>2. Claims(q) = {} /\ hits' = [hits EXCEPT ![l] = hits[l] + 1]
    BY <1>17, <2>1 DEF WasLate, Claims, LateHit
  <2>3. B <= A /\ F <= G
    BY <1>0, <1>2, <1>3, <1>8, <2>1, <2>2, ClaimsKeep
  <2> QED BY <1>6, <2>3
<1> QED BY <1>9, <1>10, <1>11, <1>12, <1>13, <1>14, <1>15, <1>16, <1>17

LEMMA FaultsGrow ==
    ASSUME TypeInv, [Next]_vars, "reset" \in faults
    PROVE  "reset" \in faults'
BY DEF Next, vars, Increment, RaceTimeout, RollbackStep, Decrement, RollbackDraft, UndoStep, Decremented,
       LayerAnswers, LayerRejects, LateHit, Reset, ResetAll, ResetLayer

LEMMA ModeStays == [Next]_vars => mode' = mode
BY DEF Next, vars, Increment, RaceTimeout, RollbackStep, Decrement, RollbackDraft, UndoStep,
       LayerAnswers, LayerRejects, LateHit, Reset, ResetAll, ResetLayer

LEMMA ClaimStep == ComposedInv /\ ClaimInv /\ [Next]_vars => ClaimInv'
<1> SUFFICES ASSUME ComposedInv, ClaimInv, [Next]_vars, mode' # "all", "reset" \notin faults' PROVE ClaimInv'
  BY DEF ClaimInv
<1>1. TypeInv /\ mode # "all" /\ "reset" \notin faults /\ resetting = {}
  BY ModeStays, FaultsGrow DEF ComposedInv, ResetInv
<1>2. ~ Reset /\ ~ ResetAll /\ \A l \in Layers : ~ ResetLayer(l)
  BY <1>1 DEF Reset, ResetAll, ResetLayer
<1>3. CASE UNCHANGED vars
  <2>1. call' = call /\ hits' = hits /\ mode' = mode
    BY <1>3 DEF vars
  <2>2. Cardinality(AllClaims(call)) <= Cardinality(Filled(hits))
    BY <1>1 DEF ClaimInv
  <2> QED BY <2>1, <2>2, ClaimNext
<1> QED BY <1>1, <1>2, <1>3, ClaimCall DEF Next

-----------------------------------------------------------------------------
(* The hits of every layer, in mode "all"                                   *)

\* The layers whose counter has the call's hit for certain, and those that admitted it.
Counts(k) ==
    IF k.pc = "increment" THEN Taken(k.got)
    ELSE IF k.pc = "rollback" THEN Blocked(k.got) \union k.todo
    ELSE IF k.pc = "ended" THEN IF k.answer = "allowed" THEN Layers ELSE Blocked(k.got)
    ELSE IF k.pc = "undo" THEN k.todo ELSE {}

Passes(k) ==
    IF k.pc = "increment" THEN Allowed(k.got)
    ELSE IF k.pc = "ended" /\ k.answer = "allowed" THEN Layers ELSE {}

CountedAt(cs, l) == {c \in Callers : l \in Counts(cs[c])}
PassedAt(cs, l) == {c \in Callers : l \in Passes(cs[c])}

AllBound(cs, h) == \A l \in Layers :
    Cardinality(CountedAt(cs, l)) <= h[l] /\ Cardinality(PassedAt(cs, l)) <= Cap[l]

AllInv == mode = "all" /\ "reset" \notin faults => AllBound(call, hits)

LEMMA CallerSets ==
    ASSUME NEW cs, NEW l
    PROVE  /\ IsFiniteSet(CountedAt(cs, l)) /\ Cardinality(CountedAt(cs, l)) \in Nat
           /\ IsFiniteSet(PassedAt(cs, l)) /\ Cardinality(PassedAt(cs, l)) \in Nat
<1>1. PICK A : A = CountedAt(cs, l)
  OBVIOUS
<1>2. PICK B : B = PassedAt(cs, l)
  OBVIOUS
<1>3. A \in SUBSET Callers /\ B \in SUBSET Callers /\ IsFiniteSet(Callers)
  BY <1>1, <1>2, ComposedAssumption DEF CountedAt, PassedAt
<1> QED BY <1>1, <1>2, <1>3, FS_Subset, FS_CardinalityType

\* How the callers of a layer change when the call of c becomes q.
LEMMA CallersMove ==
    ASSUME TypeInv, NEW c \in Callers, NEW q, Becomes(c, q), NEW l \in Layers
    PROVE  /\ (l \in Counts(q) => l \in Counts(call[c])) =>
                 Cardinality(CountedAt(call', l)) <= Cardinality(CountedAt(call, l))
           /\ Cardinality(CountedAt(call', l)) <= Cardinality(CountedAt(call, l)) + 1
           /\ l \notin Counts(q) /\ l \in Counts(call[c]) =>
                 Cardinality(CountedAt(call', l)) + 1 <= Cardinality(CountedAt(call, l))
           /\ (l \in Passes(q) => l \in Passes(call[c])) =>
                 Cardinality(PassedAt(call', l)) <= Cardinality(PassedAt(call, l))
           /\ Cardinality(PassedAt(call', l)) <= Cardinality(PassedAt(call, l)) + 1
<1>1. PICK A : A = CountedAt(call, l)
  OBVIOUS
<1>2. PICK B : B = CountedAt(call', l)
  OBVIOUS
<1>3. PICK P : P = PassedAt(call, l)
  OBVIOUS
<1>4. PICK Q : Q = PassedAt(call', l)
  OBVIOUS
<1>5. /\ IsFiniteSet(A) /\ Cardinality(A) \in Nat /\ Cardinality(B) \in Nat
      /\ IsFiniteSet(P) /\ Cardinality(P) \in Nat /\ Cardinality(Q) \in Nat
  BY <1>1, <1>2, <1>3, <1>4, CallerSets
<1>6. B = IF l \in Counts(q) THEN A \union {c} ELSE A \ {c}
  BY <1>1, <1>2, Elsewhere DEF CountedAt
<1>7. Q = IF l \in Passes(q) THEN P \union {c} ELSE P \ {c}
  BY <1>3, <1>4, Elsewhere DEF PassedAt
<1>8. (c \in A <=> l \in Counts(call[c])) /\ (c \in P <=> l \in Passes(call[c]))
  BY <1>1, <1>3 DEF CountedAt, PassedAt
<1>9. /\ Cardinality(A \union {c}) = (IF c \in A THEN Cardinality(A) ELSE Cardinality(A) + 1)
      /\ Cardinality(A \ {c}) = (IF c \in A THEN Cardinality(A) - 1 ELSE Cardinality(A))
      /\ Cardinality(P \union {c}) = (IF c \in P THEN Cardinality(P) ELSE Cardinality(P) + 1)
      /\ Cardinality(P \ {c}) = (IF c \in P THEN Cardinality(P) - 1 ELSE Cardinality(P))
  BY <1>5, FS_AddElement, FS_RemoveElement
<1> QED BY <1>1, <1>2, <1>3, <1>4, <1>5, <1>6, <1>7, <1>8, <1>9

\* Nothing is counted or admitted that was not before, and no hit is taken back.
LEMMA BoundKept ==
    ASSUME TypeInv, AllBound(call, hits), NEW c \in Callers, NEW q, Becomes(c, q),
           Counts(q) \subseteq Counts(call[c]), Passes(q) \subseteq Passes(call[c]),
           \A l \in Layers : hits'[l] \in Nat /\ hits[l] <= hits'[l]
    PROVE  AllBound(call', hits')
<1>1. ASSUME NEW l \in Layers
      PROVE  Cardinality(CountedAt(call', l)) <= hits'[l] /\ Cardinality(PassedAt(call', l)) <= Cap[l]
  <2>1. hits[l] \in Nat /\ hits'[l] \in Nat /\ hits[l] <= hits'[l] /\ Cap[l] \in Nat
    BY LayerFacts DEF TypeInv
  <2>2. Cardinality(CountedAt(call, l)) <= hits[l] /\ Cardinality(PassedAt(call, l)) <= Cap[l]
    BY DEF AllBound
  <2>3. /\ Cardinality(CountedAt(call', l)) <= Cardinality(CountedAt(call, l))
        /\ Cardinality(PassedAt(call', l)) <= Cardinality(PassedAt(call, l))
    BY CallersMove
  <2>4. /\ Cardinality(CountedAt(call, l)) \in Nat /\ Cardinality(PassedAt(call, l)) \in Nat
        /\ Cardinality(CountedAt(call', l)) \in Nat /\ Cardinality(PassedAt(call', l)) \in Nat
    BY CallerSets
  <2> QED BY <2>1, <2>2, <2>3, <2>4
<1> QED BY <1>1 DEF AllBound

LEMMA PassedCounted ==
    ASSUME NEW l
    PROVE  Cardinality(PassedAt(call, l)) <= Cardinality(CountedAt(call, l))
<1>1. PICK A : A = CountedAt(call, l)
  OBVIOUS
<1>2. PICK P : P = PassedAt(call, l)
  OBVIOUS
<1>3. P \in SUBSET A
  BY <1>1, <1>2 DEF CountedAt, PassedAt, Counts, Passes, Taken
<1>4. IsFiniteSet(A)
  BY <1>1, CallerSets
<1> QED BY <1>1, <1>2, <1>3, <1>4, FS_Subset

\* Layer l counts a hit of c, and admits it when it is within the cap.
LEMMA BoundGains ==
    ASSUME TypeInv, AllBound(call, hits), NEW c \in Callers, NEW q, Becomes(c, q), NEW l \in Layers,
           hits' = [hits EXCEPT ![l] = hits[l] + 1],
           Counts(q) \subseteq Counts(call[c]) \union {l}, Passes(q) \subseteq Passes(call[c]) \union {l},
           l \in Passes(q) /\ l \notin Passes(call[c]) => hits[l] + 1 <= Cap[l]
    PROVE  AllBound(call', hits')
<1>1. ASSUME NEW x \in Layers
      PROVE  Cardinality(CountedAt(call', x)) <= hits'[x] /\ Cardinality(PassedAt(call', x)) <= Cap[x]
  <2>1. hits[x] \in Nat /\ hits'[x] = (IF x = l THEN hits[x] + 1 ELSE hits[x]) /\ Cap[x] \in Nat
    BY LayerFacts DEF TypeInv
  <2>2. Cardinality(CountedAt(call, x)) <= hits[x] /\ Cardinality(PassedAt(call, x)) <= Cap[x]
    BY DEF AllBound
  <2>3. /\ x # l => Cardinality(CountedAt(call', x)) <= Cardinality(CountedAt(call, x))
        /\ Cardinality(CountedAt(call', x)) <= Cardinality(CountedAt(call, x)) + 1
    BY CallersMove
  <2>4. /\ ~(x \in Passes(q) /\ x \notin Passes(call[c])) =>
              Cardinality(PassedAt(call', x)) <= Cardinality(PassedAt(call, x))
        /\ Cardinality(PassedAt(call', x)) <= Cardinality(PassedAt(call, x)) + 1
    BY CallersMove
  <2>5. /\ Cardinality(CountedAt(call, x)) \in Nat /\ Cardinality(PassedAt(call, x)) \in Nat
        /\ Cardinality(CountedAt(call', x)) \in Nat /\ Cardinality(PassedAt(call', x)) \in Nat
    BY CallerSets
  <2>6. Cardinality(CountedAt(call', x)) <= hits'[x]
    BY <2>1, <2>2, <2>3, <2>5
  <2>7. CASE ~(x \in Passes(q) /\ x \notin Passes(call[c]))
    BY <2>1, <2>2, <2>4, <2>5, <2>6, <2>7
  <2>8. CASE x \in Passes(q) /\ x \notin Passes(call[c])
    <3>1. x = l /\ hits[x] + 1 <= Cap[x]
      BY <2>8
    <3>2. Cardinality(PassedAt(call, x)) <= Cardinality(CountedAt(call, x))
      BY PassedCounted
    <3> QED BY <2>1, <2>2, <2>4, <2>5, <2>6, <3>1, <3>2
  <2> QED BY <2>7, <2>8
<1> QED BY <1>1 DEF AllBound

\* Layer l is told to give back a hit of c that it counts.
LEMMA BoundLoses ==
    ASSUME TypeInv, AllBound(call, hits), NEW c \in Callers, NEW q, Becomes(c, q), NEW l \in Layers,
           Decremented(c, l), l \in Counts(call[c]), Counts(q) \subseteq Counts(call[c]) \ {l},
           Passes(q) \subseteq Passes(call[c])
    PROVE  AllBound(call', hits')
<1>1. ASSUME NEW x \in Layers
      PROVE  Cardinality(CountedAt(call', x)) <= hits'[x] /\ Cardinality(PassedAt(call', x)) <= Cap[x]
  <2>1. hits \in [Layers -> Nat] /\ hits[x] \in Nat /\ hits[l] \in Nat /\ Cap[x] \in Nat
    BY LayerFacts DEF TypeInv
  <2>2. Cardinality(CountedAt(call, x)) <= hits[x] /\ Cardinality(PassedAt(call, x)) <= Cap[x]
    BY DEF AllBound
  <2>3. /\ x # l => hits'[x] = hits[x]
        /\ x = l => hits'[x] = hits[x] \/ (hits'[x] = IF hits[x] > 0 THEN hits[x] - 1 ELSE 0)
    BY <2>1 DEF Decremented
  <2>4. /\ Cardinality(CountedAt(call', x)) <= Cardinality(CountedAt(call, x))
        /\ x = l => Cardinality(CountedAt(call', x)) + 1 <= Cardinality(CountedAt(call, x))
        /\ Cardinality(PassedAt(call', x)) <= Cardinality(PassedAt(call, x))
    BY CallersMove
  <2>5. /\ Cardinality(CountedAt(call, x)) \in Nat /\ Cardinality(PassedAt(call, x)) \in Nat
        /\ Cardinality(CountedAt(call', x)) \in Nat /\ Cardinality(PassedAt(call', x)) \in Nat
    BY CallerSets
  <2>6. Cardinality(PassedAt(call', x)) <= Cap[x]
    BY <2>1, <2>2, <2>4, <2>5
  <2>7. Cardinality(CountedAt(call', x)) <= hits'[x]
    <3>1. CASE x # l
      BY <2>1, <2>2, <2>3, <2>4, <2>5, <3>1
    <3>2. CASE x = l
      BY <2>1, <2>2, <2>3, <2>4, <2>5, <3>2
    <3> QED BY <3>1, <3>2
  <2> QED BY <2>6, <2>7
<1> QED BY <1>1 DEF AllBound

LEMMA CountsOfGoes ==
    ASSUME TypeInv, mode = "all", NEW k, NEW q, NEW fr, Goes(k, q, fr)
    PROVE  Counts(q) \subseteq Taken(k.got) /\ Passes(q) \subseteq Allowed(k.got)
<1>1. CASE Waits(k, q, fr)
  BY <1>1 DEF Waits, Counts, Passes, Taken
<1>2. CASE Rolls(k, q, fr)
  BY <1>2 DEF Rolls, Counts, Passes, Taken
<1>3. CASE Finishes(k, q, fr)
  <2>1. q.pc = "ended" /\ q.got = k.got /\ (q.answer = "allowed" => Allowed(k.got) = Layers)
    BY <1>3 DEF Finishes
  <2> QED BY <2>1 DEF Counts, Passes, Taken
<1> QED BY <1>1, <1>2, <1>3 DEF Goes

LEMMA AllCall ==
    ASSUME ComposedInv, AllInv, mode = "all", "reset" \notin faults, NEW c \in Callers,
           \/ Increment(c) \/ RaceTimeout(c) \/ RollbackStep(c)
           \/ Decrement(c) \/ RollbackDraft(c) \/ UndoStep(c)
           \/ \E l \in Layers : LayerAnswers(c, l) \/ LayerRejects(c, l) \/ LateHit(c, l)
    PROVE  AllBound(call', hits')
<1>0. /\ TypeInv /\ FrameInv /\ Shape(call[c]) /\ call[c] \in CallRec
      /\ call[c].got \in [Layers -> Gots] /\ hits \in [Layers -> Nat] /\ AllBound(call, hits)
  BY CallTypes DEF ComposedInv, ShapeInv, TypeInv, AllInv
<1>1. PICK k : k = call[c]
  OBVIOUS
<1>2. ASSUME hits' = hits PROVE \A l \in Layers : hits'[l] \in Nat /\ hits[l] <= hits'[l]
  BY <1>0, <1>2
<1>3. CASE Increment(c)
  <2>1. PICK q : Becomes(c, q) /\ Begun(call[c], q)
    BY <1>3, IncrementDoes
  <2>2. Counts(q) = {} /\ Passes(q) = {} /\ hits' = hits
    BY <1>3, <2>1 DEF Begun, Counts, Passes, Taken, Increment
  <2> QED BY <1>0, <1>2, <2>1, <2>2, BoundKept
<1>4. CASE RollbackStep(c)
  <2>1. PICK q : \E l \in Layers : \E fr \in Seq(SUBSET Layers) :
           /\ Becomes(c, q) /\ RolledBack(call[c], q, l, fr) /\ Decremented(c, l)
           /\ decrementStacks' = decrementStacks \o fr
    BY <1>4, RollbackDoes
  <2>2. PICK l \in Layers, fr \in Seq(SUBSET Layers) :
           Becomes(c, q) /\ RolledBack(call[c], q, l, fr) /\ Decremented(c, l)
    BY <2>1
  <2>4. /\ k.pc = "rollback" /\ l \in k.todo /\ q.todo = k.todo \ {l} /\ q.got = k.got
        /\ q.answer = "blocked" /\ k.todo \subseteq Allowed(k.got)
        /\ (q.pc = "rollback" \/ (q.pc = "ended" /\ q.todo = {}))
    BY <1>0, <1>1, <2>2 DEF RolledBack, Shape
  <2>5. l \notin Blocked(k.got)
    BY <2>4 DEF Allowed, Blocked
  <2>6. /\ Counts(k) = Blocked(k.got) \union k.todo /\ Counts(q) = Blocked(k.got) \union q.todo
        /\ Passes(q) = {}
    BY <2>4 DEF Counts, Passes
  <2>7. l \in Counts(k) /\ Counts(q) \subseteq Counts(k) \ {l} /\ Passes(q) \subseteq Passes(k)
    BY <2>4, <2>5, <2>6
  <2> QED BY <1>0, <1>1, <2>2, <2>7, BoundLoses
<1>5. CASE Decrement(c)
  <2>1. PICK q : Becomes(c, q) /\ Undoes(call[c], q)
    BY <1>5, DecrementDoes
  <2>2. hits' = hits
    BY <1>5 DEF Decrement
  <2>3. Counts(call[c]) = Layers
    BY <2>1 DEF Undoes, Counts
  <2>4. FrameToUndo \subseteq Layers
    BY FrameToUndoIs
  <2>5. Counts(q) \subseteq Layers /\ Passes(q) = {}
    BY <2>1, <2>4 DEF Undoes, Counts, Passes
  <2> QED BY <1>0, <1>2, <2>1, <2>2, <2>3, <2>5, BoundKept
<1>6. CASE RollbackDraft(c)
  <2>1. PICK q : Becomes(c, q) /\ Drafted(call[c], q)
    BY <1>6, RollbackDraftDoes
  <2>2. Counts(q) = Counts(call[c]) /\ Passes(q) = {} /\ hits' = hits
    BY <1>6, <2>1 DEF Drafted, Counts, Passes, RollbackDraft
  <2> QED BY <1>0, <1>2, <2>1, <2>2, BoundKept
<1>7. CASE UndoStep(c)
  <2>1. PICK q : \E l \in Layers : Becomes(c, q) /\ Undid(call[c], q, l) /\ Decremented(c, l)
    BY <1>7, UndoDoes
  <2>2. PICK l \in Layers : Becomes(c, q) /\ Undid(call[c], q, l) /\ Decremented(c, l)
    BY <2>1
  <2>4. /\ k.pc = "undo" /\ l \in k.todo /\ q.todo = k.todo \ {l}
        /\ q.pc = IF q.todo = {} THEN "undone" ELSE "undo"
    BY <1>1, <2>2 DEF Undid
  <2>5. Counts(k) = k.todo /\ Counts(q) \subseteq q.todo /\ Passes(q) = {}
    BY <2>4 DEF Counts, Passes
  <2>6. l \in Counts(k) /\ Counts(q) \subseteq Counts(k) \ {l} /\ Passes(q) \subseteq Passes(k)
    BY <2>4, <2>5
  <2> QED BY <1>0, <1>1, <2>2, <2>6, BoundLoses
<1>8. ASSUME NEW l \in Layers, NEW v \in Answers,
             call[c].pc = "increment", call[c].got[l] = "asked",
             Resume(c, After([call[c] EXCEPT !.got[l] = v], l)),
             \/ v = "allowed" /\ hits[l] + 1 <= Cap[l] /\ hits' = [hits EXCEPT ![l] = hits[l] + 1]
             \/ v = "blocked" /\ hits' = [hits EXCEPT ![l] = hits[l] + 1]
             \/ v = "rejected" /\ hits' \in {hits, [hits EXCEPT ![l] = hits[l] + 1]}
      PROVE  AllBound(call', hits')
  <2>1. PICK q, k1 : \E fr \in Seq(SUBSET Layers) :
              Becomes(c, q) /\ Told(call[c], k1, l, v) /\ Goes(k1, q, fr)
    BY <1>8, LayerDoes
  <2>2. PICK fr \in Seq(SUBSET Layers) :
              Becomes(c, q) /\ Told(call[c], k1, l, v) /\ Goes(k1, q, fr)
    BY <2>1
  <2>3. Counts(q) \subseteq Taken(k1.got) /\ Passes(q) \subseteq Allowed(k1.got)
    BY <1>0, <2>2, CountsOfGoes
  <2>4. /\ k1.got = [call[c].got EXCEPT ![l] = v] /\ Counts(call[c]) = Taken(call[c].got)
        /\ Passes(call[c]) = Allowed(call[c].got)
    BY <1>8, <2>2 DEF Told, Counts, Passes
  <2>5. CASE v = "rejected"
    <3>1. Taken(k1.got) \subseteq Taken(call[c].got) /\ Allowed(k1.got) \subseteq Allowed(call[c].got)
      BY <1>0, <2>4, <2>5 DEF Taken, Allowed, Blocked
    <3>2. hits' \in {hits, [hits EXCEPT ![l] = hits[l] + 1]}
      BY <1>8, <2>5
    <3>3. \A x \in Layers : hits'[x] \in Nat /\ hits[x] <= hits'[x]
      BY <1>0, <3>2
    <3> QED BY <1>0, <2>2, <2>3, <2>4, <3>1, <3>3, BoundKept
  <2>6. CASE v # "rejected"
    <3>1. /\ Taken(k1.got) \subseteq Taken(call[c].got) \union {l}
          /\ Allowed(k1.got) \subseteq Allowed(call[c].got) \union {l}
      BY <1>0, <2>4, <2>6 DEF Taken, Allowed, Blocked
    <3>2. l \in Allowed(k1.got) => v = "allowed"
      BY <1>0, <2>4 DEF Allowed
    <3>3. hits' = [hits EXCEPT ![l] = hits[l] + 1] /\ (l \in Passes(q) => hits[l] + 1 <= Cap[l])
      BY <1>8, <2>3, <2>6, <3>2
    <3> QED BY <1>0, <2>2, <2>3, <2>4, <3>1, <3>3, BoundGains
  <2> QED BY <2>5, <2>6
<1>9. ASSUME NEW l \in Layers, LayerAnswers(c, l) PROVE AllBound(call', hits')
  <2>1. PICK v \in Answers : v = IF hits[l] + 1 > Cap[l] THEN "blocked" ELSE "allowed"
    BY DEF Answers
  <2>2. /\ call[c].pc = "increment" /\ call[c].got[l] = "asked"
        /\ Resume(c, After([call[c] EXCEPT !.got[l] = v], l))
        /\ hits' = [hits EXCEPT ![l] = hits[l] + 1]
    BY <1>9, <2>1 DEF LayerAnswers
  <2>3. hits[l] \in Nat /\ Cap[l] \in Nat
    BY <1>0, LayerFacts
  <2>4. (v = "allowed" /\ hits[l] + 1 <= Cap[l]) \/ v = "blocked"
    BY <2>1, <2>3
  <2> QED BY <1>8, <2>2, <2>4
<1>10. ASSUME NEW l \in Layers, LayerRejects(c, l) PROVE AllBound(call', hits')
  <2>1. PICK v \in Answers : v = "rejected"
    BY DEF Answers
  <2>2. /\ call[c].pc = "increment" /\ call[c].got[l] = "asked"
        /\ Resume(c, After([call[c] EXCEPT !.got[l] = v], l))
        /\ hits' \in {hits, [hits EXCEPT ![l] = hits[l] + 1]}
    BY <1>10, <2>1 DEF LayerRejects
  <2> QED BY <1>8, <2>1, <2>2
<1>11. ~ RaceTimeout(c) /\ \A l \in Layers : ~ LateHit(c, l)
  BY <1>0 DEF RaceTimeout, LateHit, Shape
<1> QED BY <1>3, <1>4, <1>5, <1>6, <1>7, <1>9, <1>10, <1>11

LEMMA AllStep == ComposedInv /\ AllInv /\ [Next]_vars => AllInv'
<1> SUFFICES ASSUME ComposedInv, AllInv, [Next]_vars, mode' = "all", "reset" \notin faults' PROVE AllInv'
  BY DEF AllInv
<1>1. TypeInv /\ mode = "all" /\ "reset" \notin faults /\ resetting = {}
  BY ModeStays, FaultsGrow DEF ComposedInv, ResetInv
<1>2. ~ Reset /\ ~ ResetAll /\ \A l \in Layers : ~ ResetLayer(l)
  BY <1>1 DEF Reset, ResetAll, ResetLayer
<1>3. AllBound(call', hits')
  <2>1. CASE UNCHANGED vars
    BY <1>1, <2>1 DEF vars, AllInv
  <2> QED BY <1>1, <1>2, <2>1, AllCall DEF Next
<1>4. PICK cs : cs = call'
  OBVIOUS
<1>5. PICK h : h = hits'
  OBVIOUS
<1>6. AllBound(cs, h) = AllBound(cs, h)'
  BY DEF AllBound, CountedAt, PassedAt, Counts, Passes, Taken, Allowed, Blocked
<1> QED BY <1>3, <1>4, <1>5, <1>6 DEF AllInv

-----------------------------------------------------------------------------
(* The bound on admissions                                                 *)

LEMMA AdmittedFinite == IsFiniteSet(Admitted) /\ Cardinality(Admitted) \in Nat
<1>1. Admitted \in SUBSET Callers
  BY DEF Admitted
<1> QED BY <1>1, ComposedAssumption, FS_Subset, FS_CardinalityType

LEMMA AdmittedClaims ==
    ASSUME ComposedInv, mode # "all"
    PROVE  Cardinality(Admitted) <= Cardinality(AllClaims(call))
<1>1. ASSUME NEW c \in Admitted PROVE \E l \in Layers : l \in Claims(call[c])
  <2>1. c \in Callers /\ call[c].answer = "allowed" /\ call[c].pc = "ended"
    BY DEF Admitted
  <2>2. Shape(call[c])
    BY <2>1 DEF ComposedInv, ShapeInv
  <2>3. PICK k : k = call[c]
    OBVIOUS
  <2>4. Allowed(k.got) # {} /\ Allowed(k.got) \subseteq Layers /\ (mode = "race" => k.first \in Layers)
    BY <2>1, <2>2, <2>3 DEF Shape, Allowed
  <2>5. Claims(k) = IF mode = "race" THEN {k.first} ELSE Allowed(k.got)
    BY <2>1, <2>3 DEF Claims
  <2> QED BY <2>3, <2>4, <2>5
<1> DEFINE w(c) == CHOOSE l \in Layers : l \in Claims(call[c])
           f == [c \in Admitted |-> <<c, w(c)>>]
<1>2. \A c \in Admitted : w(c) \in Layers /\ w(c) \in Claims(call[c])
  BY <1>1
<1> HIDE DEF w
<1>3. PICK A : A = AllClaims(call)
  OBVIOUS
<1>4. \A c \in Admitted : f[c] \in A
  BY <1>2, <1>3 DEF AllClaims, Admitted
<1>5. f \in Injection(Admitted, A)
  <2>1. f \in [Admitted -> A]
    BY <1>4
  <2>2. \A c, d \in Admitted : f[c] = f[d] => c = d
    OBVIOUS
  <2> QED BY <2>1, <2>2 DEF Injection, IsInjective
<1>6. IsFiniteSet(A)
  BY <1>3, ClaimsFinite
<1> HIDE DEF f
<1> QED BY <1>3, <1>5, <1>6, FS_Injection

LEMMA BoundHolds ==
    ASSUME ComposedInv, ClaimInv, AllInv
    PROVE  AdmissionBounded
<1>1. SUFFICES ASSUME "reset" \notin faults
               PROVE  Cardinality(Admitted) <= (IF mode = "all" THEN Min({Cap[l] : l \in Layers})
                                                ELSE Cardinality(Places))
  BY DEF AdmissionBounded
<1>2. CASE mode # "all"
  <2>1. Cardinality(Admitted) <= Cardinality(AllClaims(call))
    BY <1>2, AdmittedClaims
  <2>2. Cardinality(AllClaims(call)) <= Cardinality(Filled(hits))
    BY <1>1, <1>2 DEF ClaimInv
  <2>3. Cardinality(Filled(hits)) <= Cardinality(Places) /\ Cardinality(Filled(hits)) \in Nat
        /\ Cardinality(Places) \in Nat
    BY FilledFinite
  <2>4. Cardinality(Admitted) \in Nat /\ Cardinality(AllClaims(call)) \in Nat
    BY AdmittedFinite, ClaimsFinite
  <2>5. Cardinality(Admitted) <= Cardinality(Places)
    BY <2>1, <2>2, <2>3, <2>4
  <2> QED BY <1>2, <2>5
<1>3. CASE mode = "all"
  <2>1. PICK T : T = {Cap[l] : l \in Layers}
    OBVIOUS
  <2>2. T \subseteq Nat /\ T # {}
    BY <2>1, LayerFacts
  <2>3. PICK l \in Layers : Min(T) = Cap[l]
    BY <2>1, <2>2, MinIn
  <2>4. Cardinality(PassedAt(call, l)) <= Cap[l]
    BY <1>1, <1>3 DEF AllInv, AllBound
  <2>5. PICK P : P = PassedAt(call, l)
    OBVIOUS
  <2>6. Admitted \in SUBSET P /\ IsFiniteSet(P) /\ Cardinality(P) \in Nat
    <3>1. IsFiniteSet(P) /\ Cardinality(P) \in Nat
      BY <2>5, CallerSets
    <3> QED BY <2>5, <3>1 DEF Admitted, PassedAt, Passes
  <2>7. Cardinality(Admitted) <= Cardinality(P)
    BY <2>6, FS_Subset
  <2>8. Cardinality(Admitted) <= Cap[l]
    BY <2>4, <2>5, <2>6, <2>7, AdmittedFinite, LayerFacts
  <2> QED BY <1>3, <2>1, <2>3, <2>8
<1> QED BY <1>2, <1>3

\* As long as no reset() runs, the increments admitted and not undone fit in the layers
\* whatever fails and however calls interleave: in every layer's cap in mode "all", and in
\* the sum of the caps in the other modes.
THEOREM ComposedAdmission == Spec => []AdmissionBounded
<1>1. Init => ClaimInv /\ AllInv
  <2> SUFFICES ASSUME Init PROVE ClaimInv /\ AllInv
    OBVIOUS
  <2>1. \A c \in Callers : Claims(call[c]) = {} /\ Counts(call[c]) = {} /\ Passes(call[c]) = {}
    BY DEF Init, Idle, Claims, Counts, Passes
  <2>2. AllClaims(call) = {}
    BY <2>1 DEF AllClaims
  <2>3. Cardinality(Filled(hits)) \in Nat
    BY FilledFinite
  <2>4. ClaimInv
    BY <2>2, <2>3, FS_EmptySet DEF ClaimInv
  <2>5. \A l \in Layers : CountedAt(call, l) = {} /\ PassedAt(call, l) = {} /\ hits[l] = 0 /\ Cap[l] \in Nat
    BY <2>1, LayerFacts DEF CountedAt, PassedAt, Init
  <2>6. AllInv
    BY <2>5, FS_EmptySet DEF AllInv, AllBound
  <2> QED BY <2>4, <2>6
<1> QED BY <1>1, ComposedInit, ComposedStep, ClaimStep, AllStep, BoundHolds, PTL DEF Spec
=============================================================================
