----------------------- MODULE RateLimitEngineProofs -----------------------
(***************************************************************************)
(* Theorems about the way of a request through the engine, for every       *)
(* number of requests, keys and slots, every limit and window and any      *)
(* number of store failures and resets: the penalty box is earned, no      *)
(* window lets through more than its limit, rollbacks and refunds take     *)
(* back exactly what is not to stay charged, and a shield repeats only     *)
(* what the store behind it would say.                                     *)
(***************************************************************************)
EXTENDS RateLimitEngine, FiniteSetTheorems, WellFoundedInduction, TLAPS

-----------------------------------------------------------------------------
(* Types                                                                   *)

Row == [count : Nat, reset : Nat]
Answer == [blocked : BOOLEAN, unavailable : BOOLEAN, threw : BOOLEAN, hits : Nat, reset : Nat]
ReqPcs == {"idle", "asked", "answered", "undo", "admitted", "refund", "done"}
ReqRec == [pc : ReqPcs, key : Keys \union {"none"}, slot : Nat, todo : SUBSET Nat,
           back : SUBSET Nat, result : Answer, outcome : Outcomes]

TypeInv ==
    /\ layout \in Layouts /\ now \in Nat
    /\ rows \in [1..layout.slots -> [Keys -> Row]]
    /\ req \in [Requests -> ReqRec]
    /\ counted \in [Requests -> SUBSET (Nat \X Nat)]
    /\ violations \in [Keys -> Nat] /\ penalties \in [Keys -> Nat]
    /\ \A r \in Requests : req[r].pc # "idle" => req[r].key \in Keys
    /\ \A r \in Requests : req[r].pc \in {"asked", "answered", "undo"} =>
                                req[r].slot \in 1..layout.slots
    /\ \A r \in Requests : req[r].todo \subseteq 1..layout.slots

\* The least element of a set of natural numbers.
LEMMA NatMin ==
    ASSUME NEW T, T \subseteq Nat, T # {}
    PROVE  \E x \in T : \A y \in T : x <= y
<1> DEFINE R == OpToRel(<, Nat)
<1>1. IsWellFoundedOn(R, Nat)
  BY NatLessThanWellFounded
<1>2. \A x, y \in Nat : y < x => <<y, x>> \in R
  BY DEF OpToRel
<1> HIDE DEF R
<1>3. PICK x \in T : \A y \in T : ~ (<<y, x>> \in R)
  BY <1>1, WFMin
<1>4. ASSUME NEW y \in T PROVE x <= y
  <2>1. x \in Nat /\ y \in Nat
    OBVIOUS
  <2>2. ~(y < x)
    BY <1>2, <1>3, <2>1, Zenon
  <2> QED BY <2>1, <2>2
<1> QED BY <1>4

LEMMA MinIn == ASSUME NEW T, T \subseteq Nat, T # {} PROVE Min(T) \in T
<1>1. \E x \in T : \A y \in T : x <= y
  BY NatMin
<1> QED BY <1>1 DEF Min

LEMMA LayoutType ==
    ASSUME TypeInv
    PROVE  /\ layout.slots \in 1..Len(Cap) /\ Len(Cap) \in Nat /\ layout.slots \in Nat
           /\ layout.threshold \in Nat \ {0}
           /\ layout.draft \in BOOLEAN
           /\ layout.strategy \in {"window", "bucket"}
           /\ \A s \in 1..layout.slots : Cap[s] \in Nat \ {0} /\ Window[s] \in Nat \ {0} /\ s \in Nat
<1>1. layout \in [slots : 1..Len(Cap), shield : {"none", "reset", "duration"},
                  draft : BOOLEAN, strategy : {"window", "bucket"}, threshold : Nat \ {0}]
  BY EngineAssumption DEF TypeInv
<1>2. layout.slots \in 1..Len(Cap) /\ layout.threshold \in Nat \ {0} /\ layout.draft \in BOOLEAN
      /\ layout.strategy \in {"window", "bucket"}
  BY <1>1
<1>3. Cap \in Seq(Nat \ {0}) /\ Window \in Seq(Nat \ {0}) /\ Len(Cap) \in Nat /\ Len(Window) = Len(Cap)
  BY EngineAssumption
<1>4. layout.slots \in Nat
  BY <1>2, <1>3
<1>5. ASSUME NEW s \in 1..layout.slots
      PROVE  Cap[s] \in Nat \ {0} /\ Window[s] \in Nat \ {0} /\ s \in Nat
  <2>1. s \in 1..Len(Cap) /\ s \in 1..Len(Window) /\ s \in Nat
    BY <1>2, <1>3, <1>4
  <2> QED BY <1>3, <2>1
<1> QED BY <1>2, <1>3, <1>4, <1>5

LEMMA ReqTypes ==
    ASSUME TypeInv, NEW r \in Requests
    PROVE  /\ req[r] \in ReqRec /\ req[r].pc \in ReqPcs /\ req[r].slot \in Nat
           /\ req[r].todo \subseteq Nat /\ req[r].back \subseteq Nat /\ req[r].outcome \in Outcomes
           /\ req[r].result \in Answer /\ req[r].result.blocked \in BOOLEAN
           /\ req[r].result.threw \in BOOLEAN /\ req[r].result.unavailable \in BOOLEAN
           /\ req[r].result.hits \in Nat /\ req[r].result.reset \in Nat
<1>1. req[r] \in ReqRec
  BY DEF TypeInv
<1>2. /\ req[r].pc \in ReqPcs /\ req[r].slot \in Nat /\ req[r].todo \subseteq Nat
      /\ req[r].back \subseteq Nat
      /\ req[r].outcome \in Outcomes /\ req[r].result \in Answer
  BY <1>1 DEF ReqRec
<1>3. /\ req[r].result.blocked \in BOOLEAN
      /\ req[r].result.threw \in BOOLEAN /\ req[r].result.unavailable \in BOOLEAN
      /\ req[r].result.hits \in Nat /\ req[r].result.reset \in Nat
  BY <1>2 DEF Answer
<1> QED BY <1>1, <1>2, <1>3

LEMMA RowTypes ==
    ASSUME TypeInv, NEW s \in 1..layout.slots, NEW k \in Keys
    PROVE  /\ rows[s][k] \in Row /\ rows[s][k].count \in Nat /\ rows[s][k].reset \in Nat
           /\ Count(s, k) \in Nat /\ Reset(s, k) \in Nat /\ Reset(s, k) > now
           /\ now < rows[s][k].reset => Count(s, k) = rows[s][k].count /\ Reset(s, k) = rows[s][k].reset
           /\ ~(now < rows[s][k].reset) => Count(s, k) = 0 /\ Reset(s, k) > rows[s][k].reset
<1>1. rows[s][k] \in Row
  BY DEF TypeInv
<1>2. rows[s][k].count \in Nat /\ rows[s][k].reset \in Nat
  BY <1>1 DEF Row
<1>3. Window[s] \in Nat \ {0} /\ now \in Nat
  BY LayoutType DEF TypeInv
<1> QED BY <1>1, <1>2, <1>3 DEF Count, Reset

-----------------------------------------------------------------------------
(* The moves of one request                                                *)

Moves(r, q) == q \in ReqRec /\ req' = [req EXCEPT ![r] = q]

LEMMA Moved ==
    ASSUME TypeInv, NEW r \in Requests, NEW q \in ReqRec, Moves(r, q)
    PROVE  req' \in [Requests -> ReqRec] /\ req'[r] = q /\ \A x \in Requests : x # r => req'[x] = req[x]
BY DEF TypeInv, Moves

Quota == <<layout, now, rows, counted>>
Penalty == <<violations, penaltyUntil, penalties>>

\* skip(), the penalty box, the shield's answer, or the question to the first store.
LEMMA BeginMoves ==
    ASSUME TypeInv, NEW r \in Requests, NEW k \in Keys,
           Passthrough(r, k) \/ SkipBeforeEngine(r, k) \/ Refuse(r, k) \/ Consume(r, k)
    PROVE  /\ req[r].pc = "idle" /\ UNCHANGED <<Quota, Penalty, faults>>
           /\ \E q \in ReqRec :
                 /\ Moves(r, q) /\ q.key = k /\ q.todo = req[r].todo /\ q.back = req[r].back
                 /\ \/ q.pc \in {"admitted", "done"} /\ q.outcome \in {"skipped", "refused"}
                       /\ (q.pc = "admitted" => q.outcome = "skipped")
                    \/ q.pc \in {"asked", "answered"} /\ q.slot = 1 /\ q.outcome = req[r].outcome
<1>0. req[r] \in ReqRec /\ req[r].pc = "idle" /\ UNCHANGED <<Quota, Penalty, faults>>
  BY ReqTypes DEF Passthrough, SkipBeforeEngine, Refuse, Consume, Quota, Penalty
<1>1. CASE Passthrough(r, k)
  <2> DEFINE q == [req[r] EXCEPT !.pc = "admitted", !.key = k, !.outcome = "skipped"]
  <2>1. q \in ReqRec /\ q.todo = req[r].todo /\ q.back = req[r].back /\ q.pc = "admitted" /\ q.key = k /\ q.outcome = "skipped"
    BY <1>0 DEF ReqRec, ReqPcs, Outcomes
  <2>2. req' = [req EXCEPT ![r] = q]
    BY <1>1 DEF Passthrough
  <2> HIDE DEF q
  <2> QED BY <1>0, <2>1, <2>2 DEF Moves
<1>2. CASE SkipBeforeEngine(r, k)
  <2> DEFINE q == [req[r] EXCEPT !.pc = "done", !.key = k, !.outcome = "skipped"]
  <2>1. q \in ReqRec /\ q.todo = req[r].todo /\ q.back = req[r].back /\ q.pc = "done" /\ q.key = k /\ q.outcome = "skipped"
    BY <1>0 DEF ReqRec, ReqPcs, Outcomes
  <2>2. req' = [req EXCEPT ![r] = q]
    BY <1>2 DEF SkipBeforeEngine
  <2> HIDE DEF q
  <2> QED BY <1>0, <2>1, <2>2 DEF Moves
<1>3. CASE Refuse(r, k)
  <2> DEFINE q == [req[r] EXCEPT !.pc = "done", !.key = k, !.outcome = "refused"]
  <2>1. q \in ReqRec /\ q.todo = req[r].todo /\ q.back = req[r].back /\ q.pc = "done" /\ q.key = k /\ q.outcome = "refused"
    BY <1>0 DEF ReqRec, ReqPcs, Outcomes
  <2>2. req' = [req EXCEPT ![r] = q]
    BY <1>3 DEF Refuse
  <2> HIDE DEF q
  <2> QED BY <1>0, <2>1, <2>2 DEF Moves
<1>4. CASE Consume(r, k)
  <2> DEFINE a == [req[r] EXCEPT !.key = k, !.slot = 1]
             q == [a EXCEPT !.pc = "asked"]
             x == [a EXCEPT !.pc = "answered", !.result.blocked = TRUE]
  <2>1. q \in ReqRec /\ q.todo = req[r].todo /\ q.back = req[r].back /\ q.pc = "asked" /\ q.key = k /\ q.outcome = req[r].outcome /\ q.slot = 1
    BY <1>0 DEF ReqRec, ReqPcs
  <2>2. x \in ReqRec /\ x.todo = req[r].todo /\ x.back = req[r].back /\ x.pc = "answered" /\ x.key = k /\ x.outcome = req[r].outcome /\ x.slot = 1
    <3>1. [req[r].result EXCEPT !.blocked = TRUE] \in Answer
      BY ReqTypes DEF Answer
    <3>2. x = [a EXCEPT !.pc = "answered", !.result = [req[r].result EXCEPT !.blocked = TRUE]]
      BY <1>0 DEF ReqRec
    <3> QED BY <1>0, <3>1, <3>2 DEF ReqRec, ReqPcs
  <2>3. req' = [req EXCEPT ![r] = q] \/ req' = [req EXCEPT ![r] = x]
    BY <1>4 DEF Consume
  <2> HIDE DEF q, x
  <2> QED BY <1>0, <2>1, <2>2, <2>3 DEF Moves
<1> QED BY <1>1, <1>2, <1>3, <1>4

LEMMA FailsMoves ==
    ASSUME TypeInv, NEW r \in Requests, Fails(r)
    PROVE  /\ req[r].pc = "asked" /\ UNCHANGED <<Quota, Penalty, faults>>
           /\ \E q \in ReqRec :
                 /\ Moves(r, q) /\ q.pc = "answered" /\ q.key = req[r].key /\ q.slot = req[r].slot
                 /\ q.outcome = req[r].outcome /\ q.todo = req[r].todo /\ q.back = req[r].back /\ (q.result.threw \/ q.result.unavailable)
                 /\ q.result.hits = 0
<1>0. req[r] \in ReqRec /\ req[r].pc = "asked" /\ UNCHANGED <<Quota, Penalty, faults>>
  BY ReqTypes DEF Fails, Quota, Penalty
<1>1. PICK blocked, threw \in BOOLEAN :
          req' = [req EXCEPT ![r].pc = "answered",
                     ![r].result = [blocked |-> blocked /\ ~threw, unavailable |-> ~threw,
                         threw |-> threw, hits |-> 0, reset |-> now]]
  BY DEF Fails
<1> DEFINE a == [blocked |-> blocked /\ ~threw, unavailable |-> ~threw,
                 threw |-> threw, hits |-> 0, reset |-> now]
           q == [req[r] EXCEPT !.pc = "answered", !.result = a]
<1>2. a \in Answer /\ (a.threw \/ a.unavailable) /\ a.hits = 0
  BY DEF Answer, TypeInv
<1>3. req' = [req EXCEPT ![r] = q]
  BY <1>1
<1> HIDE DEF a
<1>4. /\ q \in ReqRec /\ q.pc = "answered" /\ q.key = req[r].key /\ q.slot = req[r].slot
      /\ q.outcome = req[r].outcome /\ q.todo = req[r].todo /\ q.back = req[r].back /\ q.result = a
  BY <1>0, <1>2 DEF ReqRec, ReqPcs
<1> HIDE DEF q
<1> QED BY <1>0, <1>2, <1>3, <1>4 DEF Moves

Blocks(r) == Count(req[r].slot, req[r].key) + 1 > Cap[req[r].slot]
Counts(r) == layout.strategy = "window" \/ ~Blocks(r)

LEMMA ExecutesMoves ==
    ASSUME TypeInv, NEW r \in Requests, Executes(r), NEW s \in 1..layout.slots, NEW k \in Keys,
           s = req[r].slot, k = req[r].key
    PROVE  \E q \in ReqRec :
              /\ Moves(r, q) /\ q.pc = "answered" /\ q.key = k /\ q.slot = s
              /\ q.outcome = req[r].outcome /\ q.todo = req[r].todo /\ q.back = req[r].back /\ ~q.result.threw /\ ~q.result.unavailable
              /\ q.result.blocked = Blocks(r) /\ q.result.reset = Reset(s, k)
              /\ q.result.hits = (IF Counts(r) THEN Count(s, k) + 1 ELSE Count(s, k))
<1>0. req[r] \in ReqRec
  BY ReqTypes
<1> DEFINE n == IF Counts(r) THEN Count(s, k) + 1 ELSE Count(s, k)
           a == [blocked |-> Blocks(r), unavailable |-> FALSE, threw |-> FALSE,
                 hits |-> n, reset |-> Reset(s, k)]
           q == [req[r] EXCEPT !.pc = "answered", !.result = a]
<1>1. n \in Nat /\ Reset(s, k) \in Nat
  BY RowTypes
<1>2. req' = [req EXCEPT ![r] = q]
  BY DEF Executes, Blocks, Counts
<1> HIDE DEF n
<1>3. /\ a \in Answer /\ ~a.threw /\ ~a.unavailable /\ a.blocked = Blocks(r)
      /\ a.reset = Reset(s, k) /\ a.hits = n
  BY <1>1 DEF Answer, Blocks
<1> HIDE DEF a
<1>4. /\ q \in ReqRec /\ q.pc = "answered" /\ q.key = req[r].key /\ q.slot = req[r].slot
      /\ q.outcome = req[r].outcome /\ q.todo = req[r].todo /\ q.back = req[r].back /\ q.result = a
  BY <1>0, <1>3 DEF ReqRec, ReqPcs
<1> HIDE DEF q
<1> QED BY <1>2, <1>3, <1>4 DEF Moves, n

\* What becomes of the answer.
LEMMA DeliverMoves ==
    ASSUME TypeInv, NEW r \in Requests, Deliver(r)
    PROVE  /\ req[r].pc = "answered" /\ UNCHANGED <<Quota, Penalty>> /\ faults \subseteq faults'
           /\ faults' \subseteq faults \union {"lateAnswer"}
           /\ \E q \in ReqRec :
                 /\ Moves(r, q) /\ q.key = req[r].key /\ q.outcome = OutcomeOf(r) /\ q.todo = ToUndo(r)
                 /\ q.back = req[r].back
                 /\ q.result = NoAnswer
                 /\ \/ /\ req[r].result.blocked \/ req[r].result.threw
                       /\ q.pc = "undo" /\ q.slot = req[r].slot
                    \/ /\ ~req[r].result.blocked /\ ~req[r].result.threw
                       /\ req[r].slot < layout.slots /\ q.pc = "asked" /\ q.slot = req[r].slot + 1
                    \/ /\ ~req[r].result.blocked /\ ~req[r].result.threw
                       /\ ~(req[r].slot < layout.slots) /\ q.pc = "admitted" /\ q.slot = req[r].slot
<1> DEFINE refused == req[r].result.blocked \/ req[r].result.threw
           more == ~refused /\ req[r].slot < layout.slots
           n == IF more THEN req[r].slot + 1 ELSE req[r].slot
           pc == IF refused THEN "undo" ELSE IF more THEN "asked" ELSE "admitted"
           q == [req[r] EXCEPT !.outcome = OutcomeOf(r), !.todo = ToUndo(r), !.result = NoAnswer,
                               !.slot = n, !.pc = pc]
<1>0. req[r] \in ReqRec /\ req[r].slot \in Nat
  BY ReqTypes
<1>1. /\ req[r].pc = "answered" /\ UNCHANGED <<Quota, Penalty>> /\ faults \subseteq faults'
      /\ faults' \subseteq faults \union {"lateAnswer"}
  BY DEF Deliver, Quota, Penalty
<1>2. req' = [req EXCEPT ![r] = q]
  BY DEF Deliver
<1>3. n \in Nat /\ pc \in ReqPcs
  BY <1>0 DEF ReqPcs
<1>4. OutcomeOf(r) \in Outcomes
  BY DEF OutcomeOf, Outcomes
<1>5. ToUndo(r) \in SUBSET Nat
  BY <1>0 DEF ToUndo
<1>6. NoAnswer \in Answer
  BY DEF NoAnswer, Answer
<1>7. n = (IF more THEN req[r].slot + 1 ELSE req[r].slot) /\ pc = (IF refused THEN "undo" ELSE IF more THEN "asked" ELSE "admitted")
  OBVIOUS
<1> HIDE DEF n, pc
<1>8. /\ q \in ReqRec /\ q.key = req[r].key /\ q.outcome = OutcomeOf(r) /\ q.todo = ToUndo(r)
      /\ q.back = req[r].back
      /\ q.result = NoAnswer /\ q.slot = n /\ q.pc = pc
  BY <1>0, <1>3, <1>4, <1>5, <1>6 DEF ReqRec
<1> HIDE DEF q
<1> QED BY <1>1, <1>2, <1>7, <1>8 DEF Moves

\* A decrement that found the request's own hit in the window.
Own(r, s) == /\ <<s, rows[s][req[r].key].reset>> \in counted[r]
             /\ s \notin req[r].back

LEMMA DecrementValue ==
    ASSUME TypeInv, NEW r \in Requests, NEW s \in 1..layout.slots, NEW k \in Keys, k = req[r].key,
           DecrementRow(r, s)
    PROVE  /\ rows' \in [1..layout.slots -> [Keys -> Row]] /\ faults \subseteq faults'
           /\ rows'[s][k].reset = rows[s][k].reset
           /\ \A x \in 1..layout.slots, y \in Keys : x # s \/ y # k => rows'[x][y] = rows[x][y]
           /\ "tookOther" \notin faults' /\ now < rows[s][k].reset =>
                 \/ Own(r, s) /\ rows[s][k].count > 0 /\ rows'[s][k].count = rows[s][k].count - 1
                 \/ Own(r, s) /\ rows[s][k].count = 0
                 \/ ~Own(r, s) /\ rows'[s][k].count = rows[s][k].count
                 \/ "undoLost" \in faults' /\ rows'[s][k].count = rows[s][k].count
<1>0. /\ rows \in [1..layout.slots -> [Keys -> Row]] /\ rows[s][k] \in Row
      /\ rows[s][k].count \in Nat /\ Count(s, k) \in Nat
      /\ now < rows[s][k].reset => Count(s, k) = rows[s][k].count
  BY RowTypes DEF TypeInv
<1> DEFINE n == IF Count(s, k) > 0 THEN rows[s][k].count - 1 ELSE rows[s][k].count
<1>1. CASE /\ rows' = [rows EXCEPT ![s][k].count = IF Count(s, k) > 0 THEN @ - 1 ELSE @]
           /\ faults' = faults
                \union (IF ~Own(r, s) /\ Count(s, k) > 0 THEN {"tookOther"} ELSE {})
                \union (IF IsShielded(cache, k, now) THEN {"loweredBehindShield"} ELSE {})
  <2>1. n \in Nat
    BY <1>0 DEF Count
  <2>2. PICK m \in Nat : m = n
    BY <2>1
  <2>3. rows' = [rows EXCEPT ![s] = [rows[s] EXCEPT ![k] = [rows[s][k] EXCEPT !.count = m]]]
    BY <1>0, <1>1, <2>2
  <2>4. [rows[s][k] EXCEPT !.count = m] \in Row /\ [rows[s][k] EXCEPT !.count = m].count = m
          /\ [rows[s][k] EXCEPT !.count = m].reset = rows[s][k].reset
    BY <1>0 DEF Row
  <2>5. /\ rows' \in [1..layout.slots -> [Keys -> Row]]
        /\ rows'[s][k] = [rows[s][k] EXCEPT !.count = m]
        /\ \A x \in 1..layout.slots, y \in Keys : x # s \/ y # k => rows'[x][y] = rows[x][y]
    BY <1>0, <2>3, <2>4
  <2>6. "tookOther" \notin faults' => Own(r, s) \/ Count(s, k) = 0
    BY <1>0, <1>1
  <2>7. rows'[s][k].count = m /\ rows'[s][k].reset = rows[s][k].reset
    BY <2>4, <2>5
  <2>8. ASSUME "tookOther" \notin faults', now < rows[s][k].reset
        PROVE  \/ Own(r, s) /\ rows[s][k].count > 0 /\ rows'[s][k].count = rows[s][k].count - 1
               \/ Own(r, s) /\ rows[s][k].count = 0
               \/ ~Own(r, s) /\ rows'[s][k].count = rows[s][k].count
    BY <1>0, <2>2, <2>6, <2>7, <2>8
  <2>9. faults \subseteq faults'
    BY <1>1
  <2> QED BY <2>5, <2>7, <2>8, <2>9
<1>2. CASE faults' = faults \union {"undoLost"} /\ UNCHANGED rows
  BY <1>0, <1>2
<1> QED BY <1>1, <1>2 DEF DecrementRow, Own

LEMMA UndoMoves ==
    ASSUME TypeInv, NEW r \in Requests, Undo(r)
    PROVE  \E s \in req[r].todo : \E q \in ReqRec :
              /\ DecrementRow(r, s) /\ Moves(r, q) /\ q.pc = "undo" /\ q.key = req[r].key
              /\ q.slot = req[r].slot /\ q.outcome = req[r].outcome /\ q.todo = req[r].todo \ {s}
              /\ q.back = req[r].back \union {s}
<1> DEFINE s == Min(req[r].todo)
           q == [req[r] EXCEPT !.todo = req[r].todo \ {s}, !.back = req[r].back \union {s}]
<1>0. /\ req[r] \in ReqRec /\ req[r].todo \subseteq Nat /\ req[r].todo # {} /\ req[r].pc = "undo"
      /\ req[r].back \subseteq Nat
  BY ReqTypes DEF Undo
<1>1. s \in req[r].todo
  BY <1>0, MinIn
<1>2. DecrementRow(r, s) /\ req' = [req EXCEPT ![r] = q]
  BY DEF Undo
<1> HIDE DEF s
<1>3. /\ q \in ReqRec /\ q.pc = req[r].pc /\ q.key = req[r].key /\ q.slot = req[r].slot
      /\ q.outcome = req[r].outcome /\ q.todo = req[r].todo \ {s} /\ q.back = req[r].back \union {s}
  BY <1>0, <1>1 DEF ReqRec
<1> HIDE DEF q
<1> QED BY <1>0, <1>1, <1>2, <1>3 DEF Moves

LEMMA ConcludeMoves ==
    ASSUME TypeInv, NEW r \in Requests, Conclude(r)
    PROVE  /\ req[r].pc = "undo" /\ req[r].todo = {} /\ UNCHANGED <<Quota, faults>>
           /\ \E q \in ReqRec :
                 /\ Moves(r, q) /\ q.key = req[r].key /\ q.slot = req[r].slot /\ q.outcome = req[r].outcome
                 /\ q.todo = req[r].todo /\ q.back = req[r].back /\ q.pc = (IF req[r].outcome \in {"draft", "masked", "undrafted"} THEN "admitted" ELSE "done")
<1> DEFINE pc == IF req[r].outcome \in {"draft", "masked", "undrafted"} THEN "admitted" ELSE "done"
           q == [req[r] EXCEPT !.pc = pc]
<1>0. req[r] \in ReqRec /\ req[r].pc = "undo" /\ req[r].todo = {} /\ UNCHANGED <<Quota, faults>>
  BY ReqTypes DEF Conclude, Quota
<1>1. req' = [req EXCEPT ![r] = q]
  BY DEF Conclude
<1>2. pc \in ReqPcs
  BY DEF ReqPcs
<1>3. /\ q \in ReqRec /\ q.key = req[r].key /\ q.slot = req[r].slot /\ q.outcome = req[r].outcome
      /\ q.pc = pc /\ q.todo = req[r].todo /\ q.back = req[r].back
  BY <1>0, <1>2 DEF ReqRec
<1> HIDE DEF q
<1> QED BY <1>0, <1>1, <1>3 DEF Moves

LEMMA RespondMoves ==
    ASSUME TypeInv, NEW r \in Requests, Respond(r) \/ RespondAndRefund(r)
    PROVE  /\ req[r].pc = "admitted" /\ UNCHANGED <<Quota, Penalty, faults>>
           /\ \E q \in ReqRec :
                 /\ Moves(r, q) /\ q.key = req[r].key /\ q.slot = req[r].slot /\ q.outcome = req[r].outcome
                 /\ q.back = req[r].back
                 /\ (q.pc = "done" /\ q.todo = req[r].todo) \/ (q.pc = "refund" /\ q.todo = 1..layout.slots)
<1>0. req[r] \in ReqRec /\ req[r].pc = "admitted" /\ UNCHANGED <<Quota, Penalty, faults>>
  BY ReqTypes DEF Respond, RespondAndRefund, Quota, Penalty
<1>1. CASE Respond(r)
  <2> DEFINE q == [req[r] EXCEPT !.pc = "done"]
  <2>1. req' = [req EXCEPT ![r] = q]
    BY <1>1 DEF Respond
  <2>2. /\ q \in ReqRec /\ q.key = req[r].key /\ q.slot = req[r].slot /\ q.outcome = req[r].outcome
        /\ q.pc = "done" /\ q.todo = req[r].todo /\ q.back = req[r].back
    BY <1>0 DEF ReqRec, ReqPcs
  <2> HIDE DEF q
  <2> QED BY <1>0, <2>1, <2>2 DEF Moves
<1>2. CASE RespondAndRefund(r)
  <2> DEFINE q == [req[r] EXCEPT !.pc = "refund", !.todo = Slots]
  <2>1. req' = [req EXCEPT ![r] = q]
    BY <1>2 DEF RespondAndRefund
  <2>2. Slots \in SUBSET Nat
    BY LayoutType DEF Slots
  <2>3. /\ q \in ReqRec /\ q.key = req[r].key /\ q.slot = req[r].slot /\ q.outcome = req[r].outcome
        /\ q.pc = "refund" /\ q.todo = Slots /\ q.back = req[r].back
    BY <1>0, <2>2 DEF ReqRec, ReqPcs
  <2> HIDE DEF q
  <2> QED BY <1>0, <2>1, <2>3 DEF Moves, Slots
<1> QED BY <1>1, <1>2

LEMMA RefundMoves ==
    ASSUME TypeInv, NEW r \in Requests, Refund(r)
    PROVE  \E s \in req[r].todo : \E q \in ReqRec :
              /\ DecrementRow(r, s) /\ Moves(r, q) /\ req[r].pc = "refund" /\ q.key = req[r].key
              /\ q.slot = req[r].slot /\ q.todo = req[r].todo \ {s}
              /\ q.back = req[r].back
              /\ q.outcome = (IF req[r].outcome \in {"allowed", "failOpen", "masked", "undrafted"} THEN "refunded"
                              ELSE req[r].outcome)
              /\ \/ q.pc = "refund"
                 \/ q.pc = "done" /\ req[r].todo = {s}
<1>0. req[r] \in ReqRec /\ req[r].todo \subseteq Nat /\ req[r].pc = "refund" /\ req[r].outcome \in Outcomes
  BY ReqTypes DEF Refund
<1>1. PICK s \in req[r].todo :
          /\ DecrementRow(r, s)
          /\ req' = [req EXCEPT ![r].todo = @ \ {s},
                        ![r].pc = IF req[r].todo = {s} THEN "done" ELSE @,
                        ![r].outcome = IF @ \in {"allowed", "failOpen", "masked", "undrafted"}
                                      THEN "refunded" ELSE @]
  BY DEF Refund
<1> DEFINE pc == IF req[r].todo = {s} THEN "done" ELSE req[r].pc
           o == IF req[r].outcome \in {"allowed", "failOpen", "masked", "undrafted"} THEN "refunded" ELSE req[r].outcome
           q == [req[r] EXCEPT !.todo = req[r].todo \ {s}, !.pc = pc, !.outcome = o]
<1>2. req' = [req EXCEPT ![r] = q]
  BY <1>1
<1>3. pc \in ReqPcs /\ o \in Outcomes
  BY <1>0 DEF ReqPcs, Outcomes
<1>4. (pc = "refund" \/ (pc = "done" /\ req[r].todo = {s}))
      /\ o = (IF req[r].outcome \in {"allowed", "failOpen", "masked", "undrafted"} THEN "refunded" ELSE req[r].outcome)
  BY <1>0
<1> HIDE DEF pc, o
<1>5. /\ q \in ReqRec /\ q.key = req[r].key /\ q.slot = req[r].slot /\ q.outcome = o
      /\ q.pc = pc /\ q.todo = req[r].todo \ {s} /\ q.back = req[r].back
  BY <1>0, <1>3 DEF ReqRec
<1> HIDE DEF q
<1>6. DecrementRow(r, s) /\ Moves(r, q) /\ req[r].pc = "refund"
  BY <1>0, <1>1, <1>2, <1>5 DEF Moves
<1>7. q.outcome = (IF req[r].outcome \in {"allowed", "failOpen", "masked", "undrafted"} THEN "refunded"
                   ELSE req[r].outcome)
  BY <1>4, <1>5
<1>8. q.pc = "refund" \/ (q.pc = "done" /\ req[r].todo = {s})
  BY <1>4, <1>5
<1> QED BY <1>5, <1>6, <1>7, <1>8

\* The store's part of a question.
Effect(r, s, k) ==
    /\ rows' \in [1..layout.slots -> [Keys -> Row]]
    /\ rows'[s][k].count = (IF Counts(r) THEN Count(s, k) + 1 ELSE Count(s, k))
    /\ rows'[s][k].reset = Reset(s, k)
    /\ \A x \in 1..layout.slots, y \in Keys : x # s \/ y # k => rows'[x][y] = rows[x][y]
    /\ counted' \in [Requests -> SUBSET (Nat \X Nat)]
    /\ counted'[r] = (IF Counts(r) THEN counted[r] \union {<<s, Reset(s, k)>>} ELSE counted[r])
    /\ \A x \in Requests : x # r => counted'[x] = counted[x]
    /\ UNCHANGED <<layout, now, Penalty, faults>>

LEMMA ExecutesValue ==
    ASSUME TypeInv, NEW r \in Requests, Executes(r), NEW s \in 1..layout.slots, NEW k \in Keys,
           s = req[r].slot, k = req[r].key
    PROVE  Effect(r, s, k)
<1> DEFINE n == IF Counts(r) THEN Count(s, k) + 1 ELSE Count(s, k)
           row == [count |-> n, reset |-> Reset(s, k)]
<1>0. rows \in [1..layout.slots -> [Keys -> Row]] /\ counted \in [Requests -> SUBSET (Nat \X Nat)]
      /\ s \in Nat
  BY LayoutType DEF TypeInv
<1>1. n \in Nat /\ Reset(s, k) \in Nat
  BY RowTypes
<1>2. /\ rows' = [rows EXCEPT ![s][k] = row]
      /\ counted' = IF Counts(r) THEN [counted EXCEPT ![r] = @ \union {<<s, row.reset>>}] ELSE counted
      /\ UNCHANGED <<layout, now, Penalty, faults>>
  BY DEF Executes, Blocks, Counts, Penalty
<1> HIDE DEF n
<1>3. row \in Row /\ row.count = n /\ row.reset = Reset(s, k)
  BY <1>1 DEF Row
<1> HIDE DEF row
<1>4. /\ rows' \in [1..layout.slots -> [Keys -> Row]] /\ rows'[s][k] = row
      /\ \A x \in 1..layout.slots, y \in Keys : x # s \/ y # k => rows'[x][y] = rows[x][y]
  BY <1>0, <1>2, <1>3
<1>5. <<s, row.reset>> \in Nat \X Nat
  BY <1>0, <1>1, <1>3
<1>6. /\ counted' \in [Requests -> SUBSET (Nat \X Nat)]
      /\ counted'[r] = (IF Counts(r) THEN counted[r] \union {<<s, row.reset>>} ELSE counted[r])
      /\ \A x \in Requests : x # r => counted'[x] = counted[x]
  BY <1>0, <1>2, <1>5
<1> QED BY <1>2, <1>3, <1>4, <1>6 DEF n, Effect

-----------------------------------------------------------------------------
(* Where a request may be counted, by how far it is                        *)

Executed(a) == ~a.threw /\ ~a.unavailable

\* The outcome leaves the request counted in slot s.
Stays(q, s) ==
    \/ q.outcome \in {"allowed", "failOpen", "undrafted"}
    \/ q.outcome \in {"blocked", "masked"} /\ s = q.slot

Stage(q, C) ==
    /\ q.pc = "idle" \/ q.outcome \in {"skipped", "refused"} => C = {}
    /\ q.pc = "idle" => q.outcome = "none"
    /\ q.pc \in {"idle", "asked", "answered"} => q.back = {}
    /\ q.pc \in {"asked", "answered"} => q.outcome \in {"none", "allowed", "failOpen"}
    /\ q.pc = "asked" => \A c \in C : c[1] < q.slot
    /\ q.pc = "answered" =>
          \A c \in C : c[1] <= q.slot /\ (c[1] = q.slot => Executed(q.result))
    /\ q.pc = "undo" =>
          /\ q.outcome \in {"threw", "unavailable", "draft", "blocked", "masked", "undrafted"}
          /\ \A c \in C : c[1] \in q.todo \/ c[1] \in q.back <=> ~Stays(q, c[1])
    /\ q.pc = "admitted" =>
          /\ q.outcome \in {"allowed", "failOpen", "skipped", "draft", "masked", "undrafted"}
          /\ \A c \in C : c[1] \in q.back <=> ~Stays(q, c[1])
    /\ q.pc = "refund" => q.outcome \in {"allowed", "failOpen", "refunded", "skipped", "draft",
                                        "masked", "undrafted"}

StageInv == \A r \in Requests : Stage(req[r], counted[r])

\* No window that has counted a request ends after the slot's present window.
WindowInv == \A r \in Requests : \A c \in counted[r] :
    c[1] \in 1..layout.slots /\ c[2] <= rows[c[1]][req[r].key].reset

EngineInv == TypeInv /\ StageInv /\ WindowInv

LEMMA CountedKey ==
    ASSUME EngineInv, NEW r \in Requests, counted[r] # {}
    PROVE  req[r].pc # "idle" /\ req[r].key \in Keys /\ req[r].outcome \notin {"skipped", "refused"}
<1>1. Stage(req[r], counted[r])
  BY DEF EngineInv, StageInv
<1>2. req[r].pc # "idle" /\ req[r].outcome \notin {"skipped", "refused"}
  BY <1>1 DEF Stage
<1> QED BY <1>2 DEF EngineInv, TypeInv

LEMMA CountedSlot ==
    ASSUME EngineInv, NEW r \in Requests, NEW c \in counted[r]
    PROVE  c[1] \in Nat /\ c[1] >= 1 /\ c[1] \in 1..layout.slots /\ c[2] \in Nat
           /\ c[2] <= rows[c[1]][req[r].key].reset
<1>1. TypeInv /\ WindowInv
  BY DEF EngineInv
<1>2. c \in Nat \X Nat
  BY <1>1 DEF TypeInv
<1>3. c[1] \in 1..layout.slots /\ c[2] <= rows[c[1]][req[r].key].reset
  BY <1>1 DEF WindowInv
<1>4. layout.slots \in Nat
  BY <1>1, LayoutType
<1> QED BY <1>2, <1>3, <1>4

LEMMA EngineMoved ==
    ASSUME EngineInv, NEW r \in Requests, NEW q \in ReqRec, Moves(r, q),
           UNCHANGED <<layout, now>>,
           rows' \in [1..layout.slots -> [Keys -> Row]], counted' \in [Requests -> SUBSET (Nat \X Nat)],
           violations' \in [Keys -> Nat], penalties' \in [Keys -> Nat],
           q.key \in Keys, q.pc \in {"asked", "answered", "undo"} => q.slot \in 1..layout.slots,
           q.todo \subseteq 1..layout.slots,
           Stage(q, counted'[r]),
           \A x \in Requests : x # r => counted'[x] = counted[x],
           \A s \in 1..layout.slots, k \in Keys : rows'[s][k].reset >= rows[s][k].reset,
           \A c \in counted'[r] : c[1] \in 1..layout.slots /\ c[2] <= rows'[c[1]][q.key].reset
    PROVE  EngineInv'
<1>1. TypeInv /\ StageInv /\ WindowInv
  BY DEF EngineInv
<1>2. req' \in [Requests -> ReqRec] /\ req'[r] = q /\ \A x \in Requests : x # r => req'[x] = req[x]
  BY <1>1, Moved
<1>3. layout' = layout /\ layout' \in Layouts /\ now' \in Nat
  BY <1>1 DEF TypeInv
<1>4. ASSUME NEW x \in Requests
      PROVE  /\ req'[x].pc # "idle" => req'[x].key \in Keys
             /\ req'[x].pc \in {"asked", "answered", "undo"} => req'[x].slot \in 1..layout.slots
             /\ req'[x].todo \subseteq 1..layout.slots
  <2>1. CASE x = r
    BY <1>2, <2>1
  <2>2. CASE x # r
    BY <1>1, <1>2, <2>2 DEF TypeInv
  <2> QED BY <2>1, <2>2
<1>5. TypeInv'
  BY <1>2, <1>3, <1>4 DEF TypeInv
<1>6. ASSUME NEW x \in Requests PROVE Stage(req[x], counted[x])'
  <2>1. CASE x = r
    <3>1. Stage(q, counted'[r])
      OBVIOUS
    <3> QED BY <1>2, <1>3, <2>1, <3>1 DEF Stage, Executed
  <2>2. CASE x # r
    <3>1. Stage(req[x], counted[x]) /\ req'[x] = req[x] /\ counted'[x] = counted[x]
      BY <1>1, <1>2, <2>2 DEF StageInv
    <3> QED BY <1>3, <3>1 DEF Stage, Executed
  <2> QED BY <2>1, <2>2
<1>7. ASSUME NEW x \in Requests, NEW c \in counted'[x]
      PROVE  c[1] \in 1..layout.slots /\ c[2] <= rows'[c[1]][req'[x].key].reset
  <2>1. CASE x = r
    BY <1>2, <1>7, <2>1
  <2>2. CASE x # r
    <3>1. c \in counted[x] /\ req'[x] = req[x]
      BY <1>2, <1>7, <2>2
    <3>2. req[x].key \in Keys
      BY <3>1, CountedKey
    <3>3. c[1] \in 1..layout.slots /\ c[2] <= rows[c[1]][req[x].key].reset
      BY <1>1, <3>1 DEF WindowInv
    <3>4. rows'[c[1]][req[x].key].reset >= rows[c[1]][req[x].key].reset
      BY <3>2, <3>3
    <3>5. rows[c[1]][req[x].key].reset \in Nat
      BY <1>1, <3>2, <3>3, RowTypes
    <3>6. rows'[c[1]][req[x].key].reset \in Nat
      BY <3>2, <3>3 DEF Row
    <3>7. c[2] \in Nat
      BY <1>1, <3>1 DEF TypeInv
    <3> QED BY <3>1, <3>3, <3>4, <3>5, <3>6, <3>7
  <2> QED BY <2>1, <2>2
<1> QED BY <1>3, <1>5, <1>6, <1>7 DEF EngineInv, StageInv, WindowInv

\* A move that leaves the counts alone.
LEMMA EngineQuiet ==
    ASSUME EngineInv, NEW r \in Requests, NEW q \in ReqRec, Moves(r, q),
           UNCHANGED Quota, violations' \in [Keys -> Nat], penalties' \in [Keys -> Nat],
           q.key \in Keys, q.pc \in {"asked", "answered", "undo"} => q.slot \in 1..layout.slots,
           q.todo \subseteq 1..layout.slots,
           Stage(q, counted[r]), counted[r] = {} \/ q.key = req[r].key
    PROVE  EngineInv'
<1>1. TypeInv /\ StageInv /\ WindowInv /\ UNCHANGED <<layout, now, rows, counted>>
  BY DEF EngineInv, Quota
<1>2. \A s \in 1..layout.slots, k \in Keys : rows'[s][k].reset >= rows[s][k].reset
  <2>1. ASSUME NEW s \in 1..layout.slots, NEW k \in Keys PROVE rows'[s][k].reset >= rows[s][k].reset
    <3>1. rows[s][k].reset \in Nat
      BY <1>1, RowTypes
    <3> QED BY <1>1, <3>1
  <2> QED BY <2>1
<1>3. \A c \in counted'[r] : c[1] \in 1..layout.slots /\ c[2] <= rows'[c[1]][q.key].reset
  BY <1>1 DEF WindowInv
<1>4. rows' \in [1..layout.slots -> [Keys -> Row]] /\ counted' \in [Requests -> SUBSET (Nat \X Nat)]
  BY <1>1 DEF TypeInv
<1>5. Stage(q, counted'[r])
  BY <1>1
<1> QED BY <1>1, <1>2, <1>3, <1>4, <1>5, EngineMoved

LEMMA PenaltyType ==
    ASSUME TypeInv, UNCHANGED Penalty
    PROVE  violations' \in [Keys -> Nat] /\ penalties' \in [Keys -> Nat]
BY DEF TypeInv, Penalty

LEMMA StageOf == ASSUME EngineInv, NEW r \in Requests
    PROVE  Stage(req[r], counted[r]) /\ TypeInv /\ req[r].todo \subseteq 1..layout.slots
BY DEF EngineInv, StageInv, TypeInv

LEMMA EngineBegin ==
    ASSUME EngineInv, NEW r \in Requests, NEW k \in Keys,
           Passthrough(r, k) \/ SkipBeforeEngine(r, k) \/ Refuse(r, k) \/ Consume(r, k)
    PROVE  EngineInv'
<1>0. Stage(req[r], counted[r]) /\ TypeInv /\ req[r].todo \subseteq 1..layout.slots
  BY StageOf
<1>1. req[r].pc = "idle" /\ UNCHANGED <<Quota, Penalty>>
  BY <1>0, BeginMoves
<1>2. PICK q \in ReqRec :
                 /\ Moves(r, q) /\ q.key = k /\ q.todo = req[r].todo /\ q.back = req[r].back
                 /\ \/ q.pc \in {"admitted", "done"} /\ q.outcome \in {"skipped", "refused"}
                       /\ (q.pc = "admitted" => q.outcome = "skipped")
                    \/ q.pc \in {"asked", "answered"} /\ q.slot = 1 /\ q.outcome = req[r].outcome
  BY <1>0, BeginMoves
<1>3. counted[r] = {} /\ req[r].outcome = "none" /\ req[r].back = {}
  BY <1>0, <1>1 DEF Stage
<1>4. Stage(q, counted[r])
  BY <1>2, <1>3 DEF Stage
<1>5. 1 \in 1..layout.slots
  BY <1>0, LayoutType
<1> QED BY <1>0, <1>1, <1>2, <1>3, <1>4, <1>5, PenaltyType, EngineQuiet

LEMMA EngineFails ==
    ASSUME EngineInv, NEW r \in Requests, Fails(r)
    PROVE  EngineInv'
<1>0. Stage(req[r], counted[r]) /\ TypeInv /\ req[r].todo \subseteq 1..layout.slots
  BY StageOf
<1>1. req[r].pc = "asked" /\ UNCHANGED <<Quota, Penalty>>
  BY <1>0, FailsMoves
<1>2. PICK q \in ReqRec : /\ Moves(r, q) /\ q.pc = "answered" /\ q.key = req[r].key
                          /\ q.slot = req[r].slot /\ q.outcome = req[r].outcome /\ q.todo = req[r].todo
                          /\ q.back = req[r].back
  BY <1>0, FailsMoves
<1>3. req[r].key \in Keys /\ req[r].slot \in 1..layout.slots /\ layout.slots \in Nat
  BY <1>0, <1>1, LayoutType DEF TypeInv
<1>4. ASSUME NEW c \in counted[r] PROVE c[1] <= q.slot /\ c[1] # q.slot
  <2>1. c[1] \in Nat /\ c[1] < req[r].slot
    BY <1>0, <1>1 DEF Stage, TypeInv
  <2> QED BY <1>2, <1>3, <2>1
<1>5. Stage(q, counted[r])
  BY <1>0, <1>1, <1>2, <1>4 DEF Stage
<1> QED BY <1>0, <1>1, <1>2, <1>3, <1>5, PenaltyType, EngineQuiet

LEMMA EngineExecutes ==
    ASSUME EngineInv, NEW r \in Requests, Executes(r)
    PROVE  EngineInv'
<1>0. Stage(req[r], counted[r]) /\ TypeInv /\ WindowInv /\ req[r].todo \subseteq 1..layout.slots
      /\ req[r].pc = "asked"
  BY StageOf DEF EngineInv, Executes
<1>1. PICK s \in 1..layout.slots : s = req[r].slot
  BY <1>0 DEF TypeInv
<1>2. PICK k \in Keys : k = req[r].key
  BY <1>0 DEF TypeInv
<1>3. PICK q \in ReqRec :
              /\ Moves(r, q) /\ q.pc = "answered" /\ q.key = k /\ q.slot = s /\ q.todo = req[r].todo
              /\ q.back = req[r].back /\ q.outcome = req[r].outcome /\ ~q.result.threw /\ ~q.result.unavailable
              /\ q.result.blocked = Blocks(r)
  BY <1>0, <1>1, <1>2, ExecutesMoves
<1>4. /\ rows' \in [1..layout.slots -> [Keys -> Row]]
      /\ rows'[s][k].count = (IF Counts(r) THEN Count(s, k) + 1 ELSE Count(s, k))
      /\ rows'[s][k].reset = Reset(s, k)
      /\ \A x \in 1..layout.slots, y \in Keys : x # s \/ y # k => rows'[x][y] = rows[x][y]
      /\ counted' \in [Requests -> SUBSET (Nat \X Nat)]
      /\ counted'[r] = (IF Counts(r) THEN counted[r] \union {<<s, Reset(s, k)>>} ELSE counted[r])
      /\ \A x \in Requests : x # r => counted'[x] = counted[x]
      /\ UNCHANGED <<layout, now, Penalty, faults>>
  <2>1. Effect(r, s, k)
    BY <1>0, <1>1, <1>2, ExecutesValue
  <2> QED BY <2>1 DEF Effect
<1>5. ASSUME NEW c \in counted[r]
      PROVE  c[1] < s /\ c[1] \in Nat /\ c[2] \in Nat /\ c[1] \in 1..layout.slots
             /\ c[2] <= rows[c[1]][k].reset
  <2>1. c[1] < s
    BY <1>0, <1>1 DEF Stage
  <2>2. c[1] \in 1..layout.slots /\ c[2] <= rows[c[1]][k].reset
    BY <1>0, <1>2 DEF WindowInv
  <2>3. c \in Nat \X Nat
    BY <1>0 DEF TypeInv
  <2> QED BY <2>1, <2>2, <2>3
<1>6. s \in Nat /\ now \in Nat /\ q.slot = s
  BY <1>0, <1>3, LayoutType DEF TypeInv
<1>7. Stage(q, counted'[r])
  <2>1. ASSUME NEW c \in counted'[r]
        PROVE  c[1] <= q.slot /\ (c[1] = q.slot => Executed(q.result))
    <3>1. CASE c \in counted[r]
      BY <1>3, <1>5, <1>6, <3>1
    <3>2. CASE c \notin counted[r]
      <4>1. Counts(r) /\ c = <<s, Reset(s, k)>>
        BY <1>4, <2>1, <3>2
      <4> QED BY <1>3, <1>6, <4>1 DEF Executed
    <3> QED BY <3>1, <3>2
  <2>2. q.outcome \in {"none", "allowed", "failOpen"} /\ q.back = {}
    BY <1>0, <1>3 DEF Stage
  <2> QED BY <1>3, <2>1, <2>2 DEF Stage
<1>8. ASSUME NEW x \in 1..layout.slots, NEW y \in Keys PROVE rows'[x][y].reset >= rows[x][y].reset
  <2>1. rows[x][y].reset \in Nat
    BY <1>0, RowTypes
  <2>2. CASE x = s /\ y = k
    <3>1. Reset(s, k) \in Nat /\ Reset(s, k) >= rows[s][k].reset
      <4>1. /\ rows[s][k].reset \in Nat /\ Reset(s, k) \in Nat
            /\ now < rows[s][k].reset => Reset(s, k) = rows[s][k].reset
            /\ ~(now < rows[s][k].reset) => Reset(s, k) > rows[s][k].reset
        BY <1>0, RowTypes
      <4> QED BY <4>1
    <3> QED BY <1>4, <2>1, <2>2, <3>1
  <2>3. CASE x # s \/ y # k
    BY <1>4, <2>1, <2>3
  <2> QED BY <2>2, <2>3
<1>9. ASSUME NEW c \in counted'[r]
      PROVE  c[1] \in 1..layout.slots /\ c[2] <= rows'[c[1]][q.key].reset
  <2>1. CASE c \in counted[r]
    BY <1>3, <1>4, <1>5, <1>6, <2>1
  <2>2. CASE c \notin counted[r]
    <3>1. c = <<s, Reset(s, k)>> /\ Reset(s, k) \in Nat
      BY <1>0, <1>4, <1>9, <2>2, RowTypes
    <3> QED BY <1>3, <1>4, <3>1
  <2> QED BY <2>1, <2>2
<1> QED BY <1>0, <1>3, <1>4, <1>7, <1>8, <1>9, PenaltyType, EngineMoved

\* What OutcomeOf and ToUndo make of an answer.
LEMMA RefusedMeans ==
    ASSUME TypeInv, NEW r \in Requests, req[r].result.blocked \/ req[r].result.threw
    PROVE  /\ OutcomeOf(r) \in {"threw", "unavailable", "draft", "blocked", "masked", "undrafted"}
           /\ ~req[r].result.threw /\ ~req[r].result.unavailable =>
                 OutcomeOf(r) \in {"draft", "blocked", "masked", "undrafted"}
           /\ ToUndo(r) = (IF OutcomeOf(r) = "undrafted" THEN {}
                           ELSE IF OutcomeOf(r) = "draft" THEN 1..req[r].slot
                           ELSE 1..(req[r].slot - 1))
BY DEF OutcomeOf, ToUndo

LEMMA AllowedMeans ==
    ASSUME TypeInv, NEW r \in Requests, ~req[r].result.blocked, ~req[r].result.threw
    PROVE  OutcomeOf(r) \in {"allowed", "failOpen"} /\ ToUndo(r) = {}
BY DEF OutcomeOf, ToUndo

\* What is rolled back is what the outcome does not leave counted.
LEMMA RollbackFits ==
    ASSUME EngineInv, NEW r \in Requests, req[r].pc = "answered",
           req[r].result.blocked \/ req[r].result.threw,
           NEW q \in ReqRec, q.outcome = OutcomeOf(r), q.todo = ToUndo(r), q.slot = req[r].slot,
           NEW c \in counted[r]
    PROVE  c[1] \in q.todo <=> ~Stays(q, c[1])
<1>0. TypeInv /\ req[r].slot \in Nat /\ c[1] \in Nat /\ c[1] >= 1
  BY ReqTypes, CountedSlot DEF EngineInv
<1>1. c[1] <= req[r].slot /\ (c[1] = req[r].slot => Executed(req[r].result))
  BY StageOf DEF Stage
<1>2. /\ q.outcome \in {"threw", "unavailable", "draft", "blocked", "masked", "undrafted"}
      /\ c[1] = req[r].slot => q.outcome \in {"draft", "blocked", "masked", "undrafted"}
      /\ q.todo = (IF q.outcome = "undrafted" THEN {}
                   ELSE IF q.outcome = "draft" THEN 1..req[r].slot
                   ELSE 1..(req[r].slot - 1))
  BY <1>0, <1>1, RefusedMeans DEF Executed
<1>3. c[1] \in 1..req[r].slot /\ (c[1] \in 1..(req[r].slot - 1) <=> c[1] # req[r].slot)
  BY <1>0, <1>1
<1> QED BY <1>2, <1>3 DEF Stays

LEMMA EngineDeliver ==
    ASSUME EngineInv, NEW r \in Requests, Deliver(r)
    PROVE  EngineInv'
<1>0. Stage(req[r], counted[r]) /\ TypeInv /\ req[r].todo \subseteq 1..layout.slots
  BY StageOf
<1>1. req[r].pc = "answered" /\ UNCHANGED <<Quota, Penalty>>
  BY <1>0, DeliverMoves
<1>2. PICK q \in ReqRec :
                 /\ Moves(r, q) /\ q.key = req[r].key /\ q.outcome = OutcomeOf(r) /\ q.todo = ToUndo(r)
                 /\ q.back = req[r].back
                 /\ \/ /\ req[r].result.blocked \/ req[r].result.threw
                       /\ q.pc = "undo" /\ q.slot = req[r].slot
                    \/ /\ ~req[r].result.blocked /\ ~req[r].result.threw
                       /\ req[r].slot < layout.slots /\ q.pc = "asked" /\ q.slot = req[r].slot + 1
                    \/ /\ ~req[r].result.blocked /\ ~req[r].result.threw
                       /\ ~(req[r].slot < layout.slots) /\ q.pc = "admitted" /\ q.slot = req[r].slot
  BY <1>0, DeliverMoves
<1>3. /\ req[r].key \in Keys /\ req[r].slot \in 1..layout.slots /\ layout.slots \in Nat
      /\ req[r].slot \in Nat
  BY <1>0, <1>1, LayoutType, ReqTypes DEF TypeInv
<1>4. /\ \A c \in counted[r] : c[1] \in Nat /\ c[1] <= req[r].slot
      /\ req[r].back = {}
  BY <1>0, <1>1, CountedSlot DEF Stage
<1>5. CASE /\ req[r].result.blocked \/ req[r].result.threw
           /\ q.pc = "undo" /\ q.slot = req[r].slot
  <2>1. /\ OutcomeOf(r) \in {"threw", "unavailable", "draft", "blocked", "masked", "undrafted"}
        /\ ToUndo(r) \in {{}, 1..req[r].slot, 1..(req[r].slot - 1)}
    BY <1>0, <1>5, RefusedMeans
  <2>2. q.todo \subseteq 1..layout.slots
    BY <1>2, <1>3, <2>1
  <2>3. \A c \in counted[r] : c[1] \in q.todo <=> ~Stays(q, c[1])
    BY <1>1, <1>2, <1>5, RollbackFits
  <2>4. Stage(q, counted[r])
    BY <1>2, <1>4, <1>5, <2>1, <2>3 DEF Stage
  <2> QED BY <1>0, <1>1, <1>2, <1>3, <1>5, <2>2, <2>4, PenaltyType, EngineQuiet
<1>6. CASE ~req[r].result.blocked /\ ~req[r].result.threw
  <2>1. OutcomeOf(r) \in {"allowed", "failOpen"} /\ ToUndo(r) = {}
    BY <1>0, <1>6, AllowedMeans
  <2>2. CASE req[r].slot < layout.slots /\ q.pc = "asked" /\ q.slot = req[r].slot + 1
    <3>1. q.slot \in 1..layout.slots
      BY <1>3, <2>2
    <3>2. \A c \in counted[r] : c[1] < q.slot
      BY <1>3, <1>4, <2>2
    <3>3. Stage(q, counted[r])
      BY <1>2, <1>4, <2>1, <2>2, <3>2 DEF Stage
    <3> QED BY <1>0, <1>1, <1>2, <1>3, <2>1, <3>1, <3>3, PenaltyType, EngineQuiet
  <2>3. CASE q.pc = "admitted" /\ q.slot = req[r].slot
    <3>1. Stage(q, counted[r])
      BY <1>2, <1>4, <2>1, <2>3 DEF Stage, Stays
    <3> QED BY <1>0, <1>1, <1>2, <1>3, <2>1, <2>3, <3>1, PenaltyType, EngineQuiet
  <2> QED BY <1>2, <1>6, <2>2, <2>3
<1> QED BY <1>2, <1>5, <1>6

LEMMA EngineRespond ==
    ASSUME EngineInv, NEW r \in Requests, Respond(r) \/ RespondAndRefund(r)
    PROVE  EngineInv'
<1>0. Stage(req[r], counted[r]) /\ TypeInv /\ req[r].todo \subseteq 1..layout.slots
  BY StageOf
<1>1. req[r].pc = "admitted" /\ UNCHANGED <<Quota, Penalty>>
  BY <1>0, RespondMoves
<1>2. PICK q \in ReqRec :
         /\ Moves(r, q) /\ q.key = req[r].key /\ q.outcome = req[r].outcome /\ q.back = req[r].back
         /\ (q.pc = "done" /\ q.todo = req[r].todo) \/ (q.pc = "refund" /\ q.todo = 1..layout.slots)
  BY <1>0, RespondMoves
<1>3. req[r].key \in Keys /\ req[r].outcome \in {"allowed", "failOpen", "skipped", "draft", "masked", "undrafted"}
  BY <1>0, <1>1 DEF TypeInv, Stage
<1>4. Stage(q, counted[r])
  BY <1>0, <1>2, <1>3 DEF Stage
<1> QED BY <1>0, <1>1, <1>2, <1>3, <1>4, PenaltyType, EngineQuiet

LEMMA ViolationType ==
    ASSUME TypeInv, NEW k \in Keys, RecordViolation(k)
    PROVE  violations' \in [Keys -> Nat] /\ penalties' \in [Keys -> Nat]
<1>1. violations \in [Keys -> Nat] /\ penalties \in [Keys -> Nat]
  BY DEF TypeInv
<1> QED BY <1>1 DEF RecordViolation

LEMMA EngineConclude ==
    ASSUME EngineInv, NEW r \in Requests, Conclude(r)
    PROVE  EngineInv'
<1>0. Stage(req[r], counted[r]) /\ TypeInv /\ req[r].todo \subseteq 1..layout.slots
  BY StageOf
<1>1. req[r].pc = "undo" /\ req[r].todo = {} /\ UNCHANGED Quota
  BY <1>0, ConcludeMoves
<1>2. PICK q \in ReqRec :
                 /\ Moves(r, q) /\ q.key = req[r].key /\ q.slot = req[r].slot /\ q.outcome = req[r].outcome
                 /\ q.todo = req[r].todo /\ q.back = req[r].back
                 /\ q.pc = (IF req[r].outcome \in {"draft", "masked", "undrafted"} THEN "admitted" ELSE "done")
  BY <1>0, ConcludeMoves
<1>3. req[r].key \in Keys
  BY <1>0, <1>1 DEF TypeInv
<1>4. violations' \in [Keys -> Nat] /\ penalties' \in [Keys -> Nat]
  <2>1. CASE Violates(r)
    BY <1>0, <1>3, <2>1, ViolationType DEF Conclude
  <2>2. CASE ~Violates(r)
    BY <1>0, <2>2 DEF Conclude, TypeInv
  <2> QED BY <2>1, <2>2
<1>5. Stage(q, counted[r])
  BY <1>0, <1>1, <1>2 DEF Stage, Stays
<1>6. q.pc \notin {"asked", "answered", "undo"}
  BY <1>2
<1> QED BY <1>0, <1>1, <1>2, <1>3, <1>4, <1>5, <1>6, EngineQuiet

LEMMA EngineDecrement ==
    ASSUME EngineInv, NEW r \in Requests, NEW q \in ReqRec, Moves(r, q), NEW s \in req[r].todo,
           DecrementRow(r, s), UNCHANGED <<layout, now, counted, violations, penalties>>,
           req[r].pc # "idle", q.key = req[r].key, q.slot = req[r].slot, q.todo \subseteq req[r].todo,
           q.pc = "undo" => req[r].pc = "undo", q.pc \notin {"asked", "answered"},
           Stage(q, counted[r])
    PROVE  EngineInv'
<1>0. TypeInv /\ WindowInv /\ req[r].todo \subseteq 1..layout.slots
  BY StageOf DEF EngineInv
<1>1. PICK k \in Keys : k = req[r].key
  BY <1>0 DEF TypeInv
<1>2. s \in 1..layout.slots
  BY <1>0
<1>3. /\ rows' \in [1..layout.slots -> [Keys -> Row]]
      /\ rows'[s][k].reset = rows[s][k].reset
      /\ \A x \in 1..layout.slots, y \in Keys : x # s \/ y # k => rows'[x][y] = rows[x][y]
  BY <1>0, <1>1, <1>2, DecrementValue
<1>4. ASSUME NEW x \in 1..layout.slots, NEW y \in Keys
      PROVE  rows'[x][y].reset = rows[x][y].reset /\ rows[x][y].reset \in Nat
  <2>1. rows[x][y].reset \in Nat
    BY <1>0, RowTypes
  <2>2. rows'[x][y].reset = rows[x][y].reset
    BY <1>3
  <2> QED BY <2>1, <2>2
<1>5. \A x \in 1..layout.slots, y \in Keys : rows'[x][y].reset >= rows[x][y].reset
  BY <1>4
<1>6. ASSUME NEW c \in counted'[r] PROVE c[1] \in 1..layout.slots /\ c[2] <= rows'[c[1]][q.key].reset
  <2>1. c[1] \in 1..layout.slots /\ c[2] <= rows[c[1]][k].reset
    BY <1>0, <1>1, <1>6 DEF WindowInv
  <2> QED BY <1>1, <1>4, <2>1
<1>7. q.pc \in {"asked", "answered", "undo"} => q.slot \in 1..layout.slots
  BY <1>0 DEF TypeInv
<1>8. /\ counted' \in [Requests -> SUBSET (Nat \X Nat)]
      /\ violations' \in [Keys -> Nat] /\ penalties' \in [Keys -> Nat]
  BY <1>0 DEF TypeInv
<1>9. q.todo \subseteq 1..layout.slots
  BY <1>0
<1> QED BY <1>0, <1>1, <1>3, <1>5, <1>6, <1>7, <1>8, <1>9, EngineMoved

LEMMA EngineUndo ==
    ASSUME EngineInv, NEW r \in Requests, Undo(r)
    PROVE  EngineInv'
<1>0. Stage(req[r], counted[r]) /\ TypeInv /\ req[r].pc = "undo"
  BY StageOf DEF Undo
<1>1. UNCHANGED <<layout, now, counted, violations, penalties>>
  BY DEF Undo
<1>2. PICK s \in req[r].todo : \E q \in ReqRec :
              /\ DecrementRow(r, s) /\ Moves(r, q) /\ q.pc = "undo" /\ q.key = req[r].key
              /\ q.slot = req[r].slot /\ q.outcome = req[r].outcome /\ q.todo = req[r].todo \ {s}
              /\ q.back = req[r].back \union {s}
  BY <1>0, UndoMoves
<1>3. PICK q \in ReqRec :
              /\ DecrementRow(r, s) /\ Moves(r, q) /\ q.pc = "undo" /\ q.key = req[r].key
              /\ q.slot = req[r].slot /\ q.outcome = req[r].outcome /\ q.todo = req[r].todo \ {s}
              /\ q.back = req[r].back \union {s}
  BY <1>2
<1>4. Stage(q, counted[r])
  BY <1>0, <1>3 DEF Stage, Stays
<1> QED BY <1>0, <1>1, <1>3, <1>4, EngineDecrement

LEMMA EngineRefund ==
    ASSUME EngineInv, NEW r \in Requests, Refund(r)
    PROVE  EngineInv'
<1>0. Stage(req[r], counted[r]) /\ TypeInv /\ req[r].pc = "refund"
  BY StageOf DEF Refund
<1>1. UNCHANGED <<layout, now, counted, violations, penalties>>
  BY DEF Refund
<1>2. PICK s \in req[r].todo : \E q \in ReqRec :
              /\ DecrementRow(r, s) /\ Moves(r, q) /\ req[r].pc = "refund" /\ q.key = req[r].key
              /\ q.slot = req[r].slot /\ q.todo = req[r].todo \ {s}
              /\ q.outcome = (IF req[r].outcome \in {"allowed", "failOpen", "masked", "undrafted"} THEN "refunded"
                              ELSE req[r].outcome)
              /\ \/ q.pc = "refund"
                 \/ q.pc = "done" /\ req[r].todo = {s}
  BY <1>0, RefundMoves
<1>3. PICK q \in ReqRec :
              /\ DecrementRow(r, s) /\ Moves(r, q) /\ q.key = req[r].key
              /\ q.slot = req[r].slot /\ q.todo = req[r].todo \ {s}
              /\ q.outcome = (IF req[r].outcome \in {"allowed", "failOpen", "masked", "undrafted"} THEN "refunded"
                              ELSE req[r].outcome)
              /\ q.pc \in {"refund", "done"}
  BY <1>2
<1>4. req[r].outcome \in {"allowed", "failOpen", "refunded", "skipped", "draft", "masked", "undrafted"}
  BY <1>0 DEF Stage
<1>5. Stage(q, counted[r])
  BY <1>0, <1>3, <1>4 DEF Stage
<1> QED BY <1>0, <1>1, <1>3, <1>5, EngineDecrement

LEMMA ResetRowValue ==
    ASSUME EngineInv, NEW k \in Keys, ResetRow(k)
    PROVE  /\ rows' \in [1..layout.slots -> [Keys -> Row]] /\ rows'[1][k] = NoRow
           /\ \A x \in 1..layout.slots, y \in Keys : x # 1 \/ y # k => rows'[x][y] = rows[x][y]
           /\ counted' \in [Requests -> SUBSET (Nat \X Nat)]
           /\ \A r \in Requests : counted'[r] \subseteq counted[r]
           /\ \A r \in Requests : \A c \in counted[r] :
                 c \in counted'[r] <=> ~(req[r].key = k /\ c[1] = 1)
<1>1. /\ rows \in [1..layout.slots -> [Keys -> Row]] /\ counted \in [Requests -> SUBSET (Nat \X Nat)]
      /\ 1 \in 1..layout.slots
  BY LayoutType DEF EngineInv, TypeInv
<1>2. NoRow \in Row
  BY DEF NoRow, Row
<1>3. rows' = [rows EXCEPT ![1][k] = NoRow]
  BY DEF ResetRow
<1>4. counted' = [r \in Requests |-> IF req[r].key = k THEN {c \in counted[r] : c[1] # 1}
                                      ELSE counted[r]]
  BY DEF ResetRow
<1>5. /\ rows' \in [1..layout.slots -> [Keys -> Row]] /\ rows'[1][k] = NoRow
      /\ \A x \in 1..layout.slots, y \in Keys : x # 1 \/ y # k => rows'[x][y] = rows[x][y]
  BY <1>1, <1>2, <1>3
<1>6. \A r \in Requests : counted'[r] \subseteq counted[r]
  BY <1>4
<1>7. \A r \in Requests : \A c \in counted[r] : c \in counted'[r] <=> ~(req[r].key = k /\ c[1] = 1)
  BY <1>4
<1>8. counted' \in [Requests -> SUBSET (Nat \X Nat)]
  BY <1>1, <1>4, <1>6
<1> QED BY <1>5, <1>6, <1>7, <1>8

LEMMA StageShrinks ==
    ASSUME NEW q, NEW C, NEW D, D \subseteq C, Stage(q, C)
    PROVE  Stage(q, D)
BY DEF Stage

LEMMA EngineResetRow ==
    ASSUME EngineInv, NEW k \in Keys, ResetRow(k)
    PROVE  EngineInv'
<1>0. TypeInv /\ StageInv /\ WindowInv
  BY DEF EngineInv
<1>1. /\ rows' \in [1..layout.slots -> [Keys -> Row]] /\ rows'[1][k] = NoRow
      /\ \A x \in 1..layout.slots, y \in Keys : x # 1 \/ y # k => rows'[x][y] = rows[x][y]
      /\ counted' \in [Requests -> SUBSET (Nat \X Nat)]
      /\ \A r \in Requests : counted'[r] \subseteq counted[r]
      /\ \A r \in Requests : \A c \in counted[r] :
            c \in counted'[r] <=> ~(req[r].key = k /\ c[1] = 1)
  BY ResetRowValue
<1>2. UNCHANGED <<layout, now, req, violations, penalties>>
  BY DEF ResetRow
<1>3. TypeInv'
  BY <1>0, <1>1, <1>2 DEF TypeInv
<1>4. ASSUME NEW r \in Requests PROVE Stage(req[r], counted[r])'
  <2>1. Stage(req[r], counted[r]) /\ counted'[r] \subseteq counted[r]
    BY <1>0, <1>1 DEF StageInv
  <2>2. Stage(req[r], counted'[r])
    BY <2>1, StageShrinks
  <2> QED BY <1>2, <2>2 DEF Stage, Executed
<1>5. ASSUME NEW r \in Requests, NEW c \in counted'[r]
      PROVE  c[1] \in 1..layout.slots /\ c[2] <= rows'[c[1]][req[r].key].reset
  <2>1. c \in counted[r] /\ ~(req[r].key = k /\ c[1] = 1)
    BY <1>1, <1>5
  <2>2. req[r].key \in Keys
    BY <2>1, CountedKey
  <2>3. c[1] \in 1..layout.slots /\ c[2] <= rows[c[1]][req[r].key].reset
    BY <1>0, <2>1 DEF WindowInv
  <2> QED BY <1>1, <2>1, <2>2, <2>3
<1> QED BY <1>2, <1>3, <1>4, <1>5 DEF EngineInv, StageInv, WindowInv

LEMMA EngineStep ==
    ASSUME EngineInv, [Next]_vars
    PROVE  EngineInv'
<1>0. TypeInv
  BY DEF EngineInv
<1>1. ASSUME UNCHANGED <<layout, rows, req, counted, penalties>>, now' \in Nat,
             violations' \in [Keys -> Nat]
      PROVE  EngineInv'
  BY <1>1 DEF EngineInv, TypeInv, StageInv, WindowInv, Stage, Executed
<1>2. CASE UNCHANGED vars \/ SweepShield \/ \E k \in Keys : AdminReset(k)
  <2>1. UNCHANGED <<layout, rows, req, counted, penalties, now, violations>>
    BY <1>2 DEF vars, SweepShield, AdminReset
  <2>2. now' \in Nat /\ violations' \in [Keys -> Nat]
    BY <1>0, <2>1 DEF TypeInv
  <2> QED BY <1>1, <2>1, <2>2
<1>3. CASE Tick
  <2>1. now' \in Nat /\ violations' \in [Keys -> Nat]
    BY <1>0, <1>3 DEF TypeInv, Tick
  <2> QED BY <1>1, <1>3, <2>1 DEF Tick
<1>4. ASSUME NEW k \in Keys, ForgetViolations(k) PROVE EngineInv'
  <2>1. violations' \in [Keys -> Nat] /\ now' \in Nat
    BY <1>0, <1>4 DEF TypeInv, ForgetViolations
  <2> QED BY <1>1, <1>4, <2>1 DEF ForgetViolations
<1>5. ASSUME NEW r \in Requests, NEW k \in Keys,
             Passthrough(r, k) \/ SkipBeforeEngine(r, k) \/ Refuse(r, k) \/ Consume(r, k)
      PROVE  EngineInv'
  BY <1>5, EngineBegin
<1>6. ASSUME NEW r \in Requests,
             \/ Executes(r) \/ Fails(r) \/ Deliver(r) \/ Undo(r) \/ Conclude(r)
             \/ Respond(r) \/ RespondAndRefund(r) \/ Refund(r)
      PROVE  EngineInv'
  BY <1>6, EngineExecutes, EngineFails, EngineDeliver, EngineUndo, EngineConclude, EngineRespond,
     EngineRefund
<1> QED BY <1>2, <1>3, <1>4, <1>5, <1>6, EngineResetRow DEF Next

LEMMA EngineInit == Init => EngineInv
<1> SUFFICES ASSUME Init PROVE EngineInv
  OBVIOUS
<1>1. NoRow \in Row /\ NoAnswer \in Answer
  BY DEF NoRow, Row, NoAnswer, Answer
<1>2. Idle \in ReqRec /\ Idle.pc = "idle" /\ Idle.todo = {} /\ Idle.back = {} /\ Idle.outcome = "none"
  BY <1>1 DEF Idle, ReqRec, ReqPcs, Outcomes
<1>3. TypeInv
  BY <1>1, <1>2 DEF Init, TypeInv, Slots
<1>4. \A r \in Requests : req[r] = Idle /\ counted[r] = {}
  BY DEF Init
<1>5. StageInv
  BY <1>2, <1>4 DEF StageInv, Stage
<1>6. WindowInv
  BY <1>4 DEF WindowInv
<1> QED BY <1>3, <1>5, <1>6 DEF EngineInv

-----------------------------------------------------------------------------
(* The penalty box is earned                                               *)

Convicted(k) == {r \in Requests : /\ req[r].key = k /\ req[r].pc = "done"
                                  /\ req[r].outcome = "blocked"}

PenaltyInv == \A k \in Keys :
    Cardinality(Convicted(k)) >= layout.threshold * penalties[k] + violations[k]

LEMMA RequestSets ==
    ASSUME NEW S, S \subseteq Requests
    PROVE  IsFiniteSet(S) /\ Cardinality(S) \in Nat
<1>1. IsFiniteSet(Requests)
  BY EngineAssumption
<1>2. IsFiniteSet(S)
  BY <1>1, FS_Subset
<1> QED BY <1>2, FS_CardinalityType

LEMMA SubsetCount ==
    ASSUME NEW S, NEW T, S \subseteq T, T \subseteq Requests
    PROVE  Cardinality(S) <= Cardinality(T) /\ Cardinality(S) \in Nat /\ Cardinality(T) \in Nat
BY RequestSets, FS_Subset

\* A request that is done stays as it is.
LEMMA DoneStays ==
    ASSUME EngineInv, [Next]_vars, NEW x \in Requests, req[x].pc = "done"
    PROVE  req'[x] = req[x]
<1>0. TypeInv
  BY DEF EngineInv
<1>1. ASSUME NEW r \in Requests, req[r].pc # "done", NEW q \in ReqRec, Moves(r, q)
      PROVE  req'[x] = req[x]
  BY <1>0, <1>1, Moved
<1>2. CASE UNCHANGED req
  BY <1>2
<1>3. ASSUME NEW r \in Requests, NEW k \in Keys,
             Passthrough(r, k) \/ SkipBeforeEngine(r, k) \/ Refuse(r, k) \/ Consume(r, k)
      PROVE  req'[x] = req[x]
  <2>1. req[r].pc = "idle" /\ \E q \in ReqRec : Moves(r, q)
    BY <1>0, <1>3, BeginMoves
  <2> QED BY <1>1, <2>1
<1>4. ASSUME NEW r \in Requests, Executes(r) PROVE req'[x] = req[x]
  <2>1. req[r].pc = "asked"
    BY <1>4 DEF Executes
  <2>2. req[r].slot \in 1..layout.slots /\ req[r].key \in Keys
    BY <1>0, <2>1 DEF TypeInv
  <2>3. \E q \in ReqRec : Moves(r, q)
    BY <1>0, <1>4, <2>2, ExecutesMoves
  <2> QED BY <1>1, <2>1, <2>3
<1>5. ASSUME NEW r \in Requests,
             Fails(r) \/ Deliver(r) \/ Conclude(r) \/ Respond(r) \/ RespondAndRefund(r)
      PROVE  req'[x] = req[x]
  <2>1. req[r].pc # "done" /\ \E q \in ReqRec : Moves(r, q)
    BY <1>0, <1>5, FailsMoves, DeliverMoves, ConcludeMoves, RespondMoves
  <2> QED BY <1>1, <2>1
<1>6. ASSUME NEW r \in Requests, Undo(r) \/ Refund(r) PROVE req'[x] = req[x]
  <2>1. req[r].pc # "done"
    BY <1>6 DEF Undo, Refund
  <2>2. \E q \in ReqRec : Moves(r, q)
    BY <1>0, <1>6, UndoMoves, RefundMoves
  <2> QED BY <1>1, <2>1, <2>2
<1>7. CASE \/ UNCHANGED vars \/ SweepShield \/ Tick
           \/ \E k \in Keys : AdminReset(k) \/ ResetRow(k) \/ ForgetViolations(k)
  <2>1. UNCHANGED req
    BY <1>7 DEF vars, SweepShield, Tick, AdminReset, ResetRow, ForgetViolations
  <2> QED BY <1>2, <2>1
<1> QED BY <1>3, <1>4, <1>5, <1>6, <1>7 DEF Next

LEMMA PenaltySame ==
    ASSUME EngineInv, PenaltyInv, [Next]_vars, layout' = layout, penalties' = penalties,
           NEW k \in Keys, violations'[k] \in Nat, violations'[k] <= violations[k]
    PROVE  Cardinality(Convicted(k)') >= layout.threshold * penalties[k] + violations'[k]
<1>1. Convicted(k) \subseteq Convicted(k)'
  BY DoneStays DEF Convicted
<1>2. Convicted(k)' \subseteq Requests
  BY DEF Convicted
<1>3. PICK S : S = Convicted(k)
  OBVIOUS
<1>4. PICK T : T = Convicted(k)'
  OBVIOUS
<1>5. Cardinality(S) <= Cardinality(T) /\ Cardinality(S) \in Nat /\ Cardinality(T) \in Nat
  BY <1>1, <1>2, <1>3, <1>4, SubsetCount
<1>6. Cardinality(S) >= layout.threshold * penalties[k] + violations[k]
  BY <1>3 DEF PenaltyInv
<1>7. layout.threshold \in Nat /\ penalties[k] \in Nat /\ violations[k] \in Nat
  BY LayoutType DEF EngineInv, TypeInv
<1>8. layout.threshold * penalties[k] \in Nat
  BY <1>7
<1>9. Cardinality(T) >= layout.threshold * penalties[k] + violations'[k]
  BY <1>5, <1>6, <1>7, <1>8
<1> QED BY <1>4, <1>9

LEMMA Distribute == ASSUME NEW a \in Nat, NEW b \in Nat PROVE a * (b + 1) = a * b + a /\ a * b \in Nat
OBVIOUS

\* The request that is over the limit is a witness of its own.
LEMMA PenaltyViolation ==
    ASSUME EngineInv, PenaltyInv, [Next]_vars, NEW r \in Requests, Conclude(r), Violates(r),
           NEW k \in Keys, k = req[r].key
    PROVE  Cardinality(Convicted(k)') >= layout.threshold * penalties'[k] + violations'[k]
<1>0. TypeInv
  BY DEF EngineInv
<1>1. RecordViolation(k) /\ req[r].outcome = "blocked" /\ req[r].pc = "undo"
  BY DEF Conclude, Violates
<1>2. PICK q \in ReqRec : Moves(r, q) /\ q.key = k /\ q.outcome = "blocked" /\ q.pc = "done"
  BY <1>0, <1>1, ConcludeMoves
<1>3. r \in Convicted(k)' /\ r \notin Convicted(k)
  BY <1>0, <1>1, <1>2, Moved DEF Convicted
<1>4. Convicted(k) \subseteq Convicted(k)'
  BY DoneStays DEF Convicted
<1>5. PICK S : S = Convicted(k)
  OBVIOUS
<1>6. PICK T : T = Convicted(k)'
  OBVIOUS
<1>7. S \subseteq Requests /\ T \subseteq Requests /\ S \union {r} \subseteq T /\ r \notin S
  BY <1>3, <1>4, <1>5, <1>6 DEF Convicted
<1>8. IsFiniteSet(S) /\ Cardinality(S) \in Nat
  BY <1>7, RequestSets
<1>9. Cardinality(S \union {r}) = Cardinality(S) + 1
  BY <1>7, <1>8, FS_AddElement
<1>10. Cardinality(S \union {r}) <= Cardinality(T) /\ Cardinality(T) \in Nat
  BY <1>7, SubsetCount
<1>11. Cardinality(S) >= layout.threshold * penalties[k] + violations[k]
  BY <1>5 DEF PenaltyInv
<1>12. layout.threshold \in Nat /\ penalties[k] \in Nat /\ violations[k] \in Nat
       /\ violations \in [Keys -> Nat] /\ penalties \in [Keys -> Nat]
  BY <1>0, LayoutType DEF TypeInv
<1>13. PICK m \in Nat : m = layout.threshold * penalties[k]
  BY <1>12
<1>14. CASE violations[k] + 1 >= layout.threshold
  <2>1. violations'[k] = 0 /\ penalties'[k] = penalties[k] + 1
    BY <1>1, <1>12, <1>14 DEF RecordViolation
  <2>2. layout.threshold * penalties'[k] = m + layout.threshold
    BY <1>12, <1>13, <2>1, Distribute
  <2>3. Cardinality(T) >= (m + layout.threshold) + 0
    BY <1>8, <1>9, <1>10, <1>11, <1>12, <1>13, <1>14
  <2> QED BY <1>6, <2>1, <2>2, <2>3
<1>15. CASE ~(violations[k] + 1 >= layout.threshold)
  <2>1. violations'[k] = violations[k] + 1 /\ penalties'[k] = penalties[k]
    BY <1>1, <1>12, <1>15 DEF RecordViolation
  <2>2. Cardinality(T) >= m + (violations[k] + 1)
    BY <1>8, <1>9, <1>10, <1>11, <1>12, <1>13
  <2> QED BY <1>6, <1>13, <2>1, <2>2
<1> QED BY <1>14, <1>15

\* Only a concluded or a forgotten violation touches the penalty box.
LEMMA StepKinds ==
    ASSUME [Next]_vars
    PROVE  /\ layout' = layout
           /\ \/ UNCHANGED <<violations, penalties>>
              \/ \E x \in Keys : ForgetViolations(x)
              \/ \E r \in Requests : Conclude(r)
<1>1. ASSUME NEW r \in Requests, NEW k \in Keys,
             Passthrough(r, k) \/ SkipBeforeEngine(r, k) \/ Refuse(r, k) \/ Consume(r, k)
      PROVE  UNCHANGED <<layout, violations, penalties>>
  BY <1>1 DEF Passthrough, SkipBeforeEngine, Refuse, Consume
<1>2. ASSUME NEW r \in Requests, Executes(r) PROVE UNCHANGED <<layout, violations, penalties>>
  BY <1>2 DEF Executes
<1>3. ASSUME NEW r \in Requests, Fails(r) PROVE UNCHANGED <<layout, violations, penalties>>
  BY <1>3 DEF Fails
<1>4. ASSUME NEW r \in Requests, Deliver(r) PROVE UNCHANGED <<layout, violations, penalties>>
  BY <1>4 DEF Deliver
<1>5. ASSUME NEW r \in Requests, Undo(r) \/ Respond(r) \/ RespondAndRefund(r) \/ Refund(r)
      PROVE  UNCHANGED <<layout, violations, penalties>>
  BY <1>5 DEF Undo, Respond, RespondAndRefund, Refund
<1>6. ASSUME NEW r \in Requests, Conclude(r) PROVE layout' = layout
  BY <1>6 DEF Conclude
<1>7. ASSUME NEW k \in Keys, AdminReset(k) \/ ResetRow(k) PROVE UNCHANGED <<layout, violations, penalties>>
  BY <1>7 DEF AdminReset, ResetRow
<1>8. ASSUME NEW k \in Keys, ForgetViolations(k) PROVE layout' = layout
  BY <1>8 DEF ForgetViolations
<1>9. ASSUME SweepShield \/ Tick \/ UNCHANGED vars PROVE UNCHANGED <<layout, violations, penalties>>
  BY <1>9 DEF SweepShield, Tick, vars
<1> QED BY <1>1, <1>2, <1>3, <1>4, <1>5, <1>6, <1>7, <1>8, <1>9 DEF Next

LEMMA PenaltyStep ==
    ASSUME EngineInv, PenaltyInv, [Next]_vars
    PROVE  PenaltyInv'
<1>0. TypeInv /\ violations \in [Keys -> Nat] /\ penalties \in [Keys -> Nat]
  BY DEF EngineInv, TypeInv
<1>1. layout' = layout
  BY StepKinds
<1>2. ASSUME NEW k \in Keys
      PROVE  Cardinality(Convicted(k)') >= layout.threshold * penalties'[k] + violations'[k]
  <2>1. CASE penalties' = penalties /\ violations'[k] \in Nat /\ violations'[k] <= violations[k]
    BY <1>1, <2>1, PenaltySame
  <2>2. CASE UNCHANGED <<violations, penalties>>
    BY <1>0, <2>1, <2>2
  <2>3. CASE \E x \in Keys : ForgetViolations(x)
    <3>1. penalties' = penalties /\ violations'[k] \in Nat /\ violations'[k] <= violations[k]
      BY <1>0, <2>3 DEF ForgetViolations
    <3> QED BY <2>1, <3>1
  <2>4. ASSUME NEW r \in Requests, Conclude(r)
        PROVE  Cardinality(Convicted(k)') >= layout.threshold * penalties'[k] + violations'[k]
    <3>1. CASE ~Violates(r)
      BY <2>2, <2>4, <3>1 DEF Conclude
    <3>2. CASE Violates(r) /\ k = req[r].key
      BY <2>4, <3>2, PenaltyViolation
    <3>3. CASE Violates(r) /\ k # req[r].key
      <4>1. PICK x \in Keys : x = req[r].key
        BY <1>0, <2>4 DEF Conclude, TypeInv
      <4>2. RecordViolation(x) /\ x # k
        BY <2>4, <3>3, <4>1 DEF Conclude
      <4>3. penalties'[k] = penalties[k] /\ violations'[k] = violations[k]
        BY <1>0, <4>2 DEF RecordViolation
      <4>4. Convicted(k) \subseteq Convicted(k)'
        BY DoneStays DEF Convicted
      <4>5. PICK S : S = Convicted(k)
        OBVIOUS
      <4>6. PICK T : T = Convicted(k)'
        OBVIOUS
      <4>7. S \subseteq T /\ T \subseteq Requests
        BY <4>4, <4>5, <4>6 DEF Convicted
      <4>8. Cardinality(S) <= Cardinality(T) /\ Cardinality(S) \in Nat /\ Cardinality(T) \in Nat
        BY <4>7, SubsetCount
      <4>9. Cardinality(S) >= layout.threshold * penalties[k] + violations[k]
        BY <4>5 DEF PenaltyInv
      <4>10. layout.threshold \in Nat /\ penalties[k] \in Nat /\ violations[k] \in Nat
        BY <1>0, LayoutType
      <4>11. layout.threshold * penalties[k] \in Nat
        BY <4>10
      <4>12. Cardinality(T) >= layout.threshold * penalties[k] + violations[k]
        BY <4>8, <4>9, <4>10, <4>11
      <4> QED BY <4>3, <4>6, <4>12
    <3> QED BY <3>1, <3>2, <3>3
  <2>5. \/ UNCHANGED <<violations, penalties>> \/ (\E x \in Keys : ForgetViolations(x))
        \/ \E r \in Requests : Conclude(r)
    BY StepKinds
  <2> QED BY <2>2, <2>3, <2>4, <2>5
<1> QED BY <1>1, <1>2 DEF PenaltyInv

LEMMA PenaltyInit == Init => PenaltyInv
<1> SUFFICES ASSUME Init, NEW k \in Keys
             PROVE  Cardinality(Convicted(k)) >= layout.threshold * penalties[k] + violations[k]
  BY DEF PenaltyInv
<1>1. Convicted(k) \subseteq Requests
  BY DEF Convicted
<1>2. Cardinality(Convicted(k)) \in Nat
  BY <1>1, RequestSets
<1>3. penalties[k] = 0 /\ violations[k] = 0
  BY DEF Init
<1>4. layout.threshold \in Nat
  BY EngineInit, LayoutType DEF EngineInv
<1>5. layout.threshold * 0 = 0
  BY <1>4
<1> QED BY <1>2, <1>3, <1>5

\* The penalty box is earned, for every threshold and however requests, outages, drafts and
\* errors are mixed: each time a key was put into it, violationsThreshold requests of that
\* key were over a limit, and no request is a witness twice.
THEOREM PenaltyEarned == Spec => []PenaltyDeserved
<1>1. Init => EngineInv /\ PenaltyInv
  BY EngineInit, PenaltyInit
<1>2. EngineInv /\ PenaltyInv /\ [Next]_vars => (EngineInv /\ PenaltyInv)'
  BY EngineStep, PenaltyStep
<1>3. EngineInv /\ PenaltyInv => PenaltyDeserved
  <2> SUFFICES ASSUME EngineInv, PenaltyInv, NEW k \in Keys
               PROVE  Cardinality({r \in Of(k) : req[r].outcome = "blocked"})
                          >= layout.threshold * penalties[k] + violations[k]
    BY DEF PenaltyDeserved
  <2>1. PICK S : S = Convicted(k)
    OBVIOUS
  <2>2. PICK T : T = {r \in Of(k) : req[r].outcome = "blocked"}
    OBVIOUS
  <2>3. S \subseteq T /\ T \subseteq Requests
    BY <2>1, <2>2 DEF Convicted, Of
  <2>4. Cardinality(S) <= Cardinality(T) /\ Cardinality(S) \in Nat /\ Cardinality(T) \in Nat
    BY <2>3, SubsetCount
  <2>5. Cardinality(S) >= layout.threshold * penalties[k] + violations[k]
    BY <2>1 DEF PenaltyInv
  <2>6. layout.threshold \in Nat /\ penalties[k] \in Nat /\ violations[k] \in Nat
    BY LayoutType DEF EngineInv, TypeInv
  <2>7. layout.threshold * penalties[k] \in Nat
    BY <2>6
  <2>8. Cardinality(T) >= layout.threshold * penalties[k] + violations[k]
    BY <2>4, <2>5, <2>6, <2>7
  <2> QED BY <2>2, <2>8
<1> QED BY <1>1, <1>2, <1>3, PTL DEF Spec

-----------------------------------------------------------------------------
(* Every count is held by a request                                        *)

\* The request still accounts for its hit in slot s, if s has counted it.
Keeps(q, s) ==
    \/ q.pc \in {"asked", "answered"}
    \/ q.pc \in {"undo", "admitted"} /\ s \notin q.back
    \/ q.pc = "refund" /\ s \in q.todo /\ s \notin q.back
    \/ q.pc = "done" /\ Stays(q, s)

\* Slot s has found the request within its limit, and lets it go on.
WithinLimit(q, s) == \/ q.outcome \in {"allowed", "failOpen"}
                     \/ q.outcome = "undrafted" /\ s # q.slot

Passes(q, s) ==
    \/ q.pc = "asked"
    \/ q.pc = "answered" /\ ~(q.slot = s /\ q.result.blocked)
    \/ q.pc \in {"undo", "admitted"} /\ s \notin q.back /\ WithinLimit(q, s)
    \/ q.pc = "done" /\ WithinLimit(q, s)

Holders(s, k) == {r \in Requests : /\ req[r].key = k /\ <<s, rows[s][k].reset>> \in counted[r]
                                   /\ Keeps(req[r], s)}
Passed(s, k) == {r \in Requests : /\ req[r].key = k /\ <<s, rows[s][k].reset>> \in counted[r]
                                  /\ Passes(req[r], s)}

RowHeld(s, k) ==
    now < rows[s][k].reset =>
        /\ Cardinality(Holders(s, k)) <= rows[s][k].count
        /\ Cardinality(Passed(s, k)) <= Cap[s]
        /\ "undoLost" \notin faults => Cardinality(Holders(s, k)) = rows[s][k].count

CountInv == "tookOther" \notin faults => \A s \in 1..layout.slots, k \in Keys : RowHeld(s, k)

LEMMA PassedHeld ==
    ASSUME NEW s, NEW k PROVE Passed(s, k) \subseteq Holders(s, k) /\ Holders(s, k) \subseteq Requests
BY DEF Passed, Holders, Passes, Keeps, WithinLimit, Stays

\* A row that keeps its count, its window and those who hold it.
LEMMA RowSame ==
    ASSUME TypeInv, NEW s \in 1..layout.slots, NEW k \in Keys, RowHeld(s, k), now' \in Nat, now' >= now,
           rows'[s][k] = rows[s][k], faults \subseteq faults',
           Holders(s, k)' = Holders(s, k), Passed(s, k)' \subseteq Passed(s, k)
    PROVE  RowHeld(s, k)'
<1>1. rows[s][k].reset \in Nat /\ now \in Nat
  BY RowTypes DEF TypeInv
<1>2. SUFFICES ASSUME now' < rows[s][k].reset
               PROVE  /\ Cardinality(Holders(s, k)') <= rows[s][k].count
                      /\ Cardinality(Passed(s, k)') <= Cap[s]
                      /\ "undoLost" \notin faults' => Cardinality(Holders(s, k)') = rows[s][k].count
  BY DEF RowHeld
<1>3. now < rows[s][k].reset
  BY <1>1, <1>2
<1>4. PICK P : P = Passed(s, k)
  OBVIOUS
<1>5. PICK Q : Q = Passed(s, k)'
  OBVIOUS
<1>6. P \subseteq Requests /\ Q \subseteq P
  BY <1>4, <1>5 DEF Passed
<1>7. Cardinality(Q) <= Cardinality(P) /\ Cardinality(Q) \in Nat /\ Cardinality(P) \in Nat
  BY <1>6, SubsetCount
<1>8. Cardinality(P) <= Cap[s] /\ Cap[s] \in Nat
  BY <1>3, <1>4, LayoutType DEF RowHeld
<1>9. Cardinality(Q) <= Cap[s]
  BY <1>7, <1>8
<1> QED BY <1>3, <1>5, <1>9 DEF RowHeld

\* A move that leaves the counts alone, and its request with the same hits.
LEMMA CountQuiet ==
    ASSUME EngineInv, CountInv, NEW r \in Requests, NEW q \in ReqRec, Moves(r, q),
           UNCHANGED Quota, faults \subseteq faults', counted[r] = {} \/ q.key = req[r].key,
           \A c \in counted[r] : Keeps(q, c[1]) <=> Keeps(req[r], c[1]),
           \A c \in counted[r] : Passes(q, c[1]) => Passes(req[r], c[1])
    PROVE  CountInv'
<1>0. TypeInv /\ UNCHANGED <<layout, now, rows, counted>> /\ now' \in Nat /\ now' >= now
  BY DEF EngineInv, TypeInv, Quota
<1>1. req'[r] = q /\ \A x \in Requests : x # r => req'[x] = req[x]
  BY <1>0, Moved
<1>2. SUFFICES ASSUME "tookOther" \notin faults', NEW s \in 1..layout.slots, NEW k \in Keys
               PROVE  RowHeld(s, k)'
  BY <1>0 DEF CountInv
<1>3. RowHeld(s, k)
  BY <1>2 DEF CountInv
<1>4. PICK c : c = <<s, rows[s][k].reset>>
  OBVIOUS
<1>5. c[1] = s
  BY <1>4
<1>6. ASSUME NEW x \in Requests
      PROVE  /\ (req'[x].key = k /\ c \in counted[x] /\ Keeps(req'[x], s)
                   <=> req[x].key = k /\ c \in counted[x] /\ Keeps(req[x], s))
             /\ (req'[x].key = k /\ c \in counted[x] /\ Passes(req'[x], s)
                   => req[x].key = k /\ c \in counted[x] /\ Passes(req[x], s))
  <2>1. CASE x = r
    BY <1>1, <1>5, <2>1
  <2>2. CASE x # r
    BY <1>1, <2>2
  <2> QED BY <2>1, <2>2
<1>7. Holders(s, k)' = {x \in Requests : req'[x].key = k /\ c \in counted[x] /\ Keeps(req'[x], s)}
  BY <1>0, <1>4 DEF Holders, Keeps, Stays
<1>8. Passed(s, k)' = {x \in Requests : req'[x].key = k /\ c \in counted[x] /\ Passes(req'[x], s)}
  BY <1>0, <1>4 DEF Passed, Passes, WithinLimit
<1>9. Holders(s, k)' = Holders(s, k)
  BY <1>4, <1>6, <1>7 DEF Holders
<1>10. Passed(s, k)' \subseteq Passed(s, k)
  BY <1>4, <1>6, <1>8 DEF Passed
<1> QED BY <1>0, <1>3, <1>9, <1>10, RowSame

LEMMA CountBegin ==
    ASSUME EngineInv, CountInv, NEW r \in Requests, NEW k \in Keys,
           Passthrough(r, k) \/ SkipBeforeEngine(r, k) \/ Refuse(r, k) \/ Consume(r, k)
    PROVE  CountInv'
<1>0. Stage(req[r], counted[r]) /\ TypeInv
  BY StageOf
<1>1. req[r].pc = "idle" /\ UNCHANGED Quota /\ faults \subseteq faults' /\ \E q \in ReqRec : Moves(r, q)
  BY <1>0, BeginMoves
<1>2. counted[r] = {}
  BY <1>0, <1>1 DEF Stage
<1> QED BY <1>1, <1>2, CountQuiet

LEMMA CountFails ==
    ASSUME EngineInv, CountInv, NEW r \in Requests, Fails(r)
    PROVE  CountInv'
<1>0. TypeInv
  BY StageOf
<1>1. req[r].pc = "asked" /\ UNCHANGED Quota /\ faults \subseteq faults'
  BY <1>0, FailsMoves
<1>2. PICK q \in ReqRec : Moves(r, q) /\ q.pc = "answered" /\ q.key = req[r].key
  BY <1>0, FailsMoves
<1>3. \A s : Keeps(q, s) /\ Keeps(req[r], s) /\ Passes(req[r], s)
  BY <1>1, <1>2 DEF Keeps, Passes
<1> QED BY <1>1, <1>2, <1>3, CountQuiet

LEMMA CountDeliver ==
    ASSUME EngineInv, CountInv, NEW r \in Requests, Deliver(r)
    PROVE  CountInv'
<1>0. Stage(req[r], counted[r]) /\ TypeInv
  BY StageOf
<1>1. req[r].pc = "answered" /\ UNCHANGED Quota /\ faults \subseteq faults' /\ req[r].back = {}
  BY <1>0, DeliverMoves DEF Stage
<1>2. PICK q \in ReqRec :
                 /\ Moves(r, q) /\ q.key = req[r].key /\ q.outcome = OutcomeOf(r) /\ q.todo = ToUndo(r)
                 /\ q.back = req[r].back
                 /\ \/ /\ req[r].result.blocked \/ req[r].result.threw
                       /\ q.pc = "undo" /\ q.slot = req[r].slot
                    \/ ~req[r].result.blocked /\ ~req[r].result.threw /\ q.pc \in {"asked", "admitted"}
  BY <1>0, DeliverMoves
<1>3. \A s : Keeps(req[r], s)
  BY <1>1 DEF Keeps
<1>4. CASE /\ req[r].result.blocked \/ req[r].result.threw
           /\ q.pc = "undo" /\ q.slot = req[r].slot
  <2>1. \A s : Keeps(q, s)
    BY <1>1, <1>2, <1>4 DEF Keeps
  <2>2. ASSUME NEW c \in counted[r], Passes(q, c[1]) PROVE Passes(req[r], c[1])
    <3>1. c[1] # req[r].slot
      BY <1>0, <1>2, <1>4, <2>2, RefusedMeans DEF Passes, WithinLimit
    <3> QED BY <1>1, <3>1 DEF Passes
  <2> QED BY <1>1, <1>2, <1>3, <2>1, <2>2, CountQuiet
<1>5. CASE ~req[r].result.blocked /\ ~req[r].result.threw /\ q.pc \in {"asked", "admitted"}
  <2>1. q.outcome \in {"allowed", "failOpen"}
    BY <1>0, <1>2, <1>5, AllowedMeans
  <2>2. \A s : Keeps(q, s) /\ Passes(req[r], s)
    BY <1>1, <1>2, <1>5, <2>1 DEF Keeps, Passes
  <2> QED BY <1>1, <1>2, <1>3, <2>2, CountQuiet
<1> QED BY <1>2, <1>4, <1>5

LEMMA CountConclude ==
    ASSUME EngineInv, CountInv, NEW r \in Requests, Conclude(r)
    PROVE  CountInv'
<1>0. Stage(req[r], counted[r]) /\ TypeInv
  BY StageOf
<1>1. req[r].pc = "undo" /\ req[r].todo = {} /\ UNCHANGED Quota /\ faults \subseteq faults'
  BY <1>0, ConcludeMoves
<1>2. PICK q \in ReqRec :
                 /\ Moves(r, q) /\ q.key = req[r].key /\ q.slot = req[r].slot /\ q.outcome = req[r].outcome
                 /\ q.todo = req[r].todo /\ q.back = req[r].back
                 /\ q.pc = (IF req[r].outcome \in {"draft", "masked", "undrafted"} THEN "admitted" ELSE "done")
  BY <1>0, ConcludeMoves
<1>3. /\ q.outcome \in {"threw", "unavailable", "draft", "blocked", "masked", "undrafted"}
      /\ \A c \in counted[r] : c[1] \in q.back <=> ~Stays(q, c[1])
  BY <1>0, <1>1, <1>2 DEF Stage, Stays
<1>4. \A c \in counted[r] : Keeps(q, c[1]) <=> Keeps(req[r], c[1])
  BY <1>1, <1>2, <1>3 DEF Keeps
<1>5. \A s : Passes(q, s) => Passes(req[r], s)
  BY <1>1, <1>2, <1>3 DEF Passes, WithinLimit
<1> QED BY <1>1, <1>2, <1>4, <1>5, CountQuiet

LEMMA CountRespond ==
    ASSUME EngineInv, CountInv, NEW r \in Requests, Respond(r) \/ RespondAndRefund(r)
    PROVE  CountInv'
<1>0. Stage(req[r], counted[r]) /\ TypeInv
  BY StageOf
<1>1. req[r].pc = "admitted" /\ UNCHANGED Quota /\ faults \subseteq faults'
  BY <1>0, RespondMoves
<1>2. PICK q \in ReqRec :
         /\ Moves(r, q) /\ q.key = req[r].key /\ q.slot = req[r].slot /\ q.outcome = req[r].outcome
         /\ q.back = req[r].back
         /\ (q.pc = "done" /\ q.todo = req[r].todo) \/ (q.pc = "refund" /\ q.todo = 1..layout.slots)
  BY <1>0, RespondMoves
<1>3. ASSUME NEW c \in counted[r]
      PROVE  /\ Keeps(q, c[1]) <=> Keeps(req[r], c[1])
             /\ Passes(q, c[1]) => Passes(req[r], c[1])
  <2>1. c[1] \in q.back <=> ~Stays(q, c[1])
    BY <1>0, <1>1, <1>2 DEF Stage, Stays
  <2>2. c[1] \in 1..layout.slots
    BY CountedSlot
  <2>3. WithinLimit(q, c[1]) => Stays(q, c[1]) /\ WithinLimit(req[r], c[1])
    BY <1>2 DEF WithinLimit, Stays
  <2> QED BY <1>1, <1>2, <2>1, <2>2, <2>3 DEF Keeps, Passes
<1> QED BY <1>1, <1>2, <1>3, CountQuiet

\* A decrement ends the request's hold on the slot, with its hit or without.
LEMMA CountDecrement ==
    ASSUME EngineInv, CountInv, NEW r \in Requests, NEW q \in ReqRec, Moves(r, q), NEW s \in req[r].todo,
           DecrementRow(r, s), UNCHANGED <<layout, now, counted>>,
           req[r].pc # "idle", q.key = req[r].key,
           \A c \in counted[r] : c[1] # s => (Keeps(q, c[1]) <=> Keeps(req[r], c[1])),
           Keeps(req[r], s) <=> s \notin req[r].back,
           \A c \in counted[r] : c[1] = s => ~Keeps(q, s),
           \A c \in counted[r] : Passes(q, c[1]) => Passes(req[r], c[1])
    PROVE  CountInv'
<1>0. TypeInv /\ s \in 1..layout.slots /\ now \in Nat
  BY StageOf DEF TypeInv
<1>1. PICK k \in Keys : k = req[r].key
  BY <1>0 DEF TypeInv
<1>2. req'[r] = q /\ \A x \in Requests : x # r => req'[x] = req[x]
  BY <1>0, Moved
<1>3. /\ faults \subseteq faults'
      /\ rows'[s][k].reset = rows[s][k].reset
      /\ \A x \in 1..layout.slots, y \in Keys : x # s \/ y # k => rows'[x][y] = rows[x][y]
      /\ "tookOther" \notin faults' /\ now < rows[s][k].reset =>
                 \/ Own(r, s) /\ rows[s][k].count > 0 /\ rows'[s][k].count = rows[s][k].count - 1
                 \/ Own(r, s) /\ rows[s][k].count = 0
                 \/ ~Own(r, s) /\ rows'[s][k].count = rows[s][k].count
                 \/ "undoLost" \in faults' /\ rows'[s][k].count = rows[s][k].count
  BY <1>0, <1>1, DecrementValue
<1>4. SUFFICES ASSUME "tookOther" \notin faults', NEW x \in 1..layout.slots, NEW y \in Keys
               PROVE  RowHeld(x, y)'
  BY DEF CountInv
<1>5. RowHeld(x, y) /\ rows'[x][y].reset = rows[x][y].reset
  BY <1>3, <1>4 DEF CountInv
<1>6. PICK c : c = <<x, rows[x][y].reset>>
  OBVIOUS
<1>7. c[1] = x
  BY <1>6
<1>8. Holders(x, y)' = {z \in Requests : req'[z].key = y /\ c \in counted[z] /\ Keeps(req'[z], x)}
  BY <1>5, <1>6 DEF Holders, Keeps, Stays
<1>9. Passed(x, y)' = {z \in Requests : req'[z].key = y /\ c \in counted[z] /\ Passes(req'[z], x)}
  BY <1>5, <1>6 DEF Passed, Passes, WithinLimit
<1>10. Passed(x, y)' \subseteq Passed(x, y)
  <2>1. ASSUME NEW z \in Requests, req'[z].key = y, c \in counted[z], Passes(req'[z], x)
        PROVE  req[z].key = y /\ Passes(req[z], x)
    <3>1. CASE z = r
      BY <1>2, <1>7, <2>1, <3>1
    <3>2. CASE z # r
      BY <1>2, <2>1, <3>2
    <3> QED BY <3>1, <3>2
  <2> QED BY <1>6, <1>9, <2>1 DEF Passed
<1>11. CASE x # s \/ y # k
  <2>1. ASSUME NEW z \in Requests
        PROVE  (req'[z].key = y /\ c \in counted[z] /\ Keeps(req'[z], x))
                  <=> (req[z].key = y /\ c \in counted[z] /\ Keeps(req[z], x))
    <3>1. CASE z = r
      BY <1>1, <1>2, <1>7, <1>11, <3>1
    <3>2. CASE z # r
      BY <1>2, <3>2
    <3> QED BY <3>1, <3>2
  <2>2. Holders(x, y)' = Holders(x, y)
    BY <1>6, <1>8, <2>1 DEF Holders
  <2>3. rows'[x][y] = rows[x][y] /\ now' >= now /\ now' \in Nat
    BY <1>0, <1>3, <1>11
  <2> QED BY <1>0, <1>3, <1>5, <1>10, <2>2, <2>3, RowSame
<1>12. CASE x = s /\ y = k
  <2>1. PICK H : H = Holders(x, y)
    OBVIOUS
  <2>2. PICK G : G = Holders(x, y)'
    OBVIOUS
  <2>3. H \subseteq Requests /\ G = H \ {r} /\ (r \in H <=> Own(r, s))
    <3>1. ASSUME NEW z \in Requests, z # r PROVE z \in G <=> z \in H
      BY <1>2, <1>6, <1>8, <2>1, <2>2, <3>1 DEF Holders
    <3>2. r \notin G
      BY <1>2, <1>7, <1>8, <1>12, <2>2
    <3>3. r \in H <=> Own(r, s)
      BY <1>1, <1>6, <1>7, <1>12, <2>1 DEF Holders, Own
    <3>4. G \subseteq Requests /\ H \subseteq Requests
      BY <1>8, <2>1, <2>2 DEF Holders
    <3> QED BY <3>1, <3>2, <3>3, <3>4
  <2>4. IsFiniteSet(H) /\ Cardinality(H) \in Nat
    BY <2>3, RequestSets
  <2>5. Cardinality(G) = (IF r \in H THEN Cardinality(H) - 1 ELSE Cardinality(H))
    BY <2>3, <2>4, FS_RemoveElement
  <2>6. r \in H => Cardinality(H) > 0
    <3>1. r \in H => H # {}
      OBVIOUS
    <3>2. H # {} => Cardinality(H) # 0
      BY <2>4, FS_EmptySet
    <3> QED BY <2>4, <3>1, <3>2
  <2>7. rows[x][y].count \in Nat
    BY <1>0, RowTypes
  <2>8. ASSUME now < rows[x][y].reset
        PROVE  /\ Cardinality(G) <= rows'[x][y].count
               /\ Cardinality(Passed(x, y)') <= Cap[x]
               /\ "undoLost" \notin faults' => Cardinality(G) = rows'[x][y].count
    <3>1. /\ Cardinality(H) <= rows[x][y].count
          /\ Cardinality(Passed(x, y)) <= Cap[x]
          /\ "undoLost" \notin faults' => Cardinality(H) = rows[x][y].count
      BY <1>3, <1>5, <2>1, <2>8 DEF RowHeld
    <3>2. \/ Own(r, s) /\ rows[x][y].count > 0 /\ rows'[x][y].count = rows[x][y].count - 1
          \/ Own(r, s) /\ rows[x][y].count = 0
          \/ ~Own(r, s) /\ rows'[x][y].count = rows[x][y].count
          \/ "undoLost" \in faults' /\ rows'[x][y].count = rows[x][y].count
      BY <1>3, <1>4, <1>12, <2>8
    <3>3. PICK P : P = Passed(x, y)
      OBVIOUS
    <3>4. PICK Q : Q = Passed(x, y)'
      OBVIOUS
    <3>5. P \subseteq Requests /\ Q \subseteq P
      BY <1>10, <3>3, <3>4 DEF Passed
    <3>6. Cardinality(Q) <= Cardinality(P) /\ Cardinality(Q) \in Nat /\ Cardinality(P) \in Nat
      BY <3>5, SubsetCount
    <3>7. Cap[x] \in Nat
      BY <1>0, LayoutType
    <3>8. Cardinality(Q) <= Cap[x]
      BY <3>1, <3>3, <3>6, <3>7
    <3>9. CASE r \in H
      <4>1. Cardinality(G) = Cardinality(H) - 1 /\ Cardinality(H) > 0
        BY <2>5, <2>6, <3>9
      <4>2. \/ rows[x][y].count > 0 /\ rows'[x][y].count = rows[x][y].count - 1
            \/ rows[x][y].count = 0
            \/ "undoLost" \in faults' /\ rows'[x][y].count = rows[x][y].count
        BY <2>3, <3>2, <3>9
      <4>3. CASE rows[x][y].count > 0 /\ rows'[x][y].count = rows[x][y].count - 1
        BY <2>4, <2>7, <3>1, <3>4, <3>8, <4>1, <4>3
      <4>4. CASE rows[x][y].count = 0
        BY <2>4, <3>1, <4>1, <4>4
      <4>5. CASE "undoLost" \in faults' /\ rows'[x][y].count = rows[x][y].count
        BY <2>4, <2>7, <3>1, <3>4, <3>8, <4>1, <4>5
      <4> QED BY <4>2, <4>3, <4>4, <4>5
    <3>10. CASE r \notin H
      <4>1. Cardinality(G) = Cardinality(H) /\ rows'[x][y].count = rows[x][y].count
        BY <2>3, <2>5, <3>2, <3>10
      <4> QED BY <3>1, <3>4, <3>8, <4>1
    <3> QED BY <3>9, <3>10
  <2> QED BY <1>5, <2>2, <2>8 DEF RowHeld
<1> QED BY <1>11, <1>12

LEMMA CountUndo ==
    ASSUME EngineInv, CountInv, NEW r \in Requests, Undo(r)
    PROVE  CountInv'
<1>0. Stage(req[r], counted[r]) /\ TypeInv /\ req[r].pc = "undo"
  BY StageOf DEF Undo
<1>1. UNCHANGED <<layout, now, counted>>
  BY DEF Undo
<1>2. PICK s \in req[r].todo : \E q \in ReqRec :
              /\ DecrementRow(r, s) /\ Moves(r, q) /\ q.pc = "undo" /\ q.key = req[r].key
              /\ q.slot = req[r].slot /\ q.outcome = req[r].outcome /\ q.todo = req[r].todo \ {s}
              /\ q.back = req[r].back \union {s}
  BY <1>0, UndoMoves
<1>3. PICK q \in ReqRec :
              /\ DecrementRow(r, s) /\ Moves(r, q) /\ q.pc = "undo" /\ q.key = req[r].key
              /\ q.slot = req[r].slot /\ q.outcome = req[r].outcome /\ q.todo = req[r].todo \ {s}
              /\ q.back = req[r].back \union {s}
  BY <1>2
<1>4. \A x : x # s => (Keeps(q, x) <=> Keeps(req[r], x))
  BY <1>0, <1>3 DEF Keeps
<1>5. /\ Keeps(req[r], s) <=> s \notin req[r].back
      /\ ~Keeps(q, s) /\ \A x : Passes(q, x) => Passes(req[r], x)
  BY <1>0, <1>3 DEF Keeps, Passes, WithinLimit
<1> QED BY <1>0, <1>1, <1>3, <1>4, <1>5, CountDecrement

LEMMA CountRefund ==
    ASSUME EngineInv, CountInv, NEW r \in Requests, Refund(r)
    PROVE  CountInv'
<1>0. Stage(req[r], counted[r]) /\ TypeInv /\ req[r].pc = "refund"
  BY StageOf DEF Refund
<1>1. UNCHANGED <<layout, now, counted>>
  BY DEF Refund
<1>2. PICK s \in req[r].todo : \E q \in ReqRec :
              /\ DecrementRow(r, s) /\ Moves(r, q) /\ req[r].pc = "refund" /\ q.key = req[r].key
              /\ q.slot = req[r].slot /\ q.todo = req[r].todo \ {s}
              /\ q.back = req[r].back
              /\ q.outcome = (IF req[r].outcome \in {"allowed", "failOpen", "masked", "undrafted"} THEN "refunded"
                              ELSE req[r].outcome)
              /\ \/ q.pc = "refund"
                 \/ q.pc = "done" /\ req[r].todo = {s}
  BY <1>0, RefundMoves
<1>3. PICK q \in ReqRec :
              /\ DecrementRow(r, s) /\ Moves(r, q) /\ q.key = req[r].key
              /\ q.slot = req[r].slot /\ q.todo = req[r].todo \ {s}
              /\ q.back = req[r].back
              /\ q.outcome = (IF req[r].outcome \in {"allowed", "failOpen", "masked", "undrafted"} THEN "refunded"
                              ELSE req[r].outcome)
              /\ \/ q.pc = "refund"
                 \/ q.pc = "done" /\ req[r].todo = {s}
  BY <1>2
<1>4. req[r].outcome \in {"allowed", "failOpen", "refunded", "skipped", "draft", "masked", "undrafted"}
  BY <1>0 DEF Stage
<1>5. q.outcome \in {"refunded", "skipped", "draft"}
  BY <1>3, <1>4
<1>6. \A x : x # s => (Keeps(q, x) <=> Keeps(req[r], x))
  BY <1>0, <1>3, <1>5 DEF Keeps, Stays
<1>7. /\ Keeps(req[r], s) <=> s \notin req[r].back
      /\ ~Keeps(q, s) /\ \A x : ~Passes(q, x)
  BY <1>0, <1>3, <1>5 DEF Keeps, Passes, Stays, WithinLimit
<1> QED BY <1>0, <1>1, <1>3, <1>6, <1>7, CountDecrement

\* The row that a store has answered from.
LEMMA CountAnswered ==
    ASSUME EngineInv, NEW r \in Requests, Executes(r), NEW s \in 1..layout.slots, NEW k \in Keys,
           s = req[r].slot, k = req[r].key, RowHeld(s, k)
    PROVE  RowHeld(s, k)'
<1>0. TypeInv /\ StageInv /\ WindowInv /\ req[r].pc = "asked" /\ now \in Nat
  BY DEF EngineInv, TypeInv, Executes
<1>1. PICK q \in ReqRec :
              /\ Moves(r, q) /\ q.pc = "answered" /\ q.key = k /\ q.slot = s
              /\ q.result.blocked = Blocks(r)
  BY <1>0, ExecutesMoves
<1>2. /\ rows'[s][k].count = (IF Counts(r) THEN Count(s, k) + 1 ELSE Count(s, k))
      /\ rows'[s][k].reset = Reset(s, k)
      /\ counted'[r] = (IF Counts(r) THEN counted[r] \union {<<s, Reset(s, k)>>} ELSE counted[r])
      /\ \A x \in Requests : x # r => counted'[x] = counted[x]
      /\ layout' = layout /\ now' = now /\ faults' = faults
  <2>1. Effect(r, s, k)
    BY <1>0, ExecutesValue
  <2> QED BY <2>1 DEF Effect
<1>3. req'[r] = q /\ \A x \in Requests : x # r => req'[x] = req[x]
  BY <1>0, <1>1, Moved
<1>4. /\ rows[s][k].count \in Nat /\ rows[s][k].reset \in Nat /\ Count(s, k) \in Nat
      /\ Reset(s, k) \in Nat
      /\ now < rows[s][k].reset => Count(s, k) = rows[s][k].count /\ Reset(s, k) = rows[s][k].reset
      /\ ~(now < rows[s][k].reset) => Count(s, k) = 0 /\ Reset(s, k) > rows[s][k].reset
  BY <1>0, RowTypes
<1>5. Cap[s] \in Nat /\ Cap[s] >= 1 /\ s \in Nat
  BY <1>0, LayoutType
<1>6. PICK w \in Nat : w = Reset(s, k)
  BY <1>4
<1>7. PICK H : H = Holders(s, k)
  OBVIOUS
<1>8. PICK G : G = Holders(s, k)'
  OBVIOUS
<1>9. PICK Q : Q = Passed(s, k)'
  OBVIOUS
<1>10. /\ G = {z \in Requests : req'[z].key = k /\ <<s, w>> \in counted'[z] /\ Keeps(req'[z], s)}
       /\ Q = {z \in Requests : req'[z].key = k /\ <<s, w>> \in counted'[z] /\ Passes(req'[z], s)}
  BY <1>2, <1>6, <1>8, <1>9 DEF Holders, Passed, Keeps, Passes, Stays, WithinLimit
<1>11. Q \subseteq G /\ G \subseteq Requests /\ H \subseteq Requests
  BY <1>7, <1>10 DEF Holders, Keeps, Passes, Stays, WithinLimit
<1>12. ASSUME NEW v PROVE <<s, v>> \notin counted[r]
  <2>1. Stage(req[r], counted[r])
    BY <1>0 DEF StageInv
  <2>2. \A c \in counted[r] : c[1] < s
    BY <1>0, <2>1 DEF Stage
  <2>3. <<s, v>>[1] = s
    OBVIOUS
  <2> QED BY <1>5, <2>2, <2>3
<1>13. r \notin H
  BY <1>7, <1>12 DEF Holders
<1>14. IsFiniteSet(H) /\ Cardinality(H) \in Nat
  BY <1>11, RequestSets
<1>15. Cardinality(Q) <= Cardinality(G) /\ Cardinality(Q) \in Nat /\ Cardinality(G) \in Nat
  BY <1>11, SubsetCount
<1>16. r \in G <=> Counts(r)
  BY <1>1, <1>2, <1>3, <1>6, <1>10, <1>12 DEF Keeps
<1>17. r \in Q => ~Blocks(r)
  BY <1>1, <1>3, <1>10 DEF Passes
<1>18. CASE now < rows[s][k].reset
  <2>1. w = rows[s][k].reset /\ Count(s, k) = rows[s][k].count
    BY <1>4, <1>6, <1>18
  <2>2. ASSUME NEW z \in Requests, z # r PROVE z \in G <=> z \in H
    BY <1>2, <1>3, <1>7, <1>10, <2>1, <2>2 DEF Holders
  <2>3. PICK P : P = Passed(s, k)
    OBVIOUS
  <2>4. ASSUME NEW z \in Requests, z # r, z \in Q PROVE z \in P
    BY <1>2, <1>3, <1>10, <2>1, <2>3, <2>4 DEF Passed
  <2>5. /\ Cardinality(H) <= rows[s][k].count
        /\ Cardinality(P) <= Cap[s]
        /\ "undoLost" \notin faults => Cardinality(H) = rows[s][k].count
    BY <1>7, <1>18, <2>3 DEF RowHeld
  <2>6. P \subseteq Requests
    BY <2>3 DEF Passed
  <2>7. CASE Counts(r)
    <3>1. G = H \union {r}
      BY <1>11, <1>16, <2>2, <2>7
    <3>2. Cardinality(G) = Cardinality(H) + 1
      BY <1>13, <1>14, <3>1, FS_AddElement
    <3>3. rows'[s][k].count = rows[s][k].count + 1
      BY <1>2, <2>1, <2>7
    <3>4. Cardinality(Q) <= Cap[s]
      <4>1. CASE r \in Q
        <5>1. ~(rows[s][k].count + 1 > Cap[s])
          BY <1>17, <2>1, <4>1 DEF Blocks
        <5> QED BY <1>4, <1>5, <1>14, <1>15, <2>5, <3>2, <5>1
      <4>2. CASE r \notin Q
        <5>1. Q \subseteq P
          BY <1>11, <2>4, <4>2
        <5>2. Cardinality(Q) <= Cardinality(P) /\ Cardinality(P) \in Nat
          BY <2>6, <5>1, SubsetCount
        <5> QED BY <1>5, <1>15, <2>5, <5>2
      <4> QED BY <4>1, <4>2
    <3>5. Cardinality(G) <= rows'[s][k].count
          /\ ("undoLost" \notin faults => Cardinality(G) = rows'[s][k].count)
      BY <1>4, <1>14, <2>5, <3>2, <3>3
    <3> QED BY <1>2, <1>8, <1>9, <3>4, <3>5 DEF RowHeld
  <2>8. CASE ~Counts(r)
    <3>1. G = H
      BY <1>11, <1>13, <1>16, <2>2, <2>8
    <3>2. rows'[s][k].count = rows[s][k].count
      BY <1>2, <2>1, <2>8
    <3>3. Q \subseteq P
      BY <1>11, <1>13, <2>4, <3>1
    <3>4. Cardinality(Q) <= Cardinality(P) /\ Cardinality(P) \in Nat
      BY <2>6, <3>3, SubsetCount
    <3>5. Cardinality(Q) <= Cap[s]
      BY <1>5, <1>15, <2>5, <3>4
    <3> QED BY <1>2, <1>8, <1>9, <2>5, <3>1, <3>2, <3>5 DEF RowHeld
  <2> QED BY <2>7, <2>8
<1>19. CASE ~(now < rows[s][k].reset)
  <2>1. Count(s, k) = 0 /\ w > rows[s][k].reset
    BY <1>4, <1>6, <1>19
  <2>2. Counts(r)
    BY <1>5, <2>1 DEF Counts, Blocks
  <2>3. ASSUME NEW z \in Requests, z # r, req[z].key = k PROVE <<s, w>> \notin counted[z]
    <3>1. SUFFICES ASSUME <<s, w>> \in counted[z] PROVE FALSE
      OBVIOUS
    <3>2. PICK c \in counted[z] : c = <<s, w>>
      BY <3>1
    <3>3. c[2] <= rows[c[1]][req[z].key].reset
      BY CountedSlot
    <3>4. c[1] = s /\ c[2] = w
      BY <3>2
    <3>5. w <= rows[s][k].reset
      BY <2>3, <3>3, <3>4
    <3> QED BY <1>4, <2>1, <3>5
  <2>4. ASSUME NEW z \in Requests, z # r PROVE z \notin G
    BY <1>2, <1>3, <1>10, <2>3, <2>4
  <2>5. G = {r}
    BY <1>11, <1>16, <2>2, <2>4
  <2>6. Cardinality(G) = 1
    BY <2>5, FS_Singleton
  <2>7. rows'[s][k].count = 1
    BY <1>2, <2>1, <2>2
  <2>8. Cardinality(Q) <= Cap[s]
    BY <1>5, <1>15, <2>6
  <2> QED BY <1>2, <1>8, <1>9, <2>6, <2>7, <2>8 DEF RowHeld
<1> QED BY <1>18, <1>19

LEMMA CountExecutes ==
    ASSUME EngineInv, CountInv, NEW r \in Requests, Executes(r)
    PROVE  CountInv'
<1>0. TypeInv /\ req[r].pc = "asked" /\ now \in Nat
  BY DEF EngineInv, TypeInv, Executes
<1>1. PICK s \in 1..layout.slots : s = req[r].slot
  BY <1>0 DEF TypeInv
<1>2. PICK k \in Keys : k = req[r].key
  BY <1>0 DEF TypeInv
<1>3. PICK q \in ReqRec : Moves(r, q) /\ q.pc = "answered" /\ q.key = k
  BY <1>0, <1>1, <1>2, ExecutesMoves
<1>4. /\ \A x \in 1..layout.slots, y \in Keys : x # s \/ y # k => rows'[x][y] = rows[x][y]
      /\ counted'[r] = (IF Counts(r) THEN counted[r] \union {<<s, Reset(s, k)>>} ELSE counted[r])
      /\ \A x \in Requests : x # r => counted'[x] = counted[x]
      /\ layout' = layout /\ now' = now /\ faults' = faults
  <2>1. Effect(r, s, k)
    BY <1>0, <1>1, <1>2, ExecutesValue
  <2> QED BY <2>1 DEF Effect
<1>5. req'[r] = q /\ \A x \in Requests : x # r => req'[x] = req[x]
  BY <1>0, <1>3, Moved
<1>6. SUFFICES ASSUME "tookOther" \notin faults', NEW x \in 1..layout.slots, NEW y \in Keys
               PROVE  RowHeld(x, y)'
  BY <1>4 DEF CountInv
<1>7. RowHeld(x, y)
  BY <1>4, <1>6 DEF CountInv
<1>8. CASE x = s /\ y = k
  BY <1>1, <1>2, <1>7, <1>8, CountAnswered
<1>9. CASE x # s \/ y # k
  <2>1. rows'[x][y] = rows[x][y] /\ now' >= now /\ now' \in Nat
    BY <1>0, <1>4, <1>9
  <2>2. PICK c : c = <<x, rows[x][y].reset>>
    OBVIOUS
  <2>3. \A z : Keeps(q, z) /\ Keeps(req[r], z) /\ Passes(req[r], z)
    BY <1>0, <1>3 DEF Keeps, Passes
  <2>4. y = k => (c \in counted'[r] <=> c \in counted[r])
    <3>1. y = k => c # <<s, Reset(s, k)>>
      BY <1>9, <2>2
    <3> QED BY <1>4, <3>1
  <2>5. ASSUME NEW z \in Requests
        PROVE  /\ (req'[z].key = y /\ c \in counted'[z] /\ Keeps(req'[z], x)
                     <=> req[z].key = y /\ c \in counted[z] /\ Keeps(req[z], x))
               /\ (req'[z].key = y /\ c \in counted'[z] /\ Passes(req'[z], x)
                     => req[z].key = y /\ c \in counted[z] /\ Passes(req[z], x))
    <3>1. CASE z = r
      BY <1>2, <1>3, <1>5, <2>3, <2>4, <3>1
    <3>2. CASE z # r
      BY <1>4, <1>5, <3>2
    <3> QED BY <3>1, <3>2
  <2>6. /\ Holders(x, y)' = {z \in Requests : req'[z].key = y /\ c \in counted'[z] /\ Keeps(req'[z], x)}
        /\ Passed(x, y)' = {z \in Requests : req'[z].key = y /\ c \in counted'[z] /\ Passes(req'[z], x)}
    BY <2>1, <2>2 DEF Holders, Passed, Keeps, Passes, Stays, WithinLimit
  <2>7. Holders(x, y)' = Holders(x, y)
    BY <2>2, <2>5, <2>6 DEF Holders
  <2>8. Passed(x, y)' \subseteq Passed(x, y)
    BY <2>2, <2>5, <2>6 DEF Passed
  <2> QED BY <1>0, <1>4, <1>7, <2>1, <2>7, <2>8, RowSame
<1> QED BY <1>8, <1>9

LEMMA CountResetRow ==
    ASSUME EngineInv, CountInv, NEW k \in Keys, ResetRow(k)
    PROVE  CountInv'
<1>0. TypeInv /\ now \in Nat
  BY DEF EngineInv, TypeInv
<1>1. /\ rows'[1][k] = NoRow
      /\ \A x \in 1..layout.slots, y \in Keys : x # 1 \/ y # k => rows'[x][y] = rows[x][y]
      /\ \A r \in Requests : counted'[r] \subseteq counted[r]
      /\ \A r \in Requests : \A c \in counted[r] :
            c \in counted'[r] <=> ~(req[r].key = k /\ c[1] = 1)
  BY ResetRowValue
<1>2. layout' = layout /\ now' = now /\ req' = req /\ faults \subseteq faults'
  BY DEF ResetRow
<1>3. SUFFICES ASSUME "tookOther" \notin faults', NEW x \in 1..layout.slots, NEW y \in Keys
               PROVE  RowHeld(x, y)'
  BY <1>2 DEF CountInv
<1>4. CASE x = 1 /\ y = k
  <2>1. rows'[x][y].reset = 0
    BY <1>1, <1>4 DEF NoRow
  <2>2. ~(now' < rows'[x][y].reset)
    BY <1>0, <1>2, <2>1
  <2> QED BY <2>2 DEF RowHeld
<1>5. CASE x # 1 \/ y # k
  <2>1. rows'[x][y] = rows[x][y] /\ now' >= now /\ now' \in Nat
    BY <1>0, <1>1, <1>2, <1>5
  <2>2. PICK c : c = <<x, rows[x][y].reset>>
    OBVIOUS
  <2>3. c[1] = x
    BY <2>2
  <2>4. ASSUME NEW z \in Requests, req[z].key = y PROVE c \in counted'[z] <=> c \in counted[z]
    BY <1>1, <1>5, <2>3, <2>4
  <2>5. /\ Holders(x, y)' = {z \in Requests : req[z].key = y /\ c \in counted'[z] /\ Keeps(req[z], x)}
        /\ Passed(x, y)' = {z \in Requests : req[z].key = y /\ c \in counted'[z] /\ Passes(req[z], x)}
    BY <1>2, <2>1, <2>2 DEF Holders, Passed, Keeps, Passes, Stays, WithinLimit
  <2>6. Holders(x, y)' = Holders(x, y) /\ Passed(x, y)' = Passed(x, y)
    BY <2>2, <2>4, <2>5 DEF Holders, Passed
  <2>7. RowHeld(x, y)
    BY <1>2, <1>3 DEF CountInv
  <2> QED BY <1>0, <1>2, <2>1, <2>6, <2>7, RowSame
<1> QED BY <1>4, <1>5

LEMMA CountStep ==
    ASSUME EngineInv, CountInv, [Next]_vars
    PROVE  CountInv'
<1>0. TypeInv /\ now \in Nat
  BY DEF EngineInv, TypeInv
<1>1. ASSUME UNCHANGED <<layout, rows, req, counted, faults>>, now' \in Nat, now' >= now
      PROVE  CountInv'
  <2>1. SUFFICES ASSUME "tookOther" \notin faults', NEW x \in 1..layout.slots, NEW y \in Keys
                 PROVE  RowHeld(x, y)'
    BY <1>1 DEF CountInv
  <2>2. Holders(x, y)' = Holders(x, y) /\ Passed(x, y)' = Passed(x, y)
    BY <1>1 DEF Holders, Passed, Keeps, Passes, Stays, WithinLimit
  <2>3. RowHeld(x, y)
    BY <1>1, <2>1 DEF CountInv
  <2> QED BY <1>0, <1>1, <2>2, <2>3, RowSame
<1>2. CASE \/ UNCHANGED vars \/ SweepShield \/ Tick
           \/ \E k \in Keys : AdminReset(k) \/ ForgetViolations(k)
  <2>1. UNCHANGED <<layout, rows, req, counted, faults>> /\ (now' = now \/ now' = now + 1)
    BY <1>2 DEF vars, SweepShield, Tick, AdminReset, ForgetViolations
  <2>2. now' \in Nat /\ now' >= now
    BY <1>0, <2>1
  <2> QED BY <1>1, <2>1, <2>2
<1>3. ASSUME NEW r \in Requests, NEW k \in Keys,
             Passthrough(r, k) \/ SkipBeforeEngine(r, k) \/ Refuse(r, k) \/ Consume(r, k)
      PROVE  CountInv'
  BY <1>3, CountBegin
<1>4. ASSUME NEW r \in Requests,
             \/ Executes(r) \/ Fails(r) \/ Deliver(r) \/ Undo(r) \/ Conclude(r)
             \/ Respond(r) \/ RespondAndRefund(r) \/ Refund(r)
      PROVE  CountInv'
  BY <1>4, CountExecutes, CountFails, CountDeliver, CountUndo, CountConclude, CountRespond, CountRefund
<1> QED BY <1>2, <1>3, <1>4, CountResetRow DEF Next

LEMMA CountInit == Init => CountInv
<1> SUFFICES ASSUME Init, NEW s \in 1..layout.slots, NEW k \in Keys PROVE RowHeld(s, k)
  BY DEF CountInv
<1>1. rows[s][k].reset = 0 /\ now = 0
  BY DEF Init, Slots, NoRow
<1> QED BY <1>1 DEF RowHeld

\* Whatever rollbacks, refunds and resets run beside them, one open window of a slot lets
\* no more requests through than its limit, as long as no decrement took back the hit of
\* another request: AdmissionBounded of consumeWithKey over its stores.
THEOREM RequestAdmission == Spec => []AdmissionBounded
<1>1. EngineInv /\ CountInv => AdmissionBounded
  <2> SUFFICES ASSUME EngineInv, CountInv, "tookOther" \notin faults, NEW k \in Keys, NEW s \in Slots,
                      now < rows[s][k].reset
               PROVE  Cardinality({r \in Of(k) : LetThrough(r, s) /\ CountedIn(r, s, k)}) <= Cap[s]
    BY DEF AdmissionBounded
  <2>1. PICK A : A = {r \in Of(k) : LetThrough(r, s) /\ CountedIn(r, s, k)}
    OBVIOUS
  <2>2. PICK P : P = Passed(s, k)
    OBVIOUS
  <2>3. A \subseteq P /\ P \subseteq Requests
    <3>1. ASSUME NEW r \in A PROVE r \in P
      <4>1. r \in Requests /\ req[r].key = k /\ LetThrough(r, s) /\ CountedIn(r, s, k)
        BY <2>1, <3>1 DEF Of
      <4>2. PICK c \in counted[r] : c = <<s, rows[s][k].reset>>
        BY <4>1 DEF CountedIn
      <4>3. req[r].pc \in {"admitted", "done"} /\ WithinLimit(req[r], s)
        BY <4>1 DEF LetThrough, WithinLimit
      <4>4. req[r].pc = "admitted" => (c[1] \in req[r].back <=> ~Stays(req[r], c[1]))
        BY <4>1, StageOf DEF Stage
      <4>5. req[r].pc = "admitted" => s \notin req[r].back
        BY <4>2, <4>3, <4>4 DEF WithinLimit, Stays
      <4>6. Passes(req[r], s)
        BY <4>3, <4>5 DEF Passes
      <4> QED BY <2>2, <4>1, <4>6 DEF Passed, CountedIn
    <3> QED BY <2>2, <3>1 DEF Passed
  <2>4. Cardinality(A) <= Cardinality(P) /\ Cardinality(A) \in Nat /\ Cardinality(P) \in Nat
    BY <2>3, SubsetCount
  <2>5. Cardinality(P) <= Cap[s]
    BY <2>2 DEF CountInv, RowHeld, Slots
  <2>6. Cap[s] \in Nat
    BY LayoutType DEF EngineInv, Slots
  <2> QED BY <2>1, <2>4, <2>5, <2>6
<1> QED BY <1>1, EngineInit, EngineStep, CountInit, CountStep, PTL DEF Spec

\* Once the requests of a key have settled, an open window counts exactly the ones that are
\* to stay charged: RollbackExact of the rollbacks of grouped windows and draft mode and of
\* the refunds after the response.
THEOREM RollbackKept == Spec => []RollbackExact
<1>1. EngineInv /\ CountInv => RollbackExact
  <2> SUFFICES ASSUME EngineInv, CountInv, faults \cap {"tookOther", "undoLost"} = {},
                      NEW k \in Keys, NEW s \in Slots, \A r \in Of(k) : req[r].pc = "done"
               PROVE  Count(s, k) = IF now < rows[s][k].reset
                              THEN Cardinality({r \in Of(k) : CountedIn(r, s, k)
                                                               /\ s \in Charged(r)})
                              ELSE 0
    BY DEF RollbackExact
  <2>1. CASE ~(now < rows[s][k].reset)
    BY <2>1 DEF Count
  <2>2. CASE now < rows[s][k].reset
    <3>1. ASSUME NEW r \in Requests
          PROVE  (r \in Of(k) /\ CountedIn(r, s, k) /\ s \in Charged(r)) <=> r \in Holders(s, k)
      <4>1. CASE ~(req[r].key = k /\ CountedIn(r, s, k))
        BY <4>1 DEF Of, Holders, CountedIn
      <4>2. CASE req[r].key = k /\ CountedIn(r, s, k)
        <5>1. req[r].pc # "idle"
          BY <4>2, CountedKey DEF CountedIn
        <5>2. r \in Of(k) /\ req[r].pc = "done"
          BY <4>2, <5>1 DEF Of
        <5>3. r \in Holders(s, k) <=> Stays(req[r], s)
          BY <4>2, <5>2 DEF Holders, CountedIn, Keeps
        <5>4. s \in Charged(r) <=> Stays(req[r], s)
          BY DEF Charged, Stays
        <5> QED BY <4>2, <5>2, <5>3, <5>4
      <4> QED BY <4>1, <4>2
    <3>2. {r \in Of(k) : CountedIn(r, s, k) /\ s \in Charged(r)} = Holders(s, k)
      BY <3>1 DEF Of, Holders
    <3>3. Cardinality(Holders(s, k)) = rows[s][k].count
      BY <2>2 DEF CountInv, RowHeld, Slots
    <3> QED BY <2>2, <3>2, <3>3 DEF Count
  <2> QED BY <2>1, <2>2
<1> QED BY <1>1, EngineInit, EngineStep, CountInit, CountStep, PTL DEF Spec

-----------------------------------------------------------------------------
(* The shield repeats what the store would say                             *)

\* The ranks of a finite set of numbers are 1, 2, ... without a gap.
LEMMA Ranks ==
    ASSUME NEW T, T \subseteq Nat, IsFiniteSet(T), NEW n, n = Cardinality(T),
           NEW j \in 1..n
    PROVE  \E i \in T : Cardinality({x \in T : x <= i}) = j
<1> DEFINE below(i) == {x \in T : x <= i}
           f == [i \in T |-> Cardinality(below(i))]
<1>1. n \in Nat /\ IsFiniteSet(1..n) /\ Cardinality(1..n) = n
  <2>1. n \in Nat
    BY FS_CardinalityType
  <2> QED BY <2>1, FS_Interval
<1>2. ASSUME NEW i \in T
      PROVE  IsFiniteSet(below(i)) /\ Cardinality(below(i)) \in Nat /\ Cardinality(below(i)) \in 1..n
  <2>1. below(i) \in SUBSET T /\ i \in below(i)
    OBVIOUS
  <2>2. IsFiniteSet(below(i)) /\ Cardinality(below(i)) <= n
    BY <2>1, FS_Subset
  <2>3. Cardinality(below(i)) \in Nat /\ Cardinality(below(i)) # 0
    BY <2>1, <2>2, FS_CardinalityType, FS_EmptySet
  <2> QED BY <1>1, <2>2, <2>3
<1>3. ASSUME NEW i \in T, NEW k \in T, i < k PROVE Cardinality(below(i)) # Cardinality(below(k))
  <2>1. below(i) \in SUBSET below(k) /\ k \in below(k) /\ k \notin below(i)
    <3>1. \A x \in T : x \in Nat
      OBVIOUS
    <3>2. i \in Nat /\ k \in Nat
      OBVIOUS
    <3>3. ASSUME NEW x \in T, x <= i PROVE x <= k
      BY <1>3, <3>1, <3>2, <3>3
    <3>4. k <= k /\ ~(k <= i)
      BY <1>3, <3>2
    <3> QED BY <3>3, <3>4
  <2>2. IsFiniteSet(below(k))
    BY <1>2
  <2> HIDE DEF below
  <2>3. Cardinality(below(k)) = Cardinality(below(i)) => below(k) = below(i)
    BY <2>1, <2>2, FS_Subset
  <2> QED BY <2>1, <2>3
<1>4. f \in Injection(T, 1..n)
  <2>1. f \in [T -> 1..n]
    BY <1>2
  <2>2. ASSUME NEW i \in T, NEW k \in T, f[i] = f[k] PROVE i = k
    <3>1. f[i] = Cardinality(below(i)) /\ f[k] = Cardinality(below(k))
      OBVIOUS
    <3>2. ~(i < k) /\ ~(k < i)
      BY <1>3, <2>2, <3>1
    <3>3. i \in Nat /\ k \in Nat
      OBVIOUS
    <3> QED BY <3>2, <3>3
  <2> QED BY <2>1, <2>2 DEF Injection, IsInjective
<1>5. f \in Surjection(T, 1..n)
  <2> HIDE DEF f
  <2> QED BY <1>1, <1>4, FS_Injection
<1>6. PICK i \in T : f[i] = j
  BY <1>5 DEF Surjection
<1> QED BY <1>6

\* What is kept was there.
LEMMA KeepWithin ==
    ASSUME NEW S, NEW s \in Seq(S), NEW I \in SUBSET (1..Len(s))
    PROVE  /\ Keep(s, I) \in Seq(S)
           /\ \A j \in 1..Len(Keep(s, I)) : \E i \in 1..Len(s) : i \in I /\ Keep(s, I)[j] = s[i]
<1> DEFINE rank(i) == Cardinality({x \in I : x <= i})
           pick(j) == CHOOSE i \in I : rank(i) = j
           n == Cardinality(I)
           t == [j \in 1..n |-> s[pick(j)]]
<1>1. Keep(s, I) = t
  BY DEF Keep
<1>2. I \subseteq Nat /\ IsFiniteSet(I) /\ n \in Nat
  <2>1. Len(s) \in Nat /\ I \in SUBSET (1..Len(s))
    OBVIOUS
  <2>2. IsFiniteSet(1..Len(s))
    BY <2>1, FS_Interval
  <2>3. IsFiniteSet(I)
    BY <2>1, <2>2, FS_Subset
  <2> QED BY <2>1, <2>3, FS_CardinalityType
<1>3. ASSUME NEW j \in 1..n PROVE pick(j) \in I
  <2>1. \E i \in I : rank(i) = j
    BY <1>2, Ranks
  <2> QED BY <2>1
<1>4. ASSUME NEW j \in 1..n PROVE t[j] \in S /\ \E i \in 1..Len(s) : i \in I /\ t[j] = s[i]
  <2>1. PICK i \in I : i = pick(j)
    BY <1>3
  <2>2. t[j] = s[i] /\ i \in 1..Len(s)
    BY <2>1
  <2>3. s[i] \in S
    BY <2>2
  <2> HIDE DEF t, n
  <2> QED BY <2>2, <2>3
<1>5. PICK m \in Nat : m = n
  BY <1>2
<1>6. PICK g : g = t
  OBVIOUS
<1>7. g \in [1..m -> S] /\ \A j \in 1..m : \E i \in 1..Len(s) : i \in I /\ g[j] = s[i]
  BY <1>4, <1>5, <1>6
<1>8. g \in Seq(S) /\ Len(g) = m
  BY <1>7
<1> HIDE DEF t, n
<1> QED BY <1>1, <1>6, <1>7, <1>8

CacheEntry == [key : Keys, until : Nat]

\* unshield() and the sweep only delete.
LEMMA UnshieldDeletes ==
    ASSUME NEW c \in Seq(CacheEntry), NEW k
    PROVE  /\ Unshield(c, k) \in Seq(CacheEntry)
           /\ \A j \in 1..Len(Unshield(c, k)) : \E i \in 1..Len(c) : Unshield(c, k)[j] = c[i]
<1>1. PICK I : I = {i \in DOMAIN c : c[i].key # k}
  OBVIOUS
<1>2. Unshield(c, k) = Keep(c, I)
  BY <1>1 DEF Unshield
<1>3. I \in SUBSET (1..Len(c))
  BY <1>1
<1>4. /\ Keep(c, I) \in Seq(CacheEntry)
      /\ \A j \in 1..Len(Keep(c, I)) : \E i \in 1..Len(c) : i \in I /\ Keep(c, I)[j] = c[i]
  BY <1>3, KeepWithin
<1> QED BY <1>2, <1>4

LEMMA SweepDeletes ==
    ASSUME NEW c \in Seq(CacheEntry), NEW t
    PROVE  /\ Sweep(c, t) \in Seq(CacheEntry)
           /\ \A j \in 1..Len(Sweep(c, t)) : \E i \in 1..Len(c) : Sweep(c, t)[j] = c[i]
<1>1. PICK I : I = {i \in DOMAIN c : t < c[i].until}
  OBVIOUS
<1>2. Sweep(c, t) = Keep(c, I)
  BY <1>1 DEF Sweep
<1>3. I \in SUBSET (1..Len(c))
  BY <1>1
<1>4. /\ Keep(c, I) \in Seq(CacheEntry)
      /\ \A j \in 1..Len(Keep(c, I)) : \E i \in 1..Len(c) : i \in I /\ Keep(c, I)[j] = c[i]
  BY <1>3, KeepWithin
<1> QED BY <1>2, <1>4

\* cacheBlock adds one entry at most, which is that of the answer.
LEMMA CachesOne ==
    ASSUME NEW c \in Seq(CacheEntry), NEW k \in Keys, NEW a \in Answer, NEW ttl, NEW t \in Nat
    PROVE  LET d == CacheBlock(c, k, a, ttl, t) IN
           /\ d \in Seq(CacheEntry)
           /\ \A j \in 1..Len(d) : \/ \E i \in 1..Len(c) : d[j] = c[i]
                                   \/ d[j] = Entry(k, a, ttl, t)
<1>1. PICK e : e = Entry(k, a, ttl, t)
  OBVIOUS
<1>2. BlockDuration \in Nat /\ MaxBlockedKeys \in Nat /\ a.reset \in Nat /\ Len(c) \in Nat
  BY ShieldAssumption DEF Answer
<1>3. e \in CacheEntry
  <2>1. PICK u \in Nat : u = IF ttl = "duration" THEN t + BlockDuration ELSE a.reset
    BY <1>2
  <2> QED BY <1>1, <2>1 DEF Entry, CacheEntry
<1>4. PICK room : room = IF MaxBlockedKeys > 0 /\ Len(c) >= MaxBlockedKeys THEN Tail(c) ELSE c
  OBVIOUS
<1>5. room \in Seq(CacheEntry) /\ \A j \in 1..Len(room) : \E i \in 1..Len(c) : room[j] = c[i]
  <2>1. CASE MaxBlockedKeys > 0 /\ Len(c) >= MaxBlockedKeys
    <3>1. c # << >> /\ Len(c) > 0
      BY <1>2, <2>1
    <3>2. Tail(c) \in Seq(CacheEntry) /\ Len(Tail(c)) = Len(c) - 1
          /\ \A j \in 1..Len(c) - 1 : Tail(c)[j] = c[j + 1]
      BY <3>1
    <3>3. \A j \in 1..Len(c) - 1 : j + 1 \in 1..Len(c)
      BY <1>2
    <3> QED BY <1>4, <2>1, <3>2, <3>3
  <2>2. CASE ~(MaxBlockedKeys > 0 /\ Len(c) >= MaxBlockedKeys)
    BY <1>4, <2>2
  <2> QED BY <2>1, <2>2
<1>6. PICK d : d = CacheBlock(c, k, a, ttl, t)
  OBVIOUS
<1>7. d = IF \E i \in DOMAIN room : room[i].key = k
          THEN [i \in DOMAIN room |-> IF room[i].key = k THEN e ELSE room[i]]
          ELSE Append(room, e)
  BY <1>1, <1>4, <1>6 DEF CacheBlock
<1>8. CASE \E i \in DOMAIN room : room[i].key = k
  <2>1. d = [i \in 1..Len(room) |-> IF room[i].key = k THEN e ELSE room[i]]
    <3>1. DOMAIN room = 1..Len(room)
      BY <1>5
    <3>2. d = [i \in DOMAIN room |-> IF room[i].key = k THEN e ELSE room[i]]
      BY <1>7, <1>8, Zenon
    <3> QED BY <3>1, <3>2, Zenon
  <2>2. \A i \in 1..Len(room) : (d[i] = e \/ d[i] = room[i]) /\ d[i] \in CacheEntry
    BY <1>3, <1>5, <2>1
  <2>3. d \in Seq(CacheEntry) /\ Len(d) = Len(room)
    <3>1. PICK n \in Nat : n = Len(room)
      BY <1>5
    <3>2. d = [i \in 1..n |-> d[i]]
      BY <2>1, <3>1
    <3>3. \A i \in 1..n : d[i] \in CacheEntry
      BY <2>2, <3>1
    <3>4. d \in [1..n -> CacheEntry]
      BY <3>2, <3>3
    <3>5. d \in Seq(CacheEntry) /\ Len(d) = n
      BY <3>4
    <3> QED BY <3>1, <3>5
  <2> QED BY <1>1, <1>5, <1>6, <2>2, <2>3
<1>9. CASE ~ \E i \in DOMAIN room : room[i].key = k
  <2>1. d = Append(room, e)
    BY <1>7, <1>9
  <2>2. d \in Seq(CacheEntry) /\ Len(d) = Len(room) + 1 /\ Len(room) \in Nat
        /\ d[Len(room) + 1] = e /\ \A i \in 1..Len(room) : d[i] = room[i]
    BY <1>3, <1>5, <2>1
  <2>3. \A j \in 1..Len(d) : j \in 1..Len(room) \/ j = Len(room) + 1
    BY <2>2
  <2> QED BY <1>1, <1>5, <1>6, <2>2, <2>3
<1> QED BY <1>8, <1>9

\* The window of an answer on its way ends no later than the one that is open.
Timely(q) ==
    q.result.hits > 0 /\ q.slot = 1 =>
        /\ q.result.reset <= now + Window[1]
        /\ now < rows[1][q.key].reset => q.result.reset <= rows[1][q.key].reset

AnswerInv ==
    /\ \A k \in Keys : rows[1][k].reset <= now + Window[1]
    /\ \A r \in Requests :
          /\ req[r].pc # "answered" => req[r].result.hits = 0
          /\ Timely(req[r])

\* An entry that is not over has its window, with enough hits, behind it.
Covered(e) ==
    now < e.until =>
        Count(1, e.key) >= BlockOnConsumed /\ e.until <= rows[1][e.key].reset

Guarded == layout.shield = "reset" /\ faults \cap {"lateAnswer", "loweredBehindShield"} = {}

CacheInv == cache \in Seq(CacheEntry)
CoverInv == Guarded => \A i \in 1..Len(cache) : Covered(cache[i])

HonestInv == CacheInv /\ AnswerInv /\ CoverInv

LEMMA SlotOne == ASSUME TypeInv PROVE 1 \in 1..layout.slots /\ Window[1] \in Nat \ {0}
<1>1. 1 \in 1..layout.slots
  BY LayoutType
<1> QED BY <1>1, LayoutType

\* How a step may change the window of a key: not at all, by a reset, or by a new one.
RowMoves(k) ==
    \/ rows'[1][k].reset = rows[1][k].reset
    \/ rows'[1][k].reset = 0
    \/ ~(now < rows[1][k].reset) /\ rows'[1][k].reset = now + Window[1]

LEMMA AnswerMoved ==
    ASSUME TypeInv, TypeInv', AnswerInv, now' = now \/ now' = now + 1,
           \A k \in Keys : RowMoves(k),
           \A r \in Requests :
              \/ req'[r] = req[r]
              \/ req'[r].result.hits = 0
              \/ req'[r].pc = "answered" /\ Timely(req[r])'
    PROVE  AnswerInv'
<1>0. ASSUME NEW k \in Keys PROVE rows'[1][k].reset <= now' + Window[1]
  <2>1. rows[1][k].reset \in Nat /\ now \in Nat /\ Window[1] \in Nat
    BY RowTypes, SlotOne DEF TypeInv
  <2>2. rows[1][k].reset <= now + Window[1] /\ RowMoves(k)
    BY DEF AnswerInv
  <2> QED BY <2>1, <2>2 DEF RowMoves
<1> SUFFICES ASSUME NEW r \in Requests
             PROVE  (req'[r].pc # "answered" => req'[r].result.hits = 0) /\ Timely(req[r])'
  BY <1>0 DEF AnswerInv
<1>1. CASE req'[r].result.hits = 0
  BY <1>1 DEF Timely
<1>2. CASE req'[r].pc = "answered" /\ Timely(req[r])'
  BY <1>2
<1>3. CASE req'[r] = req[r] /\ req[r].result.hits # 0
  <2>1. PICK q : q = req[r]
    OBVIOUS
  <2>2. q.pc = "answered" /\ q.key \in Keys /\ Timely(q) /\ req'[r] = q
    BY <1>3, <2>1 DEF AnswerInv, TypeInv
  <2>3. q.result.reset \in Nat /\ now \in Nat /\ Window[1] \in Nat
    BY <2>1, ReqTypes, SlotOne DEF TypeInv
  <2>4. rows[1][q.key].reset \in Nat
    BY <2>2, RowTypes, SlotOne
  <2>5. RowMoves(q.key)
    BY <2>2
  <2>6. Timely(q)'
    BY <2>2, <2>3, <2>4, <2>5 DEF Timely, RowMoves
  <2> QED BY <2>2, <2>6 DEF Timely
<1> QED BY <1>1, <1>2, <1>3

LEMMA CoverMoved ==
    ASSUME TypeInv, TypeInv', CacheInv, CoverInv, now' = now \/ now' = now + 1,
           layout' = layout, faults \subseteq faults',
           Guarded' => \A k \in Keys : IsShielded(cache, k, now) =>
                          /\ rows'[1][k].reset = rows[1][k].reset
                          /\ rows'[1][k].count >= rows[1][k].count,
           Guarded' => \A j \in 1..Len(cache') : \/ \E i \in 1..Len(cache) : cache'[j] = cache[i]
                                                 \/ Covered(cache[j])'
    PROVE  CoverInv'
<1> SUFFICES ASSUME Guarded', NEW j \in 1..Len(cache') PROVE Covered(cache[j])'
  BY DEF CoverInv
<1>1. Guarded
  BY DEF Guarded
<1>2. SUFFICES ASSUME NEW i \in 1..Len(cache), cache'[j] = cache[i], now' < cache'[j].until
               PROVE  Covered(cache[j])'
  BY DEF Covered
<1>3. PICK e \in CacheEntry : e = cache[i]
  BY DEF CacheInv
<1>4. PICK k \in Keys : k = e.key
  BY DEF CacheEntry
<1>5. now \in Nat /\ e.until \in Nat /\ now < e.until
  BY <1>2, <1>3 DEF TypeInv, CacheEntry
<1>6. Covered(e)
  BY <1>1, <1>3 DEF CoverInv
<1>7. i \in DOMAIN cache
  BY DEF CacheInv
<1>8. IsShielded(cache, k, now)
  BY <1>3, <1>4, <1>5, <1>7 DEF IsShielded
<1>9. rows[1][k].reset \in Nat /\ rows[1][k].count \in Nat /\ BlockOnConsumed \in Nat \ {0}
  BY RowTypes, SlotOne, ShieldAssumption
<1>10. Count(1, k) >= BlockOnConsumed /\ e.until <= rows[1][k].reset
  BY <1>4, <1>5, <1>6 DEF Covered
<1>11. now < rows[1][k].reset /\ rows[1][k].count >= BlockOnConsumed
  BY <1>5, <1>9, <1>10 DEF Count
<1>12. rows'[1][k].reset = rows[1][k].reset /\ rows'[1][k].count >= rows[1][k].count
  BY <1>8
<1>13. rows'[1][k].count \in Nat
  <2>1. rows' \in [1..layout.slots -> [Keys -> Row]] /\ 1 \in 1..layout.slots
    BY SlotOne DEF TypeInv
  <2>2. rows'[1][k] \in Row
    BY <2>1
  <2> QED BY <2>2 DEF Row
<1>14. now' < rows'[1][k].reset /\ rows'[1][k].count >= BlockOnConsumed /\ e.until <= rows'[1][k].reset
  <2>1. now' < e.until /\ now' \in Nat
    BY <1>2, <1>3 DEF TypeInv
  <2>2. now' < rows'[1][k].reset /\ e.until <= rows'[1][k].reset
    BY <1>5, <1>9, <1>10, <1>12, <2>1
  <2> QED BY <1>9, <1>11, <1>12, <1>13, <2>2
<1>15. cache'[j] = e
  BY <1>2, <1>3
<1> QED BY <1>4, <1>14, <1>15 DEF Covered, Count

\* A step that leaves the rows alone, deletes entries at most and answers nobody.
LEMMA HonestQuiet ==
    ASSUME TypeInv, TypeInv', HonestInv, UNCHANGED <<layout, rows>>, faults \subseteq faults',
           now' = now \/ now' = now + 1, cache' \in Seq(CacheEntry),
           \A j \in 1..Len(cache') : \E i \in 1..Len(cache) : cache'[j] = cache[i],
           \A r \in Requests : req'[r] = req[r] \/ req'[r].result.hits = 0
    PROVE  HonestInv'
<1>1. AnswerInv'
  BY AnswerMoved DEF HonestInv, RowMoves
<1>2. \A k \in Keys : rows[1][k].count \in Nat
  BY RowTypes, SlotOne
<1>3. \A k \in Keys : rows'[1][k].reset = rows[1][k].reset /\ rows'[1][k].count >= rows[1][k].count
  BY <1>2
<1>4. CoverInv'
  BY <1>3, CoverMoved DEF HonestInv
<1> QED BY <1>1, <1>4 DEF HonestInv, CacheInv

\* The steps of a request that touch neither the answer nor, but for its decrements, the store.
Bystander(r) ==
    \/ \E k \in Keys : Passthrough(r, k) \/ SkipBeforeEngine(r, k) \/ Refuse(r, k) \/ Consume(r, k)
    \/ Undo(r) \/ Conclude(r) \/ Respond(r) \/ RespondAndRefund(r) \/ Refund(r)

LEMMA ResultKept ==
    ASSUME TypeInv, AnswerInv, NEW r \in Requests, Bystander(r)
    PROVE  req'[r].result.hits = 0 /\ \A x \in Requests : x # r => req'[x] = req[x]
<1>1. req \in [Requests -> ReqRec] /\ req[r] \in ReqRec /\ req[r].result \in Answer
  BY ReqTypes DEF TypeInv
<1>2. req[r].pc # "answered"
  BY DEF Bystander, Passthrough, SkipBeforeEngine, Refuse, Consume, Undo, Conclude, Respond,
         RespondAndRefund, Refund
<1>3. req[r].result.hits = 0
  BY <1>2 DEF AnswerInv
<1>4. ASSUME NEW k \in Keys, Passthrough(r, k) \/ SkipBeforeEngine(r, k) \/ Refuse(r, k)
      PROVE  req'[r].result = req[r].result /\ \A x \in Requests : x # r => req'[x] = req[x]
  <2>1. PICK pc, outcome : req' = [req EXCEPT ![r] = [req[r] EXCEPT !.pc = pc, !.key = k,
                                                                    !.outcome = outcome]]
    BY <1>4 DEF Passthrough, SkipBeforeEngine, Refuse
  <2> QED BY <1>1, <2>1 DEF ReqRec
<1>5. ASSUME NEW k \in Keys, Consume(r, k)
      PROVE  req'[r].result.hits = req[r].result.hits /\ \A x \in Requests : x # r => req'[x] = req[x]
  <2>1. PICK a : a = [req[r].result EXCEPT !.blocked = TRUE]
    OBVIOUS
  <2>2. a.hits = req[r].result.hits
    BY <1>1, <2>1 DEF Answer
  <2>3. CASE req' = [req EXCEPT ![r] = [req[r] EXCEPT !.key = k, !.slot = 1, !.pc = "answered", !.result = a]]
    <3> HIDE DEF Answer
    <3> QED BY <1>1, <2>2, <2>3 DEF ReqRec
  <2>4. CASE req' = [req EXCEPT ![r] = [req[r] EXCEPT !.key = k, !.slot = 1, !.pc = "asked"]]
    BY <1>1, <2>4 DEF ReqRec
  <2>5. \/ req' = [req EXCEPT ![r] = [req[r] EXCEPT !.key = k, !.slot = 1, !.pc = "answered", !.result = a]]
        \/ req' = [req EXCEPT ![r] = [req[r] EXCEPT !.key = k, !.slot = 1, !.pc = "asked"]]
    BY <1>5, <2>1 DEF Consume
  <2> QED BY <2>3, <2>4, <2>5
<1>6. ASSUME Undo(r)
      PROVE  req'[r].result = req[r].result /\ \A x \in Requests : x # r => req'[x] = req[x]
  BY <1>1, <1>6 DEF Undo, ReqRec
<1>7. ASSUME Conclude(r) \/ Respond(r) \/ RespondAndRefund(r)
      PROVE  req'[r].result = req[r].result /\ \A x \in Requests : x # r => req'[x] = req[x]
  BY <1>1, <1>7 DEF Conclude, Respond, RespondAndRefund, ReqRec
<1>8. ASSUME Refund(r)
      PROVE  req'[r].result = req[r].result /\ \A x \in Requests : x # r => req'[x] = req[x]
  <2>1. PICK s \in req[r].todo :
            req' = [req EXCEPT ![r].todo = @ \ {s},
                        ![r].pc = IF req[r].todo = {s} THEN "done" ELSE @,
                        ![r].outcome = IF @ \in {"allowed", "failOpen", "masked", "undrafted"}
                                        THEN "refunded" ELSE @]
    BY <1>8 DEF Refund
  <2>2. PICK todo, pc, outcome :
            req' = [req EXCEPT ![r] = [req[r] EXCEPT !.todo = todo, !.pc = pc, !.outcome = outcome]]
    <3> DEFINE pc == IF req[r].todo = {s} THEN "done" ELSE req[r].pc
               o == IF req[r].outcome \in {"allowed", "failOpen", "masked", "undrafted"} THEN "refunded" ELSE req[r].outcome
    <3>1. req' = [req EXCEPT ![r] = [req[r] EXCEPT !.todo = req[r].todo \ {s}, !.pc = pc, !.outcome = o]]
      BY <2>1
    <3> HIDE DEF pc, o
    <3> QED BY <3>1
  <2> QED BY <1>1, <2>2 DEF ReqRec
<1> QED BY <1>3, <1>4, <1>5, <1>6, <1>7, <1>8 DEF Bystander

\* Steps that leave the rows alone.
LEMMA HonestBystander ==
    ASSUME EngineInv, EngineInv', HonestInv, NEW r \in Requests,
           \/ \E k \in Keys : Passthrough(r, k) \/ SkipBeforeEngine(r, k) \/ Refuse(r, k) \/ Consume(r, k)
           \/ Conclude(r) \/ Respond(r) \/ RespondAndRefund(r)
    PROVE  HonestInv'
<1>1. TypeInv /\ TypeInv' /\ now \in Nat /\ cache \in Seq(CacheEntry) /\ AnswerInv
  BY DEF EngineInv, TypeInv, HonestInv, CacheInv
<1>2. UNCHANGED <<layout, rows, now, faults>>
  BY DEF Passthrough, SkipBeforeEngine, Refuse, Consume, Conclude, Respond, RespondAndRefund
<1>3. cache' = cache \/ \E k : cache' = Unshield(cache, k)
  BY DEF Passthrough, SkipBeforeEngine, Refuse, Consume, Conclude, Respond, RespondAndRefund
<1>4. cache' \in Seq(CacheEntry) /\ \A j \in 1..Len(cache') : \E i \in 1..Len(cache) : cache'[j] = cache[i]
  <2>1. CASE cache' = cache
    BY <1>1, <2>1
  <2>2. ASSUME NEW k, cache' = Unshield(cache, k)
        PROVE  cache' \in Seq(CacheEntry)
               /\ \A j \in 1..Len(cache') : \E i \in 1..Len(cache) : cache'[j] = cache[i]
    BY <1>1, <2>2, UnshieldDeletes
  <2> QED BY <1>3, <2>1, <2>2
<1>5. Bystander(r)
  BY DEF Bystander
<1>6. \A x \in Requests : req'[x] = req[x] \/ req'[x].result.hits = 0
  BY <1>1, <1>5, ResultKept
<1> QED BY <1>1, <1>2, <1>4, <1>6, HonestQuiet

LEMMA HonestFails ==
    ASSUME EngineInv, EngineInv', HonestInv, NEW r \in Requests, Fails(r)
    PROVE  HonestInv'
<1>1. TypeInv /\ TypeInv' /\ cache \in Seq(CacheEntry)
  BY DEF EngineInv, HonestInv, CacheInv
<1>2. UNCHANGED <<layout, rows, now, faults, cache>>
  BY DEF Fails
<1>3. PICK q \in ReqRec : Moves(r, q) /\ q.result.hits = 0
  BY <1>1, FailsMoves
<1>4. \A x \in Requests : req'[x] = req[x] \/ req'[x].result.hits = 0
  BY <1>1, <1>3, Moved
<1>5. \A j \in 1..Len(cache') : \E i \in 1..Len(cache) : cache'[j] = cache[i]
  BY <1>2
<1> QED BY <1>1, <1>2, <1>4, <1>5, HonestQuiet

\* Time, the sweep and the entry's part of a reset().
LEMMA HonestTimers ==
    ASSUME EngineInv, EngineInv', HonestInv,
           \/ UNCHANGED vars \/ SweepShield \/ Tick
           \/ \E k \in Keys : AdminReset(k) \/ ForgetViolations(k)
    PROVE  HonestInv'
<1>1. TypeInv /\ TypeInv' /\ cache \in Seq(CacheEntry)
  BY DEF EngineInv, HonestInv, CacheInv
<1>2. UNCHANGED <<layout, rows, faults, req>> /\ (now' = now \/ now' = now + 1)
  BY DEF vars, SweepShield, Tick, AdminReset, ForgetViolations
<1>3. cache' = cache \/ cache' = Sweep(cache, now) \/ \E k : cache' = Unshield(cache, k)
  BY DEF vars, SweepShield, Tick, AdminReset, ForgetViolations
<1>4. cache' \in Seq(CacheEntry) /\ \A j \in 1..Len(cache') : \E i \in 1..Len(cache) : cache'[j] = cache[i]
  BY <1>1, <1>3, UnshieldDeletes, SweepDeletes
<1> QED BY <1>1, <1>2, <1>4, HonestQuiet

\* A row that is lowered while an entry is alive leaves a fault behind.
LEMMA HonestLowers ==
    ASSUME TypeInv, TypeInv', HonestInv, NEW k \in Keys, UNCHANGED <<layout, now, cache>>,
           faults \subseteq faults', IsShielded(cache, k, now) =>
               "loweredBehindShield" \in faults' \/ rows'[1][k] = rows[1][k],
           \A y \in Keys : y # k => rows'[1][y] = rows[1][y],
           rows'[1][k].reset = rows[1][k].reset \/ rows'[1][k].reset = 0,
           \A r \in Requests : req'[r] = req[r] \/ req'[r].result.hits = 0
    PROVE  HonestInv'
<1>1. \A y \in Keys : RowMoves(y)
  BY DEF RowMoves
<1>2. AnswerInv'
  BY <1>1, AnswerMoved DEF HonestInv
<1>3. \A y \in Keys : rows[1][y].count \in Nat
  BY RowTypes, SlotOne
<1>4. ASSUME Guarded', NEW y \in Keys, IsShielded(cache, y, now)
      PROVE  rows'[1][y] = rows[1][y]
  BY <1>4 DEF Guarded
<1>5. Guarded' => \A y \in Keys : IsShielded(cache, y, now) =>
          rows'[1][y].reset = rows[1][y].reset /\ rows'[1][y].count >= rows[1][y].count
  BY <1>3, <1>4
<1>6. \A j \in 1..Len(cache') : \E i \in 1..Len(cache) : cache'[j] = cache[i]
  OBVIOUS
<1>7. CoverInv'
  BY <1>5, <1>6, CoverMoved DEF HonestInv
<1> QED BY <1>2, <1>7 DEF HonestInv, CacheInv

LEMMA HonestDecrement ==
    ASSUME EngineInv, EngineInv', HonestInv, NEW r \in Requests, Undo(r) \/ Refund(r)
    PROVE  HonestInv'
<1>1. TypeInv /\ TypeInv' /\ AnswerInv /\ 1 \in 1..layout.slots
  BY SlotOne DEF EngineInv, HonestInv
<1>2. UNCHANGED <<layout, now, cache>>
  BY DEF Undo, Refund
<1>3. PICK s \in req[r].todo : DecrementRow(r, s)
  BY <1>1, UndoMoves, RefundMoves
<1>4. PICK k \in Keys : k = req[r].key
  BY <1>1 DEF TypeInv, Undo, Refund
<1>5. s \in 1..layout.slots
  BY <1>1 DEF TypeInv
<1>6. /\ faults \subseteq faults' /\ rows'[s][k].reset = rows[s][k].reset
      /\ \A x \in 1..layout.slots, y \in Keys : x # s \/ y # k => rows'[x][y] = rows[x][y]
  BY <1>1, <1>3, <1>4, <1>5, DecrementValue
<1>7. IsShielded(cache, k, now) => "loweredBehindShield" \in faults' \/ rows' = rows
  BY <1>3, <1>4 DEF DecrementRow
<1>8. Bystander(r)
  BY DEF Bystander
<1>9. \A x \in Requests : req'[x] = req[x] \/ req'[x].result.hits = 0
  BY <1>1, <1>8, ResultKept
<1>10. rows'[1][k].reset = rows[1][k].reset /\ \A y \in Keys : y # k => rows'[1][y] = rows[1][y]
  BY <1>1, <1>6
<1> QED BY <1>1, <1>2, <1>6, <1>7, <1>9, <1>10, HonestLowers

LEMMA HonestResetRow ==
    ASSUME EngineInv, EngineInv', HonestInv, NEW k \in Keys, ResetRow(k)
    PROVE  HonestInv'
<1>1. TypeInv /\ TypeInv' /\ 1 \in 1..layout.slots
  BY SlotOne DEF EngineInv
<1>2. UNCHANGED <<layout, now, cache, req>> /\ faults \subseteq faults'
      /\ (IsShielded(cache, k, now) => "loweredBehindShield" \in faults')
  BY DEF ResetRow
<1>3. /\ rows'[1][k] = NoRow
      /\ \A y \in Keys : y # k => rows'[1][y] = rows[1][y]
  BY <1>1, ResetRowValue
<1>4. rows'[1][k].reset = 0
  BY <1>3 DEF NoRow
<1> QED BY <1>1, <1>2, <1>3, <1>4, HonestLowers

\* The store's answer has the window that it has just counted in.
LEMMA HonestExecutes ==
    ASSUME EngineInv, EngineInv', HonestInv, NEW r \in Requests, Executes(r)
    PROVE  HonestInv'
<1>1. TypeInv /\ TypeInv' /\ 1 \in 1..layout.slots /\ now \in Nat /\ Window[1] \in Nat \ {0}
  BY SlotOne DEF EngineInv, TypeInv
<1>2. UNCHANGED <<layout, now, cache, faults>> /\ req[r].pc = "asked"
  BY DEF Executes
<1>3. PICK s \in 1..layout.slots, k \in Keys : s = req[r].slot /\ k = req[r].key
  BY <1>1, <1>2 DEF TypeInv
<1>4. Effect(r, s, k)
  BY <1>1, <1>3, ExecutesValue
<1>5. PICK q \in ReqRec : /\ Moves(r, q) /\ q.pc = "answered" /\ q.key = k /\ q.slot = s
                          /\ q.result.reset = Reset(s, k)
  BY <1>1, <1>3, ExecutesMoves
<1>6. req'[r] = q /\ \A x \in Requests : x # r => req'[x] = req[x]
  BY <1>1, <1>5, Moved
<1>7. \A y \in Keys : /\ rows[1][y].reset \in Nat /\ rows[1][y].count \in Nat /\ Count(1, y) \in Nat
                      /\ now < rows[1][y].reset => Count(1, y) = rows[1][y].count
  BY <1>1, RowTypes
<1>8. \A y \in Keys : s # 1 \/ y # k => rows'[1][y] = rows[1][y]
  BY <1>1, <1>4 DEF Effect
<1>9. s = 1 => rows'[1][k].reset = Reset(1, k) /\ rows'[1][k].count >= Count(1, k)
  BY <1>4, <1>7 DEF Effect
<1>10. Reset(1, k) = IF now < rows[1][k].reset THEN rows[1][k].reset ELSE now + Window[1]
  BY DEF Reset
<1>11. \A y \in Keys : RowMoves(y)
  BY <1>8, <1>9, <1>10 DEF RowMoves
<1>12. Timely(req[r])'
  <2>1. SUFFICES ASSUME q.slot = 1
                 PROVE  /\ q.result.reset <= now' + Window[1]
                        /\ now' < rows'[1][k].reset => q.result.reset <= rows'[1][k].reset
    BY <1>5, <1>6 DEF Timely
  <2>2. s = 1 /\ q.result.reset = Reset(1, k) /\ rows'[1][k].reset = Reset(1, k) /\ now' = now
    BY <1>2, <1>5, <1>9, <2>1
  <2>3. Reset(1, k) \in Nat
    BY <1>1, RowTypes
  <2>4. rows[1][k].reset <= now + Window[1]
    BY DEF HonestInv, AnswerInv
  <2> QED BY <1>1, <1>7, <1>10, <2>2, <2>3, <2>4
<1>13. AnswerInv'
  BY <1>1, <1>2, <1>5, <1>6, <1>11, <1>12, AnswerMoved DEF HonestInv
<1>14. ASSUME Guarded', NEW y \in Keys, IsShielded(cache, y, now)
       PROVE  rows'[1][y].reset = rows[1][y].reset /\ rows'[1][y].count >= rows[1][y].count
  <2>1. CASE s # 1 \/ y # k
    BY <1>7, <1>8, <2>1
  <2>2. CASE s = 1 /\ y = k
    <3>1. Guarded
      BY <1>2, <1>14 DEF Guarded
    <3>2. PICK i \in DOMAIN cache : cache[i].key = y /\ now < cache[i].until
      BY <1>14 DEF IsShielded
    <3>3. i \in 1..Len(cache)
      BY DEF HonestInv, CacheInv
    <3>4. Count(1, y) >= BlockOnConsumed
      BY <3>1, <3>2, <3>3 DEF HonestInv, CoverInv, Covered
    <3>5. now < rows[1][y].reset
      BY <3>4, ShieldAssumption DEF Count
    <3> QED BY <1>7, <1>9, <1>10, <2>2, <3>5
  <2> QED BY <2>1, <2>2
<1>15. \A j \in 1..Len(cache') : \E i \in 1..Len(cache) : cache'[j] = cache[i]
  BY <1>2
<1>16. CoverInv'
  BY <1>1, <1>2, <1>14, <1>15, CoverMoved DEF HonestInv
<1> QED BY <1>2, <1>13, <1>16 DEF HonestInv, CacheInv

\* The shield caches an answer that was not overtaken.
LEMMA HonestDeliver ==
    ASSUME EngineInv, EngineInv', HonestInv, NEW r \in Requests, Deliver(r)
    PROVE  HonestInv'
<1>1. /\ TypeInv /\ TypeInv' /\ 1 \in 1..layout.slots /\ now \in Nat /\ Window[1] \in Nat \ {0}
      /\ cache \in Seq(CacheEntry)
  BY SlotOne DEF EngineInv, TypeInv, HonestInv, CacheInv
<1>2. req[r].pc = "answered" /\ UNCHANGED <<layout, now, rows>> /\ faults \subseteq faults'
  BY DEF Deliver
<1>3. PICK k \in Keys, a \in Answer : k = req[r].key /\ a = req[r].result
  BY <1>1, <1>2, ReqTypes DEF TypeInv
<1>4. PICK q \in ReqRec : Moves(r, q) /\ q.result = NoAnswer
  BY <1>1, DeliverMoves
<1>5. \A x \in Requests : req'[x] = req[x] \/ req'[x].result.hits = 0
  BY <1>1, <1>4, Moved DEF NoAnswer
<1>6. AnswerInv'
  BY <1>1, <1>2, <1>5, AnswerMoved DEF HonestInv, RowMoves
<1> DEFINE caches == layout.shield # "none" /\ a.hits >= BlockOnConsumed
<1>7. PICK c : c = IF caches THEN CacheBlock(cache, k, a, layout.shield, now) ELSE cache
  OBVIOUS
<1>8. cache' = c \/ cache' = Unshield(c, k)
  BY <1>3, <1>7 DEF Deliver
<1>9. /\ c \in Seq(CacheEntry)
      /\ \A j \in 1..Len(c) : \/ \E i \in 1..Len(cache) : c[j] = cache[i]
                              \/ caches /\ c[j] = Entry(k, a, layout.shield, now)
  <2>1. CASE caches
    BY <1>1, <1>7, <2>1, CachesOne
  <2>2. CASE ~caches
    BY <1>1, <1>7, <2>2
  <2> QED BY <2>1, <2>2
<1>10. cache' \in Seq(CacheEntry) /\ \A j \in 1..Len(cache') : \E i \in 1..Len(c) : cache'[j] = c[i]
  <2>1. CASE cache' = c
    BY <1>9, <2>1
  <2>2. CASE cache' = Unshield(c, k)
    BY <1>9, <2>2, UnshieldDeletes
  <2> QED BY <1>8, <2>1, <2>2
<1>11. ASSUME Guarded', caches, NEW e, e = Entry(k, a, layout.shield, now)
       PROVE  Covered(e)'
  <2>1. layout.shield = "reset" /\ "lateAnswer" \notin faults'
    BY <1>2, <1>11 DEF Guarded
  <2>2. Count(1, k) >= BlockOnConsumed
    <3>1. Count(1, k) < BlockOnConsumed => "lateAnswer" \in faults'
      BY <1>3, <1>11 DEF Deliver
    <3>2. Count(1, k) \in Nat /\ BlockOnConsumed \in Nat
      BY <1>1, RowTypes, ShieldAssumption
    <3> QED BY <2>1, <3>1, <3>2
  <2>3. now < rows[1][k].reset
    BY <2>2, ShieldAssumption DEF Count
  <2>4. req[r].slot = 1
    <3>1. layout.slots = 1
      BY <1>1, <2>1, EngineAssumption DEF TypeInv
    <3>2. req[r].slot \in 1..layout.slots
      BY <1>1, <1>2 DEF TypeInv
    <3> QED BY <3>1, <3>2
  <2>5. a.hits > 0
    BY <1>3, <1>11, ShieldAssumption DEF Answer
  <2>6. a.reset <= rows[1][k].reset
    BY <1>3, <2>3, <2>4, <2>5 DEF HonestInv, AnswerInv, Timely
  <2>7. e.key = k /\ e.until = a.reset
    BY <1>11, <2>1 DEF Entry
  <2> QED BY <1>2, <2>2, <2>6, <2>7 DEF Covered, Count
<1>12. ASSUME Guarded', NEW j \in 1..Len(cache')
       PROVE  (\E i \in 1..Len(cache) : cache'[j] = cache[i]) \/ Covered(cache[j])'
  <2>1. PICK i \in 1..Len(c) : cache'[j] = c[i]
    BY <1>10
  <2>2. CASE \E x \in 1..Len(cache) : c[i] = cache[x]
    BY <2>1, <2>2
  <2>3. CASE caches /\ c[i] = Entry(k, a, layout.shield, now)
    <3>1. PICK e : e = c[i]
      OBVIOUS
    <3>2. Covered(e)' /\ cache'[j] = e
      BY <1>11, <1>12, <2>1, <2>3, <3>1
    <3> QED BY <3>2 DEF Covered
  <2> QED BY <1>9, <2>2, <2>3
<1>13. \A y \in Keys : rows'[1][y].reset = rows[1][y].reset /\ rows'[1][y].count >= rows[1][y].count
  BY <1>1, <1>2, RowTypes
<1>14. CoverInv'
  BY <1>1, <1>2, <1>12, <1>13, CoverMoved DEF HonestInv
<1> QED BY <1>6, <1>10, <1>14 DEF HonestInv, CacheInv

LEMMA HonestStep ==
    ASSUME EngineInv, HonestInv, [Next]_vars
    PROVE  HonestInv'
<1>1. EngineInv'
  BY EngineStep
<1>2. ASSUME NEW r \in Requests, NEW k \in Keys,
             Passthrough(r, k) \/ SkipBeforeEngine(r, k) \/ Refuse(r, k) \/ Consume(r, k)
      PROVE  HonestInv'
  BY <1>1, <1>2, HonestBystander
<1>3. ASSUME NEW r \in Requests,
             \/ Executes(r) \/ Fails(r) \/ Deliver(r) \/ Undo(r) \/ Conclude(r)
             \/ Respond(r) \/ RespondAndRefund(r) \/ Refund(r)
      PROVE  HonestInv'
  BY <1>1, <1>3, HonestExecutes, HonestFails, HonestDeliver, HonestDecrement, HonestBystander
<1>4. ASSUME \/ UNCHANGED vars \/ SweepShield \/ Tick
             \/ \E k \in Keys : AdminReset(k) \/ ForgetViolations(k)
      PROVE  HonestInv'
  BY <1>1, <1>4, HonestTimers
<1>5. ASSUME NEW k \in Keys, ResetRow(k) PROVE HonestInv'
  BY <1>1, <1>5, HonestResetRow
<1> QED BY <1>2, <1>3, <1>4, <1>5 DEF Next

LEMMA HonestInit == Init => HonestInv
<1> SUFFICES ASSUME Init PROVE HonestInv
  OBVIOUS
<1>1. TypeInv /\ 1 \in 1..layout.slots /\ Window[1] \in Nat \ {0}
  BY EngineInit, SlotOne DEF EngineInv
<1>2. now = 0 /\ cache = << >> /\ \A r \in Requests : req[r] = Idle
  BY DEF Init
<1>3. \A k \in Keys : rows[1][k].reset = 0
  BY <1>1 DEF Init, Slots, NoRow
<1>4. Idle.result.hits = 0
  BY DEF Idle, NoAnswer
<1>5. AnswerInv
  BY <1>1, <1>2, <1>3, <1>4 DEF AnswerInv, Timely
<1>6. cache \in Seq(CacheEntry) /\ Len(cache) = 0
  BY <1>2
<1> QED BY <1>5, <1>6 DEF HonestInv, CacheInv, CoverInv

\* However answers, caching, undos, refunds and resets of concurrent requests interleave, a
\* shield without a block duration of its own turns away only keys whose open window holds
\* blockOnConsumed hits, unless a cached answer had been overtaken or a row was lowered
\* behind an entry: ShieldHonest of InMemoryShield in front of its store.
THEOREM ShieldTrue == Spec => []ShieldHonest
<1>1. EngineInv /\ HonestInv => ShieldHonest
  <2> SUFFICES ASSUME HonestInv, Guarded, NEW k \in Keys, IsShielded(cache, k, now)
               PROVE  Count(1, k) >= BlockOnConsumed
    BY DEF ShieldHonest, Guarded
  <2>1. PICK i \in DOMAIN cache : cache[i].key = k /\ now < cache[i].until
    BY DEF IsShielded
  <2>2. i \in 1..Len(cache)
    BY DEF HonestInv, CacheInv
  <2> QED BY <2>1, <2>2 DEF HonestInv, CoverInv, Covered
<1> QED BY <1>1, EngineInit, EngineStep, HonestInit, HonestStep, PTL DEF Spec

=============================================================================
