-------------------------- MODULE KeyManagerProofs --------------------------
(***************************************************************************)
(* Theorems about the key manager, for every number of processes, calls    *)
(* and failures and every setting of the escalation: a ban ends only by    *)
(* the races that are named, an adjustment survives its await, and an      *)
(* escalation remembers the ones before.  Fairness is not used.            *)
(***************************************************************************)
EXTENDS KeyManager, SequenceTheorems, TLAPS

-----------------------------------------------------------------------------
(* Types                                                                   *)

BlockType == [type : {"none", "manual", "penalty"}, until : Nat]
Adjustment == [points : Nat, start : Nat, violations : Nat]
OpNames == {"block", "unblock", "unblockAll", "penalty", "reward", "delete", "escalate"}
CallPcs == {"sent", "executed", "snapshot", "orphan", "done"}
CallRec == [proc : Processes, op : OpNames, pc : CallPcs, block : BlockType, adj : Nat,
            outcome : {"none", "ok", "threw", "failed", "lost"}]
SyncRec == [pc : {"idle", "read", "delete", "listed"}, seen : BlockType, stale : BOOLEAN]

TypeInv ==
    /\ now \in Nat
    /\ remote \in BlockType /\ local \in [Processes -> BlockType]
    /\ heap \in Seq(Adjustment)
    /\ adjustments \in [Processes -> 0..Len(heap)]
    /\ calls \in Seq(CallRec)
    /\ \A c \in 1..Len(calls) : calls[c].pc = "snapshot" => calls[c].adj \in 1..Len(heap)
    /\ sync \in [Processes -> SyncRec]
    /\ escalated \in [Processes -> Nat]

\* A sequence with one element replaced.
LEMMA Replaced ==
    ASSUME NEW S, NEW s \in Seq(S), NEW i \in 1..Len(s), NEW x \in S
    PROVE  /\ [s EXCEPT ![i] = x] \in Seq(S) /\ Len([s EXCEPT ![i] = x]) = Len(s)
           /\ [s EXCEPT ![i] = x][i] = x
           /\ \A j \in 1..Len(s) : j # i => [s EXCEPT ![i] = x][j] = s[j]
BY ExceptSeq

LEMMA Appended ==
    ASSUME NEW S, NEW s \in Seq(S), NEW x \in S
    PROVE  /\ Append(s, x) \in Seq(S) /\ Len(Append(s, x)) = Len(s) + 1 /\ Len(s) \in Nat
           /\ Append(s, x)[Len(s) + 1] = x
           /\ \A j \in 1..Len(s) : Append(s, x)[j] = s[j]
BY AppendProperties, LenProperties

LEMMA DomainIsRange == ASSUME NEW S, NEW s \in Seq(S) PROVE DOMAIN s = 1..Len(s) /\ Len(s) \in Nat
BY LenProperties

LEMMA UntilType == ASSUME TypeInv, NEW d \in Nat PROVE Until(d) \in Nat
BY KeyManagerAssumption DEF TypeInv, Until, Forever

LEMMA LiveType == ASSUME NEW b \in BlockType, NEW t PROVE Live(b, t) \in BlockType
BY DEF Live, NoBlock, BlockType

LEMMA NoBlockType == NoBlock \in BlockType /\ ~Ban(NoBlock)
BY DEF NoBlock, BlockType, Ban

\* A ban does not expire.
LEMMA LiveBan == ASSUME NEW b, NEW t, Ban(b) PROVE Live(b, t) = b
BY DEF Live, Ban

LEMMA NewCallType ==
    ASSUME NEW p \in Processes, NEW op \in OpNames, NEW b \in BlockType
    PROVE  /\ NewCall(p, op, b) \in CallRec
           /\ NewCall(p, op, b).proc = p /\ NewCall(p, op, b).op = op
           /\ NewCall(p, op, b).pc = "sent" /\ NewCall(p, op, b).block = b
           /\ NewCall(p, op, b).outcome = "none"
BY DEF NewCall, CallRec, CallPcs

LEMMA OvertakenType ==
    ASSUME TypeInv, NEW p \in Processes, sync' = Overtaken(p)
    PROVE  /\ sync' \in [Processes -> SyncRec]
           /\ \A q \in Processes \ {p} : sync'[q] = sync[q]
           /\ sync'[p].pc = sync[p].pc /\ sync'[p].seen = sync[p].seen
           /\ sync'[p].pc # "idle" => sync'[p].stale
<1> DEFINE r == [sync[p] EXCEPT !.stale = sync[p].stale \/ sync[p].pc # "idle"]
<1>1. sync[p] \in SyncRec /\ sync \in [Processes -> SyncRec]
  BY DEF TypeInv
<1>2. /\ r \in SyncRec /\ r.pc = sync[p].pc /\ r.seen = sync[p].seen
      /\ r.pc # "idle" => r.stale
  BY <1>1 DEF SyncRec
<1>3. sync' = [sync EXCEPT ![p] = r]
  BY DEF Overtaken
<1> HIDE DEF r
<1> QED BY <1>1, <1>2, <1>3

\* A pull of the shared store leaves the calls and the adjustments alone.
Syncs(p) == GetAllBlocks(p) \/ ListBlock(p) \/ DeleteExpired(p) \/ ApplySync(p)

LEMMA SyncsFrame ==
    ASSUME (\E p \in Processes : Syncs(p)) \/ DeleteStray
    PROVE  UNCHANGED <<now, heap, adjustments, calls, escalated>> /\ faults \subseteq faults'
BY DEF Syncs, GetAllBlocks, ListBlock, DeleteExpired, DeleteStray, Deleted, ApplySync

\* The moves of one call.  A call keeps its process; only a penalty that escalates
\* changes what it is.
Moves(c, r) == /\ r \in CallRec /\ calls' = [calls EXCEPT ![c] = r]
               /\ r.proc = calls[c].proc

LEMMA SettleMoves ==
    ASSUME TypeInv, NEW c \in 1..Len(calls), NEW o \in {"none", "ok", "threw", "failed", "lost"},
           Settle(c, o)
    PROVE  \E r \in CallRec : Moves(c, r) /\ r.op = calls[c].op /\ r.pc = "done" /\ r.outcome = o
                              /\ r.block = calls[c].block
<1>1. calls[c] \in CallRec /\ calls \in Seq(CallRec)
  BY DEF TypeInv
<1> DEFINE r == [calls[c] EXCEPT !.pc = "done", !.outcome = o, !.adj = 0]
<1>2. /\ r \in CallRec /\ r.proc = calls[c].proc /\ r.op = calls[c].op
      /\ r.pc = "done" /\ r.outcome = o /\ r.block = calls[c].block
  BY <1>1 DEF CallRec, CallPcs
<1>3. calls' = [calls EXCEPT ![c] = r]
  BY <1>1 DEF Settle
<1> HIDE DEF r
<1> QED BY <1>2, <1>3 DEF Moves

LEMMA ExecuteMoves ==
    ASSUME TypeInv, NEW c \in 1..Len(calls), Execute(c)
    PROVE  \E r \in CallRec :
              /\ Moves(c, r) /\ r.op = calls[c].op /\ r.pc \in {"executed", "done"}
              /\ r.outcome \in {"ok", calls[c].outcome}
              /\ calls[c].op = "block" => r.pc = "done" /\ r.block = calls[c].block
              /\ r.pc = "executed" => calls[c].pc = "sent"
<1>1. calls[c] \in CallRec /\ calls \in Seq(CallRec)
  BY DEF TypeInv
<1> DEFINE op == calls[c].op
           r == [calls[c] EXCEPT
                   !.pc = IF calls[c].pc = "orphan" \/ op \in {"unblockAll", "block", "escalate"}
                          THEN "done" ELSE "executed",
                   !.outcome = IF op \in {"block", "escalate"} /\ calls[c].pc = "sent"
                               THEN "ok" ELSE calls[c].outcome,
                   !.block = IF op = "block" THEN calls[c].block ELSE NoBlock]
<1>2. /\ r \in CallRec /\ r.proc = calls[c].proc /\ r.op = op
      /\ r.pc \in {"executed", "done"} /\ r.outcome \in {"ok", calls[c].outcome}
      /\ op = "block" => r.pc = "done" /\ r.block = calls[c].block
      /\ calls[c].pc = "orphan" => r.pc = "done"
  BY <1>1, NoBlockType DEF CallRec, CallPcs
<1>3. calls' = [calls EXCEPT ![c] = r]
  BY <1>1 DEF Execute
<1>4. calls[c].pc \in {"sent", "orphan"}
  BY DEF Execute, Pending
<1> HIDE DEF r
<1> QED BY <1>2, <1>3, <1>4 DEF Moves

LEMMA FailMoves ==
    ASSUME TypeInv, NEW c \in 1..Len(calls), FailCall(c)
    PROVE  \E r \in CallRec : /\ Moves(c, r) /\ r.op = calls[c].op /\ r.pc = "done"
                              /\ r.outcome = "failed" /\ r.block = calls[c].block
<1>1. calls[c] \in CallRec /\ calls \in Seq(CallRec)
  BY DEF TypeInv
<1> DEFINE r == [calls[c] EXCEPT !.pc = "done", !.outcome = "failed"]
<1>2. /\ r \in CallRec /\ r.proc = calls[c].proc /\ r.op = calls[c].op
      /\ r.pc = "done" /\ r.outcome = "failed" /\ r.block = calls[c].block
  BY <1>1 DEF CallRec, CallPcs
<1>3. calls' = [calls EXCEPT ![c] = r]
  BY <1>1 DEF FailCall
<1> HIDE DEF r
<1> QED BY <1>2, <1>3 DEF Moves

LEMMA PenaltyMoves ==
    ASSUME TypeInv, NEW c \in 1..Len(calls), ResumePenalty(c), adjustments[calls[c].proc] # 0
    PROVE  \E r \in CallRec : /\ Moves(c, r) /\ r.op = "penalty" /\ r.pc = "snapshot"
                              /\ r.adj = adjustments[calls[c].proc]
                              /\ r.outcome = calls[c].outcome /\ r.block = calls[c].block
<1>1. calls[c] \in CallRec /\ calls \in Seq(CallRec)
  BY DEF TypeInv
<1>2. calls[c].proc \in Processes
  BY <1>1 DEF CallRec
<1> DEFINE a == adjustments[calls[c].proc]
           r == [calls[c] EXCEPT !.pc = "snapshot", !.adj = a]
<1>3. a \in Nat
  BY <1>2 DEF TypeInv
<1>4. calls[c].op = "penalty"
  BY DEF ResumePenalty, Resumes
<1>5. /\ r \in CallRec /\ r.proc = calls[c].proc /\ r.op = calls[c].op /\ r.adj = a
      /\ r.pc = "snapshot" /\ r.outcome = calls[c].outcome /\ r.block = calls[c].block
  BY <1>1, <1>3 DEF CallRec, CallPcs
<1>6. calls' = [calls EXCEPT ![c] = r]
  BY <1>1 DEF ResumePenalty
<1> HIDE DEF r
<1> QED BY <1>4, <1>5, <1>6 DEF Moves

LEMMA EscalationType == ASSUME NEW n \in Nat PROVE PenaltyEscalation(n + 1) \in Nat
<1>1. (n + 1) - 1 = n /\ n * StepDuration \in Nat
  BY KeyManagerAssumption
<1>2. BaseDuration + n * StepDuration \in Nat
  BY <1>1, KeyManagerAssumption
<1> QED BY <1>1, <1>2, KeyManagerAssumption DEF PenaltyEscalation

LEMMA EscalateMoves ==
    ASSUME TypeInv, NEW c \in 1..Len(calls), Escalate(c),
           MayEscalate(calls[c].proc, calls[c].adj)
    PROVE  \E r \in CallRec : /\ Moves(c, r) /\ r.op = "escalate" /\ r.pc = "sent"
                              /\ r.outcome = calls[c].outcome
                              /\ local' = [local EXCEPT ![calls[c].proc] = r.block]
<1>1. calls[c] \in CallRec /\ calls \in Seq(CallRec)
  BY DEF TypeInv
<1> DEFINE a == calls[c].adj
           n == NextViolation(a)
           b == [type |-> "penalty", until |-> Until(PenaltyEscalation(n))]
           r == [calls[c] EXCEPT !.op = "escalate", !.pc = "sent", !.block = b, !.adj = 0]
<1>2. a \in 1..Len(heap) /\ heap[a] \in Adjustment
  BY DEF Escalate, TypeInv
<1>3. b \in BlockType
  <2>1. heap[a].violations \in Nat
    BY <1>2 DEF Adjustment
  <2>2. PenaltyEscalation(n) \in Nat
    BY <2>1, EscalationType DEF NextViolation
  <2>3. Until(PenaltyEscalation(n)) \in Nat
    BY <2>2, UntilType
  <2> QED BY <2>3 DEF BlockType
<1>4. calls' = [calls EXCEPT ![c] = r] /\ local' = [local EXCEPT ![calls[c].proc] = b]
  BY <1>1 DEF Escalate
<1> HIDE DEF b
<1>5. /\ r \in CallRec /\ r.proc = calls[c].proc /\ r.op = "escalate" /\ r.block = b
      /\ r.pc = "sent" /\ r.outcome = calls[c].outcome
  BY <1>1, <1>3 DEF CallRec, CallPcs, OpNames
<1> HIDE DEF r
<1> QED BY <1>4, <1>5 DEF Moves

LEMMA MovedValue ==
    ASSUME TypeInv, NEW c \in 1..Len(calls), NEW r \in CallRec, Moves(c, r)
    PROVE  /\ calls' \in Seq(CallRec) /\ Len(calls') = Len(calls) /\ calls'[c] = r
           /\ \A d \in 1..Len(calls) : d # c => calls'[d] = calls[d]
<1>1. calls \in Seq(CallRec) /\ calls' = [calls EXCEPT ![c] = r]
  BY DEF TypeInv, Moves
<1>2. /\ [calls EXCEPT ![c] = r] \in Seq(CallRec) /\ Len([calls EXCEPT ![c] = r]) = Len(calls)
      /\ [calls EXCEPT ![c] = r][c] = r
      /\ \A d \in 1..Len(calls) : d # c => [calls EXCEPT ![c] = r][d] = calls[d]
  BY <1>1, Replaced
<1> QED BY <1>1, <1>2

LEMMA AddedValue ==
    ASSUME TypeInv, NEW r \in CallRec, calls' = Append(calls, r)
    PROVE  /\ calls' \in Seq(CallRec) /\ Len(calls) \in Nat /\ Len(calls') = Len(calls) + 1
           /\ calls'[Len(calls) + 1] = r
           /\ \A d \in 1..Len(calls) : calls'[d] = calls[d]
<1>1. calls \in Seq(CallRec)
  BY DEF TypeInv
<1>2. /\ Append(calls, r) \in Seq(CallRec) /\ Len(Append(calls, r)) = Len(calls) + 1
      /\ Len(calls) \in Nat /\ Append(calls, r)[Len(calls) + 1] = r
      /\ \A d \in 1..Len(calls) : Append(calls, r)[d] = calls[d]
  BY <1>1, Appended
<1> QED BY <1>2

LEMMA ClearValue ==
    ASSUME TypeInv, NEW p \in Processes, ClearViolations(p)
    PROVE  /\ heap' \in Seq(Adjustment) /\ Len(heap') = Len(heap)
           /\ adjustments[p] # 0 => heap'[adjustments[p]].violations = 0
           /\ \A i \in 1..Len(heap) : i # adjustments[p] => heap'[i] = heap[i]
           /\ escalated' \in [Processes -> Nat] /\ escalated'[p] = 0
           /\ \A q \in Processes \ {p} : escalated'[q] = escalated[q]
<1>1. /\ escalated' \in [Processes -> Nat] /\ escalated'[p] = 0
      /\ \A q \in Processes \ {p} : escalated'[q] = escalated[q]
  BY DEF ClearViolations, TypeInv
<1>2. CASE adjustments[p] = 0
  BY <1>1, <1>2 DEF ClearViolations, TypeInv
<1>3. CASE adjustments[p] # 0
  <2> DEFINE a == adjustments[p]
             x == [heap[a] EXCEPT !.violations = 0]
  <2>1. heap \in Seq(Adjustment) /\ a \in 0..Len(heap) /\ Len(heap) \in Nat
    BY LenProperties DEF TypeInv
  <2>2. a \in 1..Len(heap) /\ heap[a] \in Adjustment
    BY <1>3, <2>1
  <2>3. x \in Adjustment /\ x.violations = 0
    BY <2>2 DEF Adjustment
  <2>4. heap' = [heap EXCEPT ![a] = x]
    BY <1>3 DEF ClearViolations
  <2> HIDE DEF a, x
  <2>5. /\ [heap EXCEPT ![a] = x] \in Seq(Adjustment) /\ Len([heap EXCEPT ![a] = x]) = Len(heap)
        /\ [heap EXCEPT ![a] = x][a] = x
        /\ \A j \in 1..Len(heap) : j # a => [heap EXCEPT ![a] = x][j] = heap[j]
    BY <2>1, <2>2, <2>3, Replaced
  <2> QED BY <1>1, <2>3, <2>4, <2>5 DEF a
<1> QED BY <1>2, <1>3

LEMMA TouchValue ==
    ASSUME TypeInv, NEW p \in Processes, TouchAdjustmentWindow(p)
    PROVE  \/ adjustments[p] # 0 /\ UNCHANGED <<heap, adjustments, faults>>
           \/ /\ heap' \in Seq(Adjustment) /\ Len(heap) \in Nat /\ Len(heap') = Len(heap) + 1
              /\ \A i \in 1..Len(heap) : heap'[i] = heap[i]
              /\ heap'[Len(heap) + 1].violations =
                    IF adjustments[p] = 0 THEN 0 ELSE heap[adjustments[p]].violations
              /\ adjustments' = [adjustments EXCEPT ![p] = Len(heap) + 1]
              /\ faults' = IF Held(p) THEN faults \union {"detached"} ELSE faults
<1> DEFINE a == adjustments[p]
           v == IF a = 0 THEN 0 ELSE heap[a].violations
           x == [points |-> 0, start |-> now, violations |-> v]
<1>1. heap \in Seq(Adjustment) /\ a \in 0..Len(heap) /\ Len(heap) \in Nat /\ now \in Nat
  BY LenProperties DEF TypeInv
<1>2. v \in Nat
  <2>1. CASE a # 0
    <3>1. heap[a] \in Adjustment
      BY <1>1, <2>1
    <3> QED BY <2>1, <3>1 DEF Adjustment
  <2> QED BY <2>1
<1>3. x \in Adjustment /\ x.violations = v
  BY <1>1, <1>2 DEF Adjustment
<1>4. CASE a # 0 /\ now - heap[a].start < WindowMs
  BY <1>4 DEF TouchAdjustmentWindow
<1>5. CASE ~(a # 0 /\ now - heap[a].start < WindowMs)
  <2>1. /\ heap' = Append(heap, x)
        /\ adjustments' = [adjustments EXCEPT ![p] = Len(heap) + 1]
        /\ faults' = IF Held(p) THEN faults \union {"detached"} ELSE faults
    BY <1>5 DEF TouchAdjustmentWindow
  <2> HIDE DEF x, v
  <2>2. /\ Append(heap, x) \in Seq(Adjustment) /\ Len(Append(heap, x)) = Len(heap) + 1
        /\ Append(heap, x)[Len(heap) + 1] = x
        /\ \A j \in 1..Len(heap) : Append(heap, x)[j] = heap[j]
    BY <1>1, <1>3, Appended
  <2>3. heap'[Len(heap) + 1].violations = v
    BY <1>3, <2>1, <2>2
  <2> QED BY <1>1, <2>1, <2>2, <2>3 DEF v
<1> QED BY <1>4, <1>5

LEMMA RestartValue ==
    ASSUME TypeInv, NEW p \in Processes, Restart(p)
    PROVE  /\ calls' \in Seq(CallRec) /\ Len(calls') = Len(calls)
           /\ \A c \in 1..Len(calls) :
                 \/ calls'[c] = calls[c] /\ (calls[c].proc # p \/ calls[c].pc = "done")
                 \/ /\ calls'[c].proc = calls[c].proc /\ calls'[c].op = calls[c].op
                    /\ calls'[c].pc \in {"orphan", "done"} /\ calls'[c].block = calls[c].block
                    /\ calls'[c].outcome = "lost"
<1>1. calls \in Seq(CallRec) /\ DOMAIN calls = 1..Len(calls) /\ Len(calls) \in Nat
      /\ \A c \in 1..Len(calls) : calls[c] \in CallRec
  BY LenProperties DEF TypeInv
<1> DEFINE r(c) == IF calls[c].proc # p \/ calls[c].pc = "done" THEN calls[c]
                   ELSE [calls[c] EXCEPT !.pc = IF calls[c].pc = "sent" THEN "orphan" ELSE "done",
                                         !.outcome = "lost"]
<1>2. calls' = [c \in 1..Len(calls) |-> r(c)]
  BY <1>1 DEF Restart
<1>3. ASSUME NEW c \in 1..Len(calls)
      PROVE  /\ r(c) \in CallRec
             /\ \/ r(c) = calls[c] /\ (calls[c].proc # p \/ calls[c].pc = "done")
                \/ /\ r(c).proc = calls[c].proc /\ r(c).op = calls[c].op
                   /\ r(c).pc \in {"orphan", "done"} /\ r(c).block = calls[c].block
                   /\ r(c).outcome = "lost"
  <2>1. calls[c] \in CallRec
    BY <1>1
  <2>2. CASE calls[c].proc # p \/ calls[c].pc = "done"
    BY <2>1, <2>2
  <2>3. CASE ~(calls[c].proc # p \/ calls[c].pc = "done")
    <3> DEFINE x == [calls[c] EXCEPT !.pc = IF calls[c].pc = "sent" THEN "orphan" ELSE "done",
                                     !.outcome = "lost"]
    <3>1. r(c) = x
      BY <2>3
    <3>2. /\ x \in CallRec /\ x.proc = calls[c].proc /\ x.op = calls[c].op
          /\ x.pc \in {"orphan", "done"} /\ x.block = calls[c].block /\ x.outcome = "lost"
      BY <2>1 DEF CallRec, CallPcs
    <3> HIDE DEF x, r
    <3> QED BY <3>1, <3>2
  <2> QED BY <2>2, <2>3
<1> HIDE DEF r
<1>4. calls' \in Seq(CallRec) /\ Len(calls') = Len(calls) /\ \A c \in 1..Len(calls) : calls'[c] = r(c)
  <2>1. calls' \in [1..Len(calls) -> CallRec] /\ \A c \in 1..Len(calls) : calls'[c] = r(c)
    BY <1>2, <1>3
  <2>2. calls' \in Seq(CallRec)
    BY <1>1, <2>1, SeqDef
  <2>3. DOMAIN calls' = 1..Len(calls) /\ Len(calls') \in Nat /\ DOMAIN calls' = 1..Len(calls')
    BY <2>1, <2>2, LenProperties
  <2>4. Len(calls') = Len(calls)
    BY <1>1, <2>3
  <2> QED BY <2>1, <2>2, <2>4
<1> QED BY <1>3, <1>4

LEMMA IncrementPoints ==
    ASSUME NEW h \in Seq(Adjustment), NEW a \in 1..Len(h)
    PROVE  /\ [h EXCEPT ![a].points = @ + 1] \in Seq(Adjustment)
           /\ Len([h EXCEPT ![a].points = @ + 1]) = Len(h)
           /\ \A i \in 1..Len(h) : [h EXCEPT ![a].points = @ + 1][i].violations = h[i].violations
<1> DEFINE x == [h[a] EXCEPT !.points = h[a].points + 1]
<1>1. h[a] \in Adjustment
  OBVIOUS
<1>2. x \in Adjustment /\ x.violations = h[a].violations
  <2>1. PICK m \in Nat : m = h[a].points + 1
    BY <1>1 DEF Adjustment
  <2>2. [h[a] EXCEPT !.points = m] \in Adjustment
          /\ [h[a] EXCEPT !.points = m].violations = h[a].violations
    BY <1>1 DEF Adjustment
  <2> QED BY <2>1, <2>2
<1>3. [h EXCEPT ![a].points = @ + 1] = [h EXCEPT ![a] = x]
  OBVIOUS
<1> HIDE DEF x
<1>4. /\ [h EXCEPT ![a] = x] \in Seq(Adjustment) /\ Len([h EXCEPT ![a] = x]) = Len(h)
      /\ [h EXCEPT ![a] = x][a] = x
      /\ \A j \in 1..Len(h) : j # a => [h EXCEPT ![a] = x][j] = h[j]
  BY <1>2, Replaced
<1> QED BY <1>2, <1>3, <1>4

LEMMA SetViolations ==
    ASSUME NEW h \in Seq(Adjustment), NEW a \in 1..Len(h), NEW n \in Nat
    PROVE  /\ [h EXCEPT ![a].violations = n] \in Seq(Adjustment)
           /\ Len([h EXCEPT ![a].violations = n]) = Len(h)
           /\ [h EXCEPT ![a].violations = n][a].violations = n
           /\ \A i \in 1..Len(h) : i # a => [h EXCEPT ![a].violations = n][i] = h[i]
<1> DEFINE x == [h[a] EXCEPT !.violations = n]
<1>1. h[a] \in Adjustment
  OBVIOUS
<1>2. x \in Adjustment /\ x.violations = n
  BY <1>1 DEF Adjustment
<1>3. [h EXCEPT ![a].violations = n] = [h EXCEPT ![a] = x]
  OBVIOUS
<1> HIDE DEF x
<1>4. /\ [h EXCEPT ![a] = x] \in Seq(Adjustment) /\ Len([h EXCEPT ![a] = x]) = Len(h)
      /\ [h EXCEPT ![a] = x][a] = x
      /\ \A j \in 1..Len(h) : j # a => [h EXCEPT ![a] = x][j] = h[j]
  BY <1>2, Replaced
<1> QED BY <1>2, <1>3, <1>4

\* A new call: what is appended.
LEMMA CallAdded ==
    ASSUME TypeInv, NEW p \in Processes,
           \/ \E d \in BlockTimes : BlockKey(p, d)
           \/ Unblock(p) \/ UnblockAll(p) \/ Delete(p)
           \/ \E op \in {"penalty", "reward"} : Adjust(p, op)
    PROVE  \E r \in CallRec :
              /\ calls' = Append(calls, r) /\ r.proc = p /\ r.pc = "sent"
              /\ r.outcome \in {"none", "ok"}
              /\ \/ /\ r.op = "block" /\ r.block.type = "manual"
                    /\ local' = [local EXCEPT ![p] = r.block] /\ sync' = Overtaken(p)
                    /\ UNCHANGED <<heap, adjustments, escalated, faults>>
                 \/ /\ r.op \in {"unblock", "delete"}
                    /\ UNCHANGED <<local, sync, heap, adjustments, escalated, faults>>
                 \/ /\ r.op = "unblockAll" /\ ClearViolations(p) /\ sync' = Overtaken(p)
                    /\ local' = [local EXCEPT ![p] = NoBlock] /\ UNCHANGED <<adjustments, faults>>
                 \/ /\ r.op \in {"penalty", "reward"} /\ TouchAdjustmentWindow(p)
                    /\ UNCHANGED <<local, sync, escalated>>
              /\ UNCHANGED <<now, remote>>
<1>1. CASE \E d \in BlockTimes : BlockKey(p, d)
  <2>1. PICK d \in BlockTimes : BlockKey(p, d)
    BY <1>1
  <2> DEFINE b == [type |-> "manual", until |-> Until(d)]
             r == NewCall(p, "block", b)
  <2>2. b \in BlockType /\ b.type = "manual"
    BY <2>1, UntilType, KeyManagerAssumption DEF BlockType
  <2>3. /\ local' = [local EXCEPT ![p] = b] /\ calls' = Append(calls, r) /\ sync' = Overtaken(p)
        /\ UNCHANGED <<now, remote, heap, adjustments, escalated, faults>>
    BY <2>1 DEF BlockKey
  <2> HIDE DEF b
  <2>4. r \in CallRec /\ r.proc = p /\ r.op = "block" /\ r.pc = "sent" /\ r.block = b /\ r.outcome = "none"
    BY <2>2, NewCallType DEF OpNames
  <2> HIDE DEF r
  <2> QED BY <2>2, <2>3, <2>4
<1>2. CASE Unblock(p) \/ Delete(p)
  <2>1. PICK op \in {"unblock", "delete"} : calls' = Append(calls, NewCall(p, op, NoBlock))
    BY <1>2 DEF Unblock, Delete
  <2>2. UNCHANGED <<now, remote, local, sync, heap, adjustments, escalated, faults>>
    BY <1>2 DEF Unblock, Delete
  <2> DEFINE r == NewCall(p, op, NoBlock)
  <2>3. r \in CallRec /\ r.proc = p /\ r.op = op /\ r.pc = "sent" /\ r.outcome = "none"
    BY NoBlockType, NewCallType DEF OpNames
  <2>4. calls' = Append(calls, r)
    BY <2>1
  <2> HIDE DEF r
  <2> QED BY <2>2, <2>3, <2>4
<1>3. CASE UnblockAll(p)
  <2> DEFINE n == NewCall(p, "unblockAll", NoBlock)
             r == [n EXCEPT !.outcome = "ok"]
  <2>1. n \in CallRec /\ n.proc = p /\ n.op = "unblockAll" /\ n.pc = "sent"
    BY NoBlockType, NewCallType DEF OpNames
  <2>2. /\ calls' = Append(calls, r) /\ ClearViolations(p) /\ sync' = Overtaken(p)
        /\ local' = [local EXCEPT ![p] = NoBlock] /\ UNCHANGED <<now, remote, adjustments, faults>>
    BY <1>3 DEF UnblockAll
  <2> HIDE DEF n
  <2>3. r \in CallRec /\ r.proc = p /\ r.op = "unblockAll" /\ r.pc = "sent" /\ r.outcome = "ok"
    BY <2>1 DEF CallRec
  <2> HIDE DEF r
  <2> QED BY <2>2, <2>3
<1>4. CASE \E op \in {"penalty", "reward"} : Adjust(p, op)
  <2>1. PICK op \in {"penalty", "reward"} : Adjust(p, op)
    BY <1>4
  <2> DEFINE r == NewCall(p, op, NoBlock)
  <2>2. calls' = Append(calls, r) /\ TouchAdjustmentWindow(p)
        /\ UNCHANGED <<now, remote, local, sync, escalated>>
    BY <2>1 DEF Adjust
  <2>3. r \in CallRec /\ r.proc = p /\ r.op = op /\ r.pc = "sent" /\ r.outcome = "none"
    BY NoBlockType, NewCallType DEF OpNames
  <2> HIDE DEF r
  <2> QED BY <2>2, <2>3
<1> QED BY <1>1, <1>2, <1>3, <1>4

LEMMA AddedType ==
    ASSUME TypeInv, NEW p \in Processes,
           \/ \E d \in BlockTimes : BlockKey(p, d)
           \/ Unblock(p) \/ UnblockAll(p) \/ Delete(p)
           \/ \E op \in {"penalty", "reward"} : Adjust(p, op)
    PROVE  TypeInv'
<1>1. PICK r \in CallRec :
              /\ calls' = Append(calls, r) /\ r.proc = p /\ r.pc = "sent"
              /\ \/ /\ r.op = "block"
                    /\ local' = [local EXCEPT ![p] = r.block] /\ sync' = Overtaken(p)
                    /\ UNCHANGED <<heap, adjustments, escalated, faults>>
                 \/ UNCHANGED <<local, sync, heap, adjustments, escalated, faults>>
                 \/ /\ ClearViolations(p) /\ sync' = Overtaken(p)
                    /\ local' = [local EXCEPT ![p] = NoBlock] /\ UNCHANGED <<adjustments, faults>>
                 \/ /\ TouchAdjustmentWindow(p)
                    /\ UNCHANGED <<local, sync, escalated>>
              /\ UNCHANGED <<now, remote>>
  BY CallAdded
<1>2. /\ calls' \in Seq(CallRec) /\ Len(calls) \in Nat /\ Len(calls') = Len(calls) + 1
      /\ calls'[Len(calls) + 1] = r
      /\ \A d \in 1..Len(calls) : calls'[d] = calls[d]
  BY <1>1, AddedValue
<1>3. ASSUME Len(heap') \in Nat, Len(heap) \in Nat, Len(heap') >= Len(heap)
      PROVE  \A c \in 1..Len(calls') : calls'[c].pc = "snapshot" => calls'[c].adj \in 1..Len(heap')
  <2> SUFFICES ASSUME NEW c \in 1..Len(calls'), calls'[c].pc = "snapshot"
               PROVE  calls'[c].adj \in 1..Len(heap')
    OBVIOUS
  <2>1. c # Len(calls) + 1
    BY <1>1, <1>2
  <2>2. c \in 1..Len(calls)
    BY <1>2, <2>1
  <2>3. calls[c].adj \in 1..Len(heap) /\ calls'[c] = calls[c]
    BY <1>2, <2>2 DEF TypeInv
  <2> QED BY <1>3, <2>3
<1>4. Len(heap) \in Nat /\ heap \in Seq(Adjustment)
  BY LenProperties DEF TypeInv
<1>5. CASE /\ local' = [local EXCEPT ![p] = r.block] /\ sync' = Overtaken(p)
           /\ UNCHANGED <<heap, adjustments, escalated, faults>>
  <2>1. local' \in [Processes -> BlockType]
    BY <1>5 DEF TypeInv, CallRec
  <2>2. sync' \in [Processes -> SyncRec]
    BY <1>5, OvertakenType
  <2> QED BY <1>1, <1>2, <1>3, <1>4, <1>5, <2>1, <2>2 DEF TypeInv
<1>6. CASE UNCHANGED <<local, sync, heap, adjustments, escalated, faults>>
  BY <1>1, <1>2, <1>3, <1>4, <1>6 DEF TypeInv
<1>7. CASE /\ ClearViolations(p) /\ sync' = Overtaken(p)
           /\ local' = [local EXCEPT ![p] = NoBlock] /\ UNCHANGED <<adjustments, faults>>
  <2>1. local' \in [Processes -> BlockType]
    BY <1>7, NoBlockType DEF TypeInv
  <2>2. sync' \in [Processes -> SyncRec]
    BY <1>7, OvertakenType
  <2>3. heap' \in Seq(Adjustment) /\ Len(heap') = Len(heap) /\ escalated' \in [Processes -> Nat]
    BY <1>7, ClearValue
  <2>4. adjustments' \in [Processes -> 0..Len(heap')]
    BY <1>7, <2>3 DEF TypeInv
  <2> QED BY <1>1, <1>2, <1>3, <1>4, <2>1, <2>2, <2>3, <2>4 DEF TypeInv
<1>8. CASE TouchAdjustmentWindow(p) /\ UNCHANGED <<local, sync, escalated>>
  <2>1. CASE UNCHANGED <<heap, adjustments>>
    BY <1>1, <1>2, <1>3, <1>4, <1>8, <2>1 DEF TypeInv
  <2>2. CASE /\ heap' \in Seq(Adjustment) /\ Len(heap') = Len(heap) + 1
             /\ adjustments' = [adjustments EXCEPT ![p] = Len(heap) + 1]
    <3>1. adjustments' \in [Processes -> 0..Len(heap')]
      <4>1. \A i \in 0..Len(heap) : i \in 0..Len(heap')
        BY <1>4, <2>2
      <4>2. Len(heap) + 1 \in 0..Len(heap')
        BY <1>4, <2>2
      <4> QED BY <2>2, <4>1, <4>2 DEF TypeInv
    <3> QED BY <1>1, <1>2, <1>3, <1>4, <1>8, <2>2, <3>1 DEF TypeInv
  <2> QED BY <1>8, <2>1, <2>2, TouchValue
<1> QED BY <1>1, <1>5, <1>6, <1>7, <1>8

\* The steps of one call that has begun.
LEMMA MovedType ==
    ASSUME TypeInv, NEW c \in 1..Len(calls), NEW r \in CallRec, Moves(c, r),
           now' = now, remote' \in BlockType, local' \in [Processes -> BlockType],
           heap' \in Seq(Adjustment), Len(heap') = Len(heap),
           adjustments' \in [Processes -> 0..Len(heap)], sync' \in [Processes -> SyncRec],
           escalated' \in [Processes -> Nat],
           r.pc = "snapshot" => r.adj \in 1..Len(heap)
    PROVE  TypeInv'
<1>1. /\ calls' \in Seq(CallRec) /\ Len(calls') = Len(calls) /\ calls'[c] = r
      /\ \A d \in 1..Len(calls) : d # c => calls'[d] = calls[d]
  BY MovedValue
<1>2. ASSUME NEW d \in 1..Len(calls), calls'[d].pc = "snapshot"
      PROVE  calls'[d].adj \in 1..Len(heap)
  <2>1. CASE d = c
    BY <1>1, <1>2, <2>1
  <2>2. CASE d # c
    <3>1. calls'[d] = calls[d]
      BY <1>1, <2>2
    <3> QED BY <1>2, <3>1 DEF TypeInv
  <2> QED BY <2>1, <2>2
<1>3. \A d \in 1..Len(calls') : calls'[d].pc = "snapshot" => calls'[d].adj \in 1..Len(heap')
  BY <1>1, <1>2
<1>4. adjustments' \in [Processes -> 0..Len(heap')] /\ now' \in Nat
  BY DEF TypeInv
<1> QED BY <1>1, <1>3, <1>4 DEF TypeInv

LEMMA ExecuteType ==
    ASSUME TypeInv, NEW c \in 1..Len(calls), Execute(c)
    PROVE  TypeInv'
<1>1. PICK r \in CallRec : Moves(c, r) /\ r.pc \in {"executed", "done"}
  BY ExecuteMoves
<1>2. calls[c].block \in BlockType
  <2>1. calls[c] \in CallRec
    BY DEF TypeInv
  <2> QED BY <2>1 DEF CallRec
<1>3. /\ Written(Live(calls[c].block, now)) \/ Written(NoBlock) \/ UNCHANGED <<remote, sync>>
      /\ UNCHANGED <<now, local, heap, adjustments, escalated>>
  <2>1. IF calls[c].op \in {"block", "escalate"} THEN Written(Live(calls[c].block, now))
        ELSE IF calls[c].op \in {"unblock", "unblockAll", "delete"} THEN Written(NoBlock)
        ELSE UNCHANGED <<remote, sync>>
    BY Zenon DEF Execute
  <2>2. UNCHANGED <<now, local, heap, adjustments, escalated>>
    BY DEF Execute
  <2> QED BY <2>1, <2>2
<1>4. ASSUME NEW b \in BlockType, Written(b)
      PROVE  remote' \in BlockType /\ sync' \in [Processes -> SyncRec]
  <2>1. ASSUME NEW p \in Processes
        PROVE  [sync[p] EXCEPT !.stale = sync[p].stale \/ sync[p].pc # "idle"] \in SyncRec
    <3>1. sync[p] \in SyncRec
      BY DEF TypeInv
    <3> QED BY <3>1 DEF SyncRec
  <2> QED BY <1>4, <2>1 DEF Written
<1>5. remote' \in BlockType /\ sync' \in [Processes -> SyncRec]
  <2>1. CASE UNCHANGED <<remote, sync>>
    BY <2>1 DEF TypeInv
  <2> QED BY <1>2, <1>3, <1>4, <2>1, NoBlockType, LiveType
<1> QED BY <1>1, <1>3, <1>5, MovedType DEF TypeInv

LEMMA ContinueType ==
    ASSUME TypeInv, NEW c \in 1..Len(calls), FailCall(c) \/ Continue(c)
    PROVE  TypeInv'
<1>0. /\ calls[c] \in CallRec /\ calls[c].proc \in Processes /\ heap \in Seq(Adjustment)
      /\ Len(heap) \in Nat
  <2>1. calls[c] \in CallRec /\ heap \in Seq(Adjustment)
    BY DEF TypeInv
  <2>2. calls[c].proc \in Processes
    BY <2>1 DEF CallRec
  <2> QED BY <2>1, <2>2, LenProperties
<1>1. CASE FailCall(c)
  <2>1. PICK r \in CallRec : Moves(c, r) /\ r.pc = "done"
    BY <1>1, FailMoves
  <2>2. UNCHANGED <<now, remote, local, heap, adjustments, sync, escalated>>
    BY <1>1 DEF FailCall
  <2> QED BY <2>1, <2>2, MovedType DEF TypeInv
<1>2. CASE ResumeUnblock(c)
  <2>1. PICK r \in CallRec : Moves(c, r) /\ r.pc = "done"
    BY <1>2, SettleMoves DEF ResumeUnblock
  <2>2. PICK p \in Processes : p = calls[c].proc
    BY <1>0
  <2>3. /\ local' = [local EXCEPT ![p] = NoBlock] /\ ClearViolations(p) /\ sync' = Overtaken(p)
        /\ UNCHANGED <<now, remote, adjustments>>
    BY <1>2, <2>2 DEF ResumeUnblock
  <2>4. /\ heap' \in Seq(Adjustment) /\ Len(heap') = Len(heap) /\ escalated' \in [Processes -> Nat]
        /\ sync' \in [Processes -> SyncRec] /\ local' \in [Processes -> BlockType]
    BY <2>3, ClearValue, OvertakenType, NoBlockType DEF TypeInv
  <2> QED BY <2>1, <2>3, <2>4, MovedType DEF TypeInv
<1>3. CASE ResumeDelete(c)
  <2>1. PICK r \in CallRec : Moves(c, r) /\ r.pc = "done"
    BY <1>3, SettleMoves DEF ResumeDelete
  <2>2. PICK p \in Processes : p = calls[c].proc
    BY <1>0
  <2>3. /\ local' = [local EXCEPT ![p] = NoBlock] /\ adjustments' = [adjustments EXCEPT ![p] = 0]
        /\ escalated' = [escalated EXCEPT ![p] = 0] /\ sync' = Overtaken(p)
        /\ UNCHANGED <<now, remote, heap>>
    BY <1>3, <2>2 DEF ResumeDelete
  <2>4. /\ sync' \in [Processes -> SyncRec] /\ local' \in [Processes -> BlockType]
        /\ escalated' \in [Processes -> Nat]
    BY <2>3, OvertakenType, NoBlockType DEF TypeInv
  <2>5. adjustments' \in [Processes -> 0..Len(heap)]
    BY <1>0, <2>3 DEF TypeInv
  <2> QED BY <2>1, <2>3, <2>4, <2>5, MovedType DEF TypeInv
<1>4. CASE ResumeReward(c)
  <2>1. PICK r \in CallRec : Moves(c, r) /\ r.pc = "done"
    BY <1>4, SettleMoves DEF ResumeReward
  <2>2. UNCHANGED <<now, remote, local, heap, adjustments, sync, escalated>>
    BY <1>4 DEF ResumeReward
  <2> QED BY <2>1, <2>2, MovedType DEF TypeInv
<1>5. CASE ResumePenalty(c)
  <2>1. UNCHANGED <<now, remote, local, adjustments, sync, escalated>>
    BY <1>5 DEF ResumePenalty
  <2>2. CASE adjustments[calls[c].proc] = 0
    <3>1. Settle(c, "threw") /\ UNCHANGED heap
      BY <1>5, <2>2 DEF ResumePenalty
    <3>2. PICK r \in CallRec : Moves(c, r) /\ r.pc = "done"
      BY <3>1, SettleMoves
    <3> QED BY <2>1, <3>1, <3>2, MovedType DEF TypeInv
  <2>3. CASE adjustments[calls[c].proc] # 0
    <3>1. PICK r \in CallRec : Moves(c, r) /\ r.adj = adjustments[calls[c].proc]
      BY <1>5, <2>3, PenaltyMoves
    <3>2. PICK a \in 1..Len(heap) : a = adjustments[calls[c].proc]
      BY <1>0, <2>3 DEF TypeInv
    <3>3. heap' = [heap EXCEPT ![a].points = @ + 1]
      BY <1>5, <2>3, <3>2 DEF ResumePenalty
    <3>4. heap' \in Seq(Adjustment) /\ Len(heap') = Len(heap)
      BY <1>0, <3>3, IncrementPoints
    <3> QED BY <2>1, <3>1, <3>2, <3>4, MovedType DEF TypeInv
  <2> QED BY <2>2, <2>3
<1>6. CASE Escalate(c)
  <2>1. UNCHANGED <<now, remote>>
    BY <1>6 DEF Escalate
  <2>2. CASE ~MayEscalate(calls[c].proc, calls[c].adj)
    <3>1. Settle(c, "ok") /\ UNCHANGED <<heap, adjustments, local, escalated, sync>>
      BY <1>6, <2>2 DEF Escalate
    <3>2. PICK r \in CallRec : Moves(c, r) /\ r.pc = "done"
      BY <3>1, SettleMoves
    <3> QED BY <2>1, <3>1, <3>2, MovedType DEF TypeInv
  <2>3. CASE MayEscalate(calls[c].proc, calls[c].adj)
    <3>1. PICK r \in CallRec : /\ Moves(c, r) /\ r.pc = "sent"
                               /\ local' = [local EXCEPT ![calls[c].proc] = r.block]
      BY <1>6, <2>3, EscalateMoves
    <3>2. PICK p \in Processes : p = calls[c].proc
      BY <1>0
    <3>3. PICK a \in 1..Len(heap) : a = calls[c].adj
      BY <1>6 DEF Escalate, TypeInv
    <3>4. /\ heap' = [heap EXCEPT ![a].violations = NextViolation(a)]
          /\ adjustments' = [adjustments EXCEPT ![p] = a]
          /\ escalated' = [escalated EXCEPT ![p] = @ + 1] /\ sync' = Overtaken(p)
      BY <1>6, <2>3, <3>2, <3>3 DEF Escalate
    <3>5. NextViolation(a) \in Nat
      <4>1. heap[a] \in Adjustment
        BY <1>0
      <4> QED BY <4>1 DEF Adjustment, NextViolation
    <3>6. heap' \in Seq(Adjustment) /\ Len(heap') = Len(heap)
      BY <1>0, <3>4, <3>5, SetViolations
    <3>7. adjustments' \in [Processes -> 0..Len(heap)]
      BY <1>0, <3>4 DEF TypeInv
    <3>8. escalated' \in [Processes -> Nat]
      <4>1. escalated[p] + 1 \in Nat
        BY DEF TypeInv
      <4> QED BY <3>4, <4>1 DEF TypeInv
    <3>9. sync' \in [Processes -> SyncRec]
      BY <3>4, OvertakenType
    <3>10. local' \in [Processes -> BlockType]
      BY <3>1 DEF TypeInv, CallRec
    <3> QED BY <2>1, <3>1, <3>6, <3>7, <3>8, <3>9, <3>10, MovedType DEF TypeInv
  <2> QED BY <2>2, <2>3
<1> QED BY <1>1, <1>2, <1>3, <1>4, <1>5, <1>6 DEF Continue

LEMMA ProcessType ==
    ASSUME TypeInv, NEW p \in Processes,
           Syncs(p) \/ Destroy(p) \/ Restart(p)
    PROVE  TypeInv'
<1>0. NoSync \in SyncRec /\ sync[p] \in SyncRec
  BY NoBlockType DEF NoSync, SyncRec, TypeInv
<1>1. CASE GetAllBlocks(p)
  <2> DEFINE st == \E c \in DOMAIN calls : calls[c].proc = p /\ Pending(c)
                                            /\ calls[c].op \in {"block", "escalate"}
             r == [pc |-> IF remote = NoBlock THEN "listed" ELSE "read", seen |-> remote,
                   stale |-> st]
  <2>1. r \in SyncRec
    BY DEF SyncRec, TypeInv
  <2>2. sync' = [sync EXCEPT ![p] = r]
    BY <1>1 DEF GetAllBlocks
  <2> HIDE DEF r
  <2>3. sync' \in [Processes -> SyncRec]
    BY <2>1, <2>2 DEF TypeInv
  <2> QED BY <1>1, <2>3 DEF GetAllBlocks, TypeInv
<1>2. CASE ApplySync(p)
  <2>1. sync' \in [Processes -> SyncRec]
    BY <1>0, <1>2 DEF ApplySync, TypeInv
  <2>2. Merged(sync[p].seen, local[p]) \in BlockType
    BY <1>0 DEF SyncRec, Merged, TypeInv
  <2>3. local' \in [Processes -> BlockType]
    BY <1>2, <2>2 DEF ApplySync, TypeInv
  <2> QED BY <1>2, <2>1, <2>3 DEF ApplySync, TypeInv
<1>4. CASE ListBlock(p) \/ DeleteExpired(p)
  <2>1. PICK r \in SyncRec : sync' = [sync EXCEPT ![p] = r]
    <3>1. /\ [sync[p] EXCEPT !.pc = "delete", !.seen = NoBlock] \in SyncRec
          /\ [sync[p] EXCEPT !.pc = "listed"] \in SyncRec
      BY <1>0, NoBlockType DEF SyncRec
    <3>2. CASE ListBlock(p) /\ Expired(sync[p].seen)
      BY <3>1, <3>2 DEF ListBlock
    <3>3. CASE DeleteExpired(p) \/ (ListBlock(p) /\ ~Expired(sync[p].seen))
      BY <3>1, <3>3 DEF ListBlock, DeleteExpired
    <3> QED BY <1>4, <3>2, <3>3
  <2>2. sync' \in [Processes -> SyncRec]
    BY <2>1 DEF TypeInv
  <2>3. UNCHANGED local /\ remote' \in BlockType
    BY <1>4, NoBlockType DEF ListBlock, DeleteExpired, Deleted, TypeInv
  <2>4. UNCHANGED <<now, heap, adjustments, calls, escalated>>
    BY <1>4, SyncsFrame DEF Syncs
  <2> QED BY <2>2, <2>3, <2>4 DEF TypeInv
<1>3. CASE Destroy(p) \/ Restart(p)
  <2>1. /\ local' = [local EXCEPT ![p] = NoBlock] /\ adjustments' = [adjustments EXCEPT ![p] = 0]
        /\ escalated' = [escalated EXCEPT ![p] = 0] /\ UNCHANGED <<now, remote, heap>>
    BY <1>3 DEF Destroy, Restart, ForgetLocal
  <2>2. local' \in [Processes -> BlockType] /\ escalated' \in [Processes -> Nat]
    BY <2>1, NoBlockType DEF TypeInv
  <2>3. Len(heap) \in Nat
    BY LenProperties DEF TypeInv
  <2>4. adjustments' \in [Processes -> 0..Len(heap')]
    BY <2>1, <2>3 DEF TypeInv
  <2>5. sync' \in [Processes -> SyncRec]
    BY <1>0, <1>3 DEF Destroy, Restart, TypeInv
  <2>6. /\ calls' \in Seq(CallRec)
        /\ \A c \in 1..Len(calls') : calls'[c].pc = "snapshot" => calls'[c].adj \in 1..Len(heap)
    <3>1. CASE Destroy(p)
      BY <3>1 DEF Destroy, TypeInv
    <3>2. CASE Restart(p)
      <4>1. /\ calls' \in Seq(CallRec) /\ Len(calls') = Len(calls)
            /\ \A c \in 1..Len(calls) : calls'[c] = calls[c] \/ calls'[c].pc \in {"orphan", "done"}
        BY <3>2, RestartValue
      <4> QED BY <4>1 DEF TypeInv
    <3> QED BY <1>3, <3>1, <3>2
  <2> QED BY <2>1, <2>2, <2>4, <2>5, <2>6 DEF TypeInv
<1> QED BY <1>1, <1>2, <1>3, <1>4 DEF Syncs

LEMMA TypeStep == TypeInv /\ [Next]_vars => TypeInv'
<1> SUFFICES ASSUME TypeInv, [Next]_vars PROVE TypeInv'
  OBVIOUS
<1>1. CASE UNCHANGED vars
  BY <1>1 DEF vars, TypeInv
<1>2. CASE Tick
  <2>1. local' \in [Processes -> BlockType] /\ remote' \in BlockType /\ now' \in Nat
    BY <1>2, LiveType DEF Tick, TypeInv
  <2> QED BY <1>2, <2>1 DEF Tick, TypeInv
<1>3. ASSUME NEW c \in DOMAIN calls, Execute(c) \/ FailCall(c) \/ Continue(c) PROVE TypeInv'
  <2>1. c \in 1..Len(calls)
    BY LenProperties DEF TypeInv
  <2> QED BY <1>3, <2>1, ExecuteType, ContinueType
<1>4. ASSUME NEW p \in Processes,
             \/ \E d \in BlockTimes : BlockKey(p, d)
             \/ Unblock(p) \/ UnblockAll(p) \/ Delete(p)
             \/ \E op \in {"penalty", "reward"} : Adjust(p, op)
      PROVE  TypeInv'
  BY <1>4, AddedType
<1>5. ASSUME NEW p \in Processes, Syncs(p) \/ Destroy(p) \/ Restart(p)
      PROVE  TypeInv'
  BY <1>5, ProcessType
<1>6. CASE DeleteStray
  BY <1>6, NoBlockType DEF DeleteStray, Deleted, TypeInv
<1> QED BY <1>1, <1>2, <1>3, <1>4, <1>5, <1>6 DEF Next, Syncs

LEMMA TypeInit == Init => TypeInv
<1> SUFFICES ASSUME Init PROVE TypeInv
  OBVIOUS
<1>1. heap = << >> /\ calls = << >> /\ Len(heap) = 0 /\ Len(calls) = 0
  BY DEF Init
<1>2. heap \in Seq(Adjustment) /\ calls \in Seq(CallRec)
  BY <1>1
<1>3. NoSync \in SyncRec
  BY NoBlockType DEF NoSync, SyncRec
<1> QED BY <1>1, <1>2, <1>3, NoBlockType DEF Init, TypeInv

-----------------------------------------------------------------------------
(* What every step keeps                                                   *)

\* A call stays where it is, of its process, and what it was called for.
Kept == /\ Len(calls) \in Nat /\ Len(calls') \in Nat /\ Len(calls') >= Len(calls)
        /\ faults \subseteq faults'
        /\ \A c \in 1..Len(calls) :
              /\ calls'[c].proc = calls[c].proc
              /\ calls'[c].op = calls[c].op \/ (calls[c].op = "penalty" /\ calls'[c].op = "escalate")
              /\ calls[c].op = "block" => calls'[c].block = calls[c].block

LEMMA MovedKept ==
    ASSUME TypeInv, NEW c \in 1..Len(calls), NEW r \in CallRec, Moves(c, r), faults \subseteq faults',
           \/ r.op = calls[c].op /\ (r.op = "block" => r.block = calls[c].block)
           \/ calls[c].op = "penalty" /\ r.op = "escalate"
    PROVE  Kept
<1>1. /\ calls' \in Seq(CallRec) /\ Len(calls') = Len(calls) /\ calls'[c] = r
      /\ \A d \in 1..Len(calls) : d # c => calls'[d] = calls[d]
  BY MovedValue
<1>2. Len(calls) \in Nat
  BY LenProperties DEF TypeInv
<1>3. r.proc = calls[c].proc
  BY DEF Moves
<1>4. ASSUME NEW d \in 1..Len(calls)
      PROVE  /\ calls'[d].proc = calls[d].proc
             /\ calls'[d].op = calls[d].op \/ (calls[d].op = "penalty" /\ calls'[d].op = "escalate")
             /\ calls[d].op = "block" => calls'[d].block = calls[d].block
  <2>1. CASE d = c
    BY <1>1, <1>3, <2>1
  <2>2. CASE d # c
    BY <1>1, <2>2
  <2> QED BY <2>1, <2>2
<1> QED BY <1>1, <1>2, <1>4 DEF Kept

\* What resumes was sent as a call of its name; a snapshot is one of a penalty.
LEMMA EscalateKept ==
    ASSUME TypeInv, NEW c \in 1..Len(calls), Escalate(c), calls[c].op = "penalty"
    PROVE  Kept /\ UNCHANGED faults
<1>1. UNCHANGED faults
  BY DEF Escalate
<1>2. CASE MayEscalate(calls[c].proc, calls[c].adj)
  <2>1. PICK r \in CallRec : Moves(c, r) /\ r.op = "escalate"
    BY <1>2, EscalateMoves
  <2> QED BY <1>1, <2>1, MovedKept
<1>3. CASE ~MayEscalate(calls[c].proc, calls[c].adj)
  <2>1. Settle(c, "ok")
    BY <1>3 DEF Escalate
  <2>2. PICK r \in CallRec : Moves(c, r) /\ r.op = calls[c].op
    BY <2>1, SettleMoves
  <2> QED BY <1>1, <1>3, <2>2, MovedKept
<1> QED BY <1>2, <1>3

\* Who is in which state.
OpInv == \A c \in 1..Len(calls) : calls[c].pc = "snapshot" => calls[c].op = "penalty"

LEMMA KeptStep ==
    ASSUME TypeInv, OpInv, [Next]_vars
    PROVE  Kept
<1>0. calls \in Seq(CallRec) /\ Len(calls) \in Nat /\ DOMAIN calls = 1..Len(calls)
  BY LenProperties DEF TypeInv
<1>1. ASSUME calls' = calls, faults \subseteq faults' PROVE Kept
  BY <1>0, <1>1 DEF Kept
<1>2. CASE UNCHANGED vars \/ Tick \/ DeleteStray
  BY <1>1, <1>2, SyncsFrame DEF vars, Tick
<1>3. ASSUME NEW c \in DOMAIN calls, Execute(c) \/ FailCall(c) \/ Continue(c) PROVE Kept
  <2>0. c \in 1..Len(calls)
    BY <1>0
  <2>1. CASE Execute(c)
    <3>1. PICK r \in CallRec : /\ Moves(c, r) /\ r.op = calls[c].op
                               /\ calls[c].op = "block" => r.block = calls[c].block
      BY <2>0, <2>1, ExecuteMoves
    <3>2. faults \subseteq faults'
      BY <2>1 DEF Execute
    <3> QED BY <2>0, <3>1, <3>2, MovedKept
  <2>2. CASE FailCall(c)
    <3>1. PICK r \in CallRec : Moves(c, r) /\ r.op = calls[c].op /\ r.block = calls[c].block
      BY <2>0, <2>2, FailMoves
    <3>2. faults \subseteq faults'
      BY <2>2 DEF FailCall
    <3> QED BY <2>0, <3>1, <3>2, MovedKept
  <2>3. CASE ResumeUnblock(c) \/ ResumeDelete(c) \/ ResumeReward(c)
               \/ (ResumePenalty(c) /\ adjustments[calls[c].proc] = 0)
    <3>1. PICK o \in {"ok", "threw"} : Settle(c, o)
      BY <2>3 DEF ResumeUnblock, ResumeDelete, ResumeReward, ResumePenalty
    <3>2. PICK r \in CallRec : Moves(c, r) /\ r.op = calls[c].op /\ r.block = calls[c].block
      BY <2>0, <3>1, SettleMoves
    <3>3. faults \subseteq faults'
      BY <2>3 DEF ResumeUnblock, ResumeDelete, ResumeReward, ResumePenalty
    <3> QED BY <2>0, <3>2, <3>3, MovedKept
  <2>4. CASE ResumePenalty(c) /\ adjustments[calls[c].proc] # 0
    <3>1. PICK r \in CallRec : Moves(c, r) /\ r.op = "penalty"
      BY <2>0, <2>4, PenaltyMoves
    <3>2. calls[c].op = "penalty" /\ faults' = faults
      BY <2>4 DEF ResumePenalty, Resumes
    <3> QED BY <2>0, <3>1, <3>2, MovedKept
  <2>5. CASE Escalate(c)
    BY <2>0, <2>5, EscalateKept DEF OpInv, Escalate
  <2> QED BY <1>3, <2>1, <2>2, <2>3, <2>4, <2>5 DEF Continue
<1>4. ASSUME NEW p \in Processes,
             \/ \E d \in BlockTimes : BlockKey(p, d)
             \/ Unblock(p) \/ UnblockAll(p) \/ Delete(p)
             \/ \E op \in {"penalty", "reward"} : Adjust(p, op)
      PROVE  Kept
  <2>1. PICK r \in CallRec : /\ calls' = Append(calls, r)
                             /\ UNCHANGED faults \/ TouchAdjustmentWindow(p)
    BY <1>4, CallAdded
  <2>2. /\ calls' \in Seq(CallRec) /\ Len(calls') = Len(calls) + 1
        /\ \A d \in 1..Len(calls) : calls'[d] = calls[d]
    BY <2>1, AddedValue
  <2>3. faults \subseteq faults'
    BY <2>1, TouchValue
  <2> QED BY <1>0, <2>2, <2>3 DEF Kept
<1>5. ASSUME NEW p \in Processes, Syncs(p) \/ Destroy(p) \/ Restart(p)
      PROVE  Kept
  <2>1. CASE Syncs(p) \/ Destroy(p)
    <3>1. calls' = calls /\ faults \subseteq faults'
      BY <2>1, SyncsFrame DEF Destroy, ForgetLocal
    <3> QED BY <1>1, <3>1
  <2>2. CASE Restart(p)
    <3>1. /\ calls' \in Seq(CallRec) /\ Len(calls') = Len(calls)
          /\ \A c \in 1..Len(calls) : /\ calls'[c].proc = calls[c].proc
                                      /\ calls'[c].op = calls[c].op
                                      /\ calls'[c].block = calls[c].block
      BY <2>2, RestartValue
    <3>2. faults \subseteq faults'
      BY <2>2 DEF Restart, ForgetLocal
    <3> QED BY <1>0, <3>1, <3>2 DEF Kept
  <2> QED BY <1>5, <2>1, <2>2
<1> QED BY <1>2, <1>3, <1>4, <1>5 DEF Next, Syncs

\* One call moves: a fact about all the calls is one about the call that moved.
LEMMA OpStep ==
    ASSUME TypeInv, OpInv, [Next]_vars
    PROVE  OpInv'
<1>0. calls \in Seq(CallRec) /\ Len(calls) \in Nat /\ DOMAIN calls = 1..Len(calls)
  BY LenProperties DEF TypeInv
<1>1. ASSUME calls' = calls PROVE OpInv'
  BY <1>1 DEF OpInv
<1>2. CASE UNCHANGED vars \/ Tick \/ DeleteStray
  BY <1>1, <1>2, SyncsFrame DEF vars, Tick
<1>3. ASSUME NEW c \in DOMAIN calls, Execute(c) \/ FailCall(c) \/ Continue(c) PROVE OpInv'
  <2>0. c \in 1..Len(calls)
    BY <1>0
  <2>1. \E r \in CallRec : Moves(c, r) /\ (r.pc = "snapshot" => r.op = "penalty")
    <3>1. CASE Execute(c)
      BY <2>0, <3>1, ExecuteMoves
    <3>2. CASE FailCall(c)
      BY <2>0, <3>2, FailMoves
    <3>3. CASE \E o \in {"ok", "threw"} : Settle(c, o)
      BY <2>0, <3>3, SettleMoves
    <3>4. CASE ResumePenalty(c) /\ adjustments[calls[c].proc] # 0
      BY <2>0, <3>4, PenaltyMoves
    <3>5. CASE Escalate(c) /\ MayEscalate(calls[c].proc, calls[c].adj)
      BY <2>0, <3>5, EscalateMoves
    <3>6. \/ Execute(c) \/ FailCall(c) \/ (\E o \in {"ok", "threw"} : Settle(c, o))
          \/ (ResumePenalty(c) /\ adjustments[calls[c].proc] # 0)
          \/ (Escalate(c) /\ MayEscalate(calls[c].proc, calls[c].adj))
      BY <1>3 DEF Continue, ResumeUnblock, ResumeDelete, ResumeReward, ResumePenalty, Escalate
    <3> QED BY <3>1, <3>2, <3>3, <3>4, <3>5, <3>6
  <2>2. PICK r \in CallRec : Moves(c, r) /\ (r.pc = "snapshot" => r.op = "penalty")
    BY <2>1
  <2>3. /\ Len(calls') = Len(calls) /\ calls'[c] = r
        /\ \A d \in 1..Len(calls) : d # c => calls'[d] = calls[d]
    BY <2>0, <2>2, MovedValue
  <2> QED BY <2>2, <2>3 DEF OpInv
<1>4. ASSUME NEW p \in Processes,
             \/ \E d \in BlockTimes : BlockKey(p, d)
             \/ Unblock(p) \/ UnblockAll(p) \/ Delete(p)
             \/ \E op \in {"penalty", "reward"} : Adjust(p, op)
      PROVE  OpInv'
  <2>1. PICK r \in CallRec : calls' = Append(calls, r) /\ r.pc = "sent"
    BY <1>4, CallAdded
  <2>2. /\ Len(calls') = Len(calls) + 1 /\ calls'[Len(calls) + 1] = r
        /\ \A d \in 1..Len(calls) : calls'[d] = calls[d]
    BY <2>1, AddedValue
  <2> QED BY <1>0, <2>1, <2>2 DEF OpInv
<1>5. ASSUME NEW p \in Processes, Syncs(p) \/ Destroy(p) \/ Restart(p)
      PROVE  OpInv'
  <2>1. CASE Syncs(p) \/ Destroy(p)
    BY <1>1, <2>1, SyncsFrame DEF Destroy
  <2>2. CASE Restart(p)
    <3>1. /\ Len(calls') = Len(calls)
          /\ \A c \in 1..Len(calls) : calls'[c] = calls[c] \/ calls'[c].pc \in {"orphan", "done"}
      BY <2>2, RestartValue
    <3> QED BY <3>1 DEF OpInv
  <2> QED BY <1>5, <2>1, <2>2
<1> QED BY <1>2, <1>3, <1>4, <1>5 DEF Next, Syncs

KeyInv == TypeInv /\ OpInv

LEMMA KeyInit == Init => KeyInv
BY TypeInit DEF Init, OpInv, KeyInv

LEMMA KeyStep == KeyInv /\ [Next]_vars => KeyInv'
BY TypeStep, OpStep DEF KeyInv

-----------------------------------------------------------------------------
(* The adjustment that a penalty or a reward prepared is there after its await *)

Excused(p) == \/ "forgotten" \in faults
              \/ \E d \in 1..Len(calls) : calls[d].proc = p /\ calls[d].op = "delete"

Awaits(c) == calls[c].op \in {"penalty", "reward"} /\ calls[c].pc \in {"sent", "executed"}

AwaitInv == \A c \in 1..Len(calls) :
    /\ Awaits(c) => adjustments[calls[c].proc] # 0 \/ Excused(calls[c].proc)
    /\ calls[c].outcome = "threw" => Excused(calls[c].proc)

LEMMA ExcusedStays == ASSUME Kept, NEW p, Excused(p) PROVE Excused(p)'
<1>1. CASE "forgotten" \in faults
  BY <1>1 DEF Kept, Excused
<1>2. ASSUME NEW d \in 1..Len(calls), calls[d].proc = p, calls[d].op = "delete" PROVE Excused(p)'
  <2>1. d \in 1..Len(calls')
    BY DEF Kept
  <2>2. calls'[d].proc = p /\ calls'[d].op = "delete"
    BY <1>2 DEF Kept
  <2> QED BY <2>1, <2>2 DEF Excused
<1> QED BY <1>1, <1>2 DEF Excused

\* The map loses its object by delete(), destroy() and a restart only.
LEMMA AdjustmentStays ==
    ASSUME TypeInv, OpInv, [Next]_vars, NEW p \in Processes, adjustments[p] # 0
    PROVE  adjustments'[p] # 0 \/ Excused(p)'
<1>0. /\ calls \in Seq(CallRec) /\ Len(calls) \in Nat /\ DOMAIN calls = 1..Len(calls)
      /\ heap \in Seq(Adjustment) /\ Len(heap) \in Nat /\ Kept
      /\ adjustments \in [Processes -> 0..Len(heap)]
  BY LenProperties, KeptStep DEF TypeInv
<1>1. CASE UNCHANGED vars \/ Tick \/ DeleteStray
  BY <1>1, SyncsFrame DEF vars, Tick
<1>2. ASSUME NEW c \in DOMAIN calls, Execute(c) \/ FailCall(c) \/ Continue(c)
      PROVE  adjustments'[p] # 0 \/ Excused(p)'
  <2>0. c \in 1..Len(calls)
    BY <1>0
  <2>1. CASE Execute(c) \/ FailCall(c) \/ ResumeUnblock(c) \/ ResumeReward(c) \/ ResumePenalty(c)
    BY <2>1 DEF Execute, FailCall, ResumeUnblock, ResumeReward, ResumePenalty
  <2>2. CASE ResumeDelete(c)
    <3>1. CASE calls[c].proc = p
      <4>1. Excused(p)
        BY <2>0, <2>2, <3>1 DEF Excused, ResumeDelete, Resumes
      <4> QED BY <1>0, <4>1, ExcusedStays
    <3>2. CASE calls[c].proc # p
      BY <1>0, <2>2, <3>2 DEF ResumeDelete
    <3> QED BY <3>1, <3>2
  <2>3. CASE Escalate(c)
    <3>1. calls[c].adj \in 1..Len(heap)
      BY <2>0, <2>3 DEF Escalate, TypeInv
    <3>2. adjustments' = adjustments \/ adjustments' = [adjustments EXCEPT ![calls[c].proc] = calls[c].adj]
      BY <2>3 DEF Escalate
    <3> QED BY <1>0, <3>1, <3>2
  <2> QED BY <1>2, <2>1, <2>2, <2>3 DEF Continue
<1>3. ASSUME NEW q \in Processes,
             \/ \E d \in BlockTimes : BlockKey(q, d)
             \/ Unblock(q) \/ UnblockAll(q) \/ Delete(q)
             \/ \E op \in {"penalty", "reward"} : Adjust(q, op)
      PROVE  adjustments'[p] # 0 \/ Excused(p)'
  <2>1. UNCHANGED adjustments \/ TouchAdjustmentWindow(q)
    BY <1>3, CallAdded
  <2>2. UNCHANGED adjustments \/ adjustments' = [adjustments EXCEPT ![q] = Len(heap) + 1]
    BY <2>1, TouchValue
  <2> QED BY <1>0, <2>2
<1>4. ASSUME NEW q \in Processes, Syncs(q) \/ Destroy(q) \/ Restart(q)
      PROVE  adjustments'[p] # 0 \/ Excused(p)'
  <2>1. CASE Syncs(q)
    BY <2>1, SyncsFrame
  <2>2. CASE Destroy(q) \/ Restart(q)
    <3>1. "forgotten" \in faults'
      BY <2>2 DEF Destroy, Restart, ForgetLocal
    <3> QED BY <3>1 DEF Excused
  <2> QED BY <1>4, <2>1, <2>2
<1> QED BY <1>1, <1>2, <1>3, <1>4 DEF Next, Syncs

\* A call that awaits after a step awaited before it, or has just begun; one that has thrown
\* had nothing to find.
LEMMA AwaitBefore ==
    ASSUME TypeInv, OpInv, [Next]_vars, NEW d \in 1..Len(calls)
    PROVE  /\ Awaits(d)' => Awaits(d)
           /\ calls'[d].outcome = "threw" =>
                 calls[d].outcome = "threw" \/ (Awaits(d) /\ adjustments[calls[d].proc] = 0)
<1>0. calls \in Seq(CallRec) /\ Len(calls) \in Nat /\ DOMAIN calls = 1..Len(calls)
  BY LenProperties DEF TypeInv
<1>1. ASSUME calls'[d] = calls[d]
      PROVE  /\ Awaits(d)' => Awaits(d)
             /\ calls'[d].outcome = "threw" => calls[d].outcome = "threw"
  BY <1>1 DEF Awaits
<1>2. CASE UNCHANGED vars \/ Tick \/ DeleteStray
  BY <1>1, <1>2, SyncsFrame DEF vars, Tick
<1>3. ASSUME NEW c \in DOMAIN calls, Execute(c) \/ FailCall(c) \/ Continue(c)
      PROVE  /\ Awaits(d)' => Awaits(d)
             /\ calls'[d].outcome = "threw" =>
                 calls[d].outcome = "threw" \/ (Awaits(d) /\ adjustments[calls[d].proc] = 0)
  <2>0. c \in 1..Len(calls)
    BY <1>0
  <2>1. ASSUME NEW r \in CallRec, Moves(c, r),
               r.op \in {"penalty", "reward"} /\ r.pc \in {"sent", "executed"} =>
                  r.op = calls[c].op /\ calls[c].pc = "sent",
               r.outcome = "threw" =>
                  \/ calls[c].outcome = "threw"
                  \/ Awaits(c) /\ adjustments[calls[c].proc] = 0
        PROVE  /\ Awaits(d)' => Awaits(d)
               /\ calls'[d].outcome = "threw" =>
                   calls[d].outcome = "threw" \/ (Awaits(d) /\ adjustments[calls[d].proc] = 0)
    <3>1. calls'[c] = r /\ (d # c => calls'[d] = calls[d])
      BY <2>0, <2>1, MovedValue
    <3>2. CASE d = c
      BY <2>1, <3>1, <3>2 DEF Awaits
    <3>3. CASE d # c
      BY <1>1, <3>1, <3>3
    <3> QED BY <3>2, <3>3
  <2>2. CASE Execute(c)
    <3>1. PICK r \in CallRec : /\ Moves(c, r) /\ r.op = calls[c].op /\ r.pc \in {"executed", "done"}
                               /\ r.outcome \in {"ok", calls[c].outcome}
                               /\ r.pc = "executed" => calls[c].pc = "sent"
      BY <2>0, <2>2, ExecuteMoves
    <3> QED BY <2>1, <3>1
  <2>3. CASE FailCall(c)
    <3>1. PICK r \in CallRec : Moves(c, r) /\ r.pc = "done" /\ r.outcome = "failed"
      BY <2>0, <2>3, FailMoves
    <3> QED BY <2>1, <3>1
  <2>4. CASE Settle(c, "ok")
    <3>1. PICK r \in CallRec : Moves(c, r) /\ r.pc = "done" /\ r.outcome = "ok"
      BY <2>0, <2>4, SettleMoves
    <3> QED BY <2>1, <3>1
  <2>5. CASE Settle(c, "threw") /\ (ResumeReward(c) \/ ResumePenalty(c))
               /\ adjustments[calls[c].proc] = 0
    <3>1. PICK r \in CallRec : Moves(c, r) /\ r.pc = "done" /\ r.outcome = "threw"
      BY <2>0, <2>5, SettleMoves
    <3>2. Awaits(c)
      BY <2>5 DEF Awaits, ResumeReward, ResumePenalty, Resumes
    <3> QED BY <2>1, <2>5, <3>1, <3>2
  <2>6. CASE ResumePenalty(c) /\ adjustments[calls[c].proc] # 0
    <3>1. PICK r \in CallRec : Moves(c, r) /\ r.pc = "snapshot" /\ r.outcome = calls[c].outcome
      BY <2>0, <2>6, PenaltyMoves
    <3> QED BY <2>1, <3>1
  <2>7. CASE Escalate(c) /\ MayEscalate(calls[c].proc, calls[c].adj)
    <3>1. PICK r \in CallRec : Moves(c, r) /\ r.op = "escalate" /\ r.outcome = calls[c].outcome
      BY <2>0, <2>7, EscalateMoves
    <3> QED BY <2>1, <3>1
  <2>8. \/ Execute(c) \/ FailCall(c) \/ Settle(c, "ok")
        \/ Settle(c, "threw") /\ (ResumeReward(c) \/ ResumePenalty(c))
               /\ adjustments[calls[c].proc] = 0
        \/ ResumePenalty(c) /\ adjustments[calls[c].proc] # 0
        \/ Escalate(c) /\ MayEscalate(calls[c].proc, calls[c].adj)
    <3>1. CASE ResumeReward(c)
      BY <3>1 DEF ResumeReward
    <3>2. CASE ResumePenalty(c)
      BY <3>2 DEF ResumePenalty
    <3> QED BY <1>3, <3>1, <3>2 DEF Continue, ResumeUnblock, ResumeDelete, Escalate
  <2> QED BY <2>2, <2>3, <2>4, <2>5, <2>6, <2>7, <2>8
<1>4. ASSUME NEW p \in Processes,
             \/ \E t \in BlockTimes : BlockKey(p, t)
             \/ Unblock(p) \/ UnblockAll(p) \/ Delete(p)
             \/ \E op \in {"penalty", "reward"} : Adjust(p, op)
      PROVE  calls'[d] = calls[d]
  <2>1. PICK r \in CallRec : calls' = Append(calls, r)
    BY <1>4, CallAdded
  <2> QED BY <2>1, AddedValue
<1>5. ASSUME NEW p \in Processes, Syncs(p) \/ Destroy(p)
      PROVE  calls' = calls
  BY <1>5, SyncsFrame DEF Destroy
<1>6. ASSUME NEW p \in Processes, Restart(p)
      PROVE  /\ Awaits(d)' => Awaits(d)
             /\ calls'[d].outcome = "threw" => calls[d].outcome = "threw"
  <2>1. \/ calls'[d] = calls[d]
        \/ calls'[d].pc \in {"orphan", "done"} /\ calls'[d].outcome = "lost"
    BY <1>6, RestartValue
  <2> QED BY <1>1, <2>1 DEF Awaits
<1> QED BY <1>1, <1>2, <1>3, <1>4, <1>5, <1>6 DEF Next, Syncs

LEMMA MovesSome ==
    ASSUME TypeInv, NEW c \in 1..Len(calls), Execute(c) \/ FailCall(c) \/ Continue(c)
    PROVE  \E r \in CallRec : Moves(c, r)
<1>1. CASE \E o \in {"ok", "threw"} : Settle(c, o)
  BY <1>1, SettleMoves
<1>2. \/ Execute(c) \/ FailCall(c) \/ (\E o \in {"ok", "threw"} : Settle(c, o))
      \/ (ResumePenalty(c) /\ adjustments[calls[c].proc] # 0)
      \/ (Escalate(c) /\ MayEscalate(calls[c].proc, calls[c].adj))
  BY DEF Continue, ResumeUnblock, ResumeDelete, ResumeReward, ResumePenalty, Escalate
<1> QED BY <1>1, <1>2, ExecuteMoves, FailMoves, PenaltyMoves, EscalateMoves

LEMMA AwaitStep ==
    ASSUME KeyInv, AwaitInv, [Next]_vars
    PROVE  AwaitInv'
<1>0. TypeInv /\ OpInv /\ Kept /\ TypeInv'
  BY KeptStep, TypeStep DEF KeyInv
<1>1. calls \in Seq(CallRec) /\ Len(calls) \in Nat /\ \A c \in 1..Len(calls) : calls[c].proc \in Processes
  <2>1. calls \in Seq(CallRec) /\ \A c \in 1..Len(calls) : calls[c] \in CallRec
    BY <1>0 DEF TypeInv
  <2> QED BY <2>1, LenProperties DEF CallRec
<1>2. ASSUME NEW d \in 1..Len(calls)
      PROVE  /\ Awaits(d)' => adjustments'[calls'[d].proc] # 0 \/ Excused(calls[d].proc)'
             /\ calls'[d].outcome = "threw" => Excused(calls[d].proc)'
             /\ calls'[d].proc = calls[d].proc
  <2>1. PICK p \in Processes : p = calls[d].proc
    BY <1>1
  <2>2. calls'[d].proc = p
    BY <1>0, <2>1 DEF Kept
  <2>3. Excused(p) => Excused(p)'
    BY <1>0, ExcusedStays
  <2>4. adjustments[p] # 0 => adjustments'[p] # 0 \/ Excused(p)'
    BY <1>0, AdjustmentStays
  <2>5. /\ Awaits(d) => adjustments[p] # 0 \/ Excused(p)
        /\ calls[d].outcome = "threw" => Excused(p)
    BY <2>1 DEF AwaitInv
  <2>6. /\ Awaits(d)' => Awaits(d)
        /\ calls'[d].outcome = "threw" =>
              calls[d].outcome = "threw" \/ (Awaits(d) /\ adjustments[p] = 0)
    BY <1>0, <2>1, AwaitBefore
  <2>7. (Awaits(d)' => adjustments'[p] # 0 \/ Excused(p)') /\ (calls'[d].outcome = "threw" => Excused(p)')
    BY <2>3, <2>4, <2>5, <2>6
  <2>8. Excused(p)' = Excused(calls[d].proc)'
    BY <2>1, <2>2 DEF Excused
  <2> QED BY <2>1, <2>2, <2>7, <2>8
<1>3. ASSUME NEW d \in 1..Len(calls'), d \notin 1..Len(calls)
      PROVE  /\ Awaits(d)' => adjustments'[calls'[d].proc] # 0
             /\ calls'[d].outcome # "threw"
  <2>1. Len(calls') # Len(calls)
    BY <1>3
  <2>2. PICK p \in Processes :
             \/ \E t \in BlockTimes : BlockKey(p, t)
             \/ Unblock(p) \/ UnblockAll(p) \/ Delete(p)
             \/ \E op \in {"penalty", "reward"} : Adjust(p, op)
    <3>1. ASSUME NEW c \in DOMAIN calls, Execute(c) \/ FailCall(c) \/ Continue(c)
          PROVE  Len(calls') = Len(calls)
      <4>1. c \in 1..Len(calls)
        BY <1>1, LenProperties
      <4>2. PICK r \in CallRec : Moves(c, r)
        BY <1>0, <3>1, <4>1, MovesSome
      <4> QED BY <1>0, <4>1, <4>2, MovedValue
    <3>2. ASSUME NEW p \in Processes, Syncs(p) \/ Destroy(p) \/ Restart(p)
          PROVE  Len(calls') = Len(calls)
      BY <1>0, <3>2, RestartValue, SyncsFrame DEF Destroy
    <3> QED BY <2>1, <3>1, <3>2, SyncsFrame DEF Next, Syncs, vars, Tick
  <2>3. PICK r \in CallRec :
              /\ calls' = Append(calls, r) /\ r.proc = p /\ r.outcome \in {"none", "ok"}
              /\ r.op \in {"penalty", "reward"} => TouchAdjustmentWindow(p)
    BY <1>0, <2>2, CallAdded
  <2>4. Len(calls') = Len(calls) + 1 /\ calls'[Len(calls) + 1] = r
    BY <1>0, <2>3, AddedValue
  <2>5. d = Len(calls) + 1
    BY <1>1, <1>3, <2>4
  <2>6. r.op \in {"penalty", "reward"} => adjustments'[p] # 0
    <3>1. ASSUME TouchAdjustmentWindow(p) PROVE adjustments'[p] # 0
      <4>1. \/ adjustments[p] # 0 /\ UNCHANGED adjustments
            \/ Len(heap) \in Nat /\ adjustments' = [adjustments EXCEPT ![p] = Len(heap) + 1]
        BY <1>0, <3>1, TouchValue
      <4> QED BY <1>0, <4>1 DEF TypeInv
    <3> QED BY <2>3, <3>1
  <2> QED BY <2>3, <2>4, <2>5, <2>6 DEF Awaits
<1>4. ASSUME NEW d \in 1..Len(calls')
      PROVE  /\ Awaits(d)' => adjustments'[calls'[d].proc] # 0 \/ Excused(calls[d].proc)'
             /\ calls'[d].outcome = "threw" => Excused(calls[d].proc)'
  BY <1>2, <1>3
<1> QED BY <1>4 DEF AwaitInv

\* penalty() and reward() never throw on a missing adjustment, whatever calls of whatever
\* processes run during their await, unless a delete() of the same process was called or the
\* process forgot its state.
THEOREM AdjustmentFound == Spec => []AdjustmentSurvivesAwait
<1>1. KeyInv /\ AwaitInv => AdjustmentSurvivesAwait
  <2> SUFFICES ASSUME KeyInv, AwaitInv, NEW c \in DOMAIN calls, calls[c].outcome = "threw",
                      "forgotten" \notin faults
               PROVE  \E d \in DOMAIN calls : calls[d].proc = calls[c].proc /\ calls[d].op = "delete"
    BY DEF AdjustmentSurvivesAwait
  <2>1. DOMAIN calls = 1..Len(calls)
    BY LenProperties DEF KeyInv, TypeInv
  <2>2. Excused(calls[c].proc)
    BY <2>1 DEF AwaitInv
  <2> QED BY <2>1, <2>2 DEF Excused
<1>2. Init => KeyInv /\ AwaitInv
  BY KeyInit DEF Init, AwaitInv
<1>3. KeyInv /\ AwaitInv /\ [Next]_vars => (KeyInv /\ AwaitInv)'
  BY KeyStep, AwaitStep
<1> QED BY <1>1, <1>2, <1>3, PTL DEF Spec

-----------------------------------------------------------------------------
(* The escalation remembers                                                *)

Counts(p) ==
    /\ adjustments[p] # 0 => heap[adjustments[p]].violations = escalated[p]
    /\ adjustments[p] = 0 => escalated[p] = 0

\* No two processes share an object, and a penalty holds the one its process has.
RememberInv == "detached" \notin faults =>
    /\ \A p \in Processes : Counts(p)
    /\ \A p, q \in Processes : p # q /\ adjustments[p] # 0 => adjustments[p] # adjustments[q]
    /\ \A c \in 1..Len(calls) : calls[c].pc = "snapshot" => calls[c].adj = adjustments[calls[c].proc]

\* Who awaits the read before its escalation check.
LEMMA SnapshotBefore ==
    ASSUME TypeInv, OpInv, [Next]_vars, NEW d \in 1..Len(calls'), calls'[d].pc = "snapshot"
    PROVE  /\ d \in 1..Len(calls) /\ calls'[d].proc = calls[d].proc
           /\ \/ calls'[d] = calls[d]
              \/ /\ ResumePenalty(d) /\ adjustments[calls[d].proc] # 0
                 /\ calls'[d].adj = adjustments[calls[d].proc]
<1>0. calls \in Seq(CallRec) /\ Len(calls) \in Nat /\ DOMAIN calls = 1..Len(calls)
  BY LenProperties DEF TypeInv
<1>1. CASE calls' = calls
  BY <1>1
<1>2. ASSUME NEW c \in DOMAIN calls, Execute(c) \/ FailCall(c) \/ Continue(c)
      PROVE  /\ d \in 1..Len(calls) /\ calls'[d].proc = calls[d].proc
             /\ \/ calls'[d] = calls[d]
                \/ /\ ResumePenalty(d) /\ adjustments[calls[d].proc] # 0
                   /\ calls'[d].adj = adjustments[calls[d].proc]
  <2>0. c \in 1..Len(calls)
    BY <1>0
  <2>1. ASSUME NEW r \in CallRec, Moves(c, r)
        PROVE  /\ d \in 1..Len(calls) /\ calls'[c] = r /\ r.proc = calls[c].proc
               /\ d # c => calls'[d] = calls[d]
    <3>1. /\ Len(calls') = Len(calls) /\ calls'[c] = r
          /\ \A b \in 1..Len(calls) : b # c => calls'[b] = calls[b]
      BY <2>0, <2>1, MovedValue
    <3> QED BY <2>1, <3>1 DEF Moves
  <2>2. ASSUME NEW r \in CallRec, Moves(c, r), r.pc # "snapshot"
        PROVE  d \in 1..Len(calls) /\ calls'[d] = calls[d]
    BY <2>1, <2>2
  <2>3. CASE Execute(c)
    <3>1. PICK r \in CallRec : Moves(c, r) /\ r.pc \in {"executed", "done"}
      BY <2>0, <2>3, ExecuteMoves
    <3> QED BY <2>2, <3>1
  <2>4. CASE FailCall(c)
    <3>1. PICK r \in CallRec : Moves(c, r) /\ r.pc = "done"
      BY <2>0, <2>4, FailMoves
    <3> QED BY <2>2, <3>1
  <2>5. CASE \E o \in {"ok", "threw"} : Settle(c, o)
    <3>1. PICK r \in CallRec : Moves(c, r) /\ r.pc = "done"
      BY <2>0, <2>5, SettleMoves
    <3> QED BY <2>2, <3>1
  <2>6. CASE ResumePenalty(c) /\ adjustments[calls[c].proc] # 0
    <3>1. PICK r \in CallRec : Moves(c, r) /\ r.adj = adjustments[calls[c].proc]
      BY <2>0, <2>6, PenaltyMoves
    <3>2. CASE d = c
      BY <2>1, <2>6, <3>1, <3>2
    <3>3. CASE d # c
      BY <2>1, <3>1, <3>3
    <3> QED BY <3>2, <3>3
  <2>7. CASE Escalate(c) /\ MayEscalate(calls[c].proc, calls[c].adj)
    <3>1. PICK r \in CallRec : Moves(c, r) /\ r.pc = "sent"
      BY <2>0, <2>7, EscalateMoves
    <3> QED BY <2>2, <3>1
  <2>8. \/ Execute(c) \/ FailCall(c) \/ (\E o \in {"ok", "threw"} : Settle(c, o))
        \/ (ResumePenalty(c) /\ adjustments[calls[c].proc] # 0)
        \/ (Escalate(c) /\ MayEscalate(calls[c].proc, calls[c].adj))
    BY <1>2 DEF Continue, ResumeUnblock, ResumeDelete, ResumeReward, ResumePenalty, Escalate
  <2> QED BY <2>3, <2>4, <2>5, <2>6, <2>7, <2>8
<1>3. ASSUME NEW p \in Processes,
             \/ \E t \in BlockTimes : BlockKey(p, t)
             \/ Unblock(p) \/ UnblockAll(p) \/ Delete(p)
             \/ \E op \in {"penalty", "reward"} : Adjust(p, op)
      PROVE  d \in 1..Len(calls) /\ calls'[d] = calls[d]
  <2>1. PICK r \in CallRec : calls' = Append(calls, r) /\ r.pc = "sent"
    BY <1>3, CallAdded
  <2>2. /\ Len(calls') = Len(calls) + 1 /\ calls'[Len(calls) + 1] = r
        /\ \A b \in 1..Len(calls) : calls'[b] = calls[b]
    BY <2>1, AddedValue
  <2>3. d # Len(calls) + 1
    BY <2>1, <2>2
  <2> QED BY <1>0, <2>2, <2>3
<1>4. ASSUME NEW p \in Processes, Restart(p)
      PROVE  d \in 1..Len(calls) /\ calls'[d] = calls[d]
  <2>1. /\ Len(calls') = Len(calls)
        /\ \A c \in 1..Len(calls) : calls'[c] = calls[c] \/ calls'[c].pc \in {"orphan", "done"}
    BY <1>4, RestartValue
  <2> QED BY <2>1
<1>5. ASSUME NEW p \in Processes, Syncs(p) \/ Destroy(p)
      PROVE  calls' = calls
  BY <1>5, SyncsFrame DEF Destroy
<1> QED BY <1>1, <1>2, <1>3, <1>4, <1>5, SyncsFrame DEF Next, Syncs, vars, Tick

\* The object of p goes: no penalty of p holds it, or the fault is noted.
LEMMA NotHeld ==
    ASSUME TypeInv, NEW p \in Processes, ~Held(p)
    PROVE  \A c \in 1..Len(calls) : calls[c].pc = "snapshot" => calls[c].proc # p
<1>1. DOMAIN calls = 1..Len(calls)
  BY LenProperties DEF TypeInv
<1> QED BY <1>1 DEF Held

\* A step that leaves the adjustments alone.
LEMMA RememberUnchanged ==
    ASSUME KeyInv, RememberInv, [Next]_vars, "detached" \notin faults',
           UNCHANGED <<heap, adjustments, escalated>>, \A c \in 1..Len(calls) : ~ResumePenalty(c)
    PROVE  RememberInv'
<1>1. TypeInv /\ OpInv /\ "detached" \notin faults
  BY KeptStep DEF KeyInv, Kept
<1>2. ASSUME NEW d \in 1..Len(calls'), calls'[d].pc = "snapshot"
      PROVE  calls'[d].adj = adjustments'[calls'[d].proc]
  <2>1. d \in 1..Len(calls) /\ calls'[d] = calls[d]
    BY <1>1, <1>2, SnapshotBefore
  <2> QED BY <1>1, <1>2, <2>1 DEF RememberInv
<1>3. \A p \in Processes : Counts(p)'
  BY <1>1 DEF RememberInv, Counts
<1> QED BY <1>1, <1>2, <1>3 DEF RememberInv

LEMMA RememberClear ==
    ASSUME KeyInv, RememberInv, [Next]_vars, "detached" \notin faults', NEW p \in Processes,
           ClearViolations(p), UNCHANGED adjustments, \A c \in 1..Len(calls) : ~ResumePenalty(c)
    PROVE  RememberInv'
<1>1. TypeInv /\ OpInv /\ "detached" \notin faults
  BY KeptStep DEF KeyInv, Kept
<1>2. ASSUME NEW d \in 1..Len(calls'), calls'[d].pc = "snapshot"
      PROVE  calls'[d].adj = adjustments'[calls'[d].proc]
  <2>1. d \in 1..Len(calls) /\ calls'[d] = calls[d]
    BY <1>1, <1>2, SnapshotBefore
  <2> QED BY <1>1, <1>2, <2>1 DEF RememberInv
<1>3. /\ adjustments[p] # 0 => heap'[adjustments[p]].violations = 0
      /\ \A i \in 1..Len(heap) : i # adjustments[p] => heap'[i] = heap[i]
      /\ escalated'[p] = 0 /\ \A q \in Processes \ {p} : escalated'[q] = escalated[q]
  BY <1>1, ClearValue
<1>4. ASSUME NEW q \in Processes PROVE Counts(q)'
  <2>1. CASE q = p
    BY <1>3, <2>1 DEF Counts
  <2>2. CASE q # p
    <3>1. adjustments[q] \in 0..Len(heap) /\ Len(heap) \in Nat
      BY <1>1, LenProperties DEF TypeInv
    <3>2. adjustments[q] # 0 => adjustments[q] # adjustments[p] /\ adjustments[q] \in 1..Len(heap)
      BY <1>1, <2>2, <3>1 DEF RememberInv
    <3>3. Counts(q)
      BY <1>1 DEF RememberInv
    <3> QED BY <1>3, <2>2, <3>2, <3>3 DEF Counts
  <2> QED BY <2>1, <2>2
<1> QED BY <1>1, <1>2, <1>4 DEF RememberInv

LEMMA RememberForget ==
    ASSUME KeyInv, RememberInv, [Next]_vars, "detached" \notin faults', NEW p \in Processes,
           ~Held(p), adjustments' = [adjustments EXCEPT ![p] = 0],
           escalated' = [escalated EXCEPT ![p] = 0], heap' = heap,
           \A c \in 1..Len(calls) : ~ResumePenalty(c)
    PROVE  RememberInv'
<1>1. TypeInv /\ OpInv /\ "detached" \notin faults
  BY KeptStep DEF KeyInv, Kept
<1>2. /\ adjustments'[p] = 0 /\ escalated'[p] = 0
      /\ \A q \in Processes \ {p} : adjustments'[q] = adjustments[q] /\ escalated'[q] = escalated[q]
  BY <1>1 DEF TypeInv
<1>3. ASSUME NEW d \in 1..Len(calls'), calls'[d].pc = "snapshot"
      PROVE  calls'[d].adj = adjustments'[calls'[d].proc]
  <2>1. d \in 1..Len(calls) /\ calls'[d] = calls[d]
    BY <1>1, <1>3, SnapshotBefore
  <2>2. calls[d].proc # p
    BY <1>1, <1>3, <2>1, NotHeld
  <2>3. calls[d].proc \in Processes
    <3>1. calls[d] \in CallRec
      BY <1>1, <2>1 DEF TypeInv
    <3> QED BY <3>1 DEF CallRec
  <2> QED BY <1>1, <1>2, <1>3, <2>1, <2>2, <2>3 DEF RememberInv
<1>4. ASSUME NEW q \in Processes PROVE Counts(q)'
  <2>1. CASE q = p
    BY <1>2, <2>1 DEF Counts
  <2>2. CASE q # p
    BY <1>1, <1>2, <2>2 DEF Counts, RememberInv
  <2> QED BY <2>1, <2>2
<1>5. ASSUME NEW q \in Processes, NEW s \in Processes, q # s, adjustments'[q] # 0
      PROVE  adjustments'[q] # adjustments'[s]
  BY <1>1, <1>2, <1>5 DEF RememberInv
<1> QED BY <1>1, <1>3, <1>4, <1>5 DEF RememberInv

LEMMA RememberTouch ==
    ASSUME KeyInv, RememberInv, [Next]_vars, "detached" \notin faults', NEW p \in Processes,
           TouchAdjustmentWindow(p), UNCHANGED escalated, \A c \in 1..Len(calls) : ~ResumePenalty(c)
    PROVE  RememberInv'
<1>1. TypeInv /\ OpInv /\ "detached" \notin faults
  BY KeptStep DEF KeyInv, Kept
<1>2. CASE UNCHANGED <<heap, adjustments>>
  BY <1>2, RememberUnchanged
<1>3. CASE /\ Len(heap) \in Nat
           /\ \A i \in 1..Len(heap) : heap'[i] = heap[i]
           /\ heap'[Len(heap) + 1].violations =
                 IF adjustments[p] = 0 THEN 0 ELSE heap[adjustments[p]].violations
           /\ adjustments' = [adjustments EXCEPT ![p] = Len(heap) + 1]
           /\ faults' = IF Held(p) THEN faults \union {"detached"} ELSE faults
  <2>1. ~Held(p)
    BY <1>3
  <2>2. /\ adjustments'[p] = Len(heap) + 1
        /\ \A q \in Processes \ {p} : adjustments'[q] = adjustments[q] /\ adjustments[q] \in 0..Len(heap)
    BY <1>1, <1>3 DEF TypeInv
  <2>3. ASSUME NEW d \in 1..Len(calls'), calls'[d].pc = "snapshot"
        PROVE  calls'[d].adj = adjustments'[calls'[d].proc]
    <3>1. d \in 1..Len(calls) /\ calls'[d] = calls[d]
      BY <1>1, <2>3, SnapshotBefore
    <3>2. calls[d].proc # p
      BY <1>1, <2>1, <2>3, <3>1, NotHeld
    <3>3. calls[d].proc \in Processes
      <4>1. calls[d] \in CallRec
        BY <1>1, <3>1 DEF TypeInv
      <4> QED BY <4>1 DEF CallRec
    <3> QED BY <1>1, <2>2, <2>3, <3>1, <3>2, <3>3 DEF RememberInv
  <2>4. ASSUME NEW q \in Processes PROVE Counts(q)'
    <3>1. CASE q = p
      <4>1. Counts(p)
        BY <1>1 DEF RememberInv
      <4>2. heap'[Len(heap) + 1].violations = escalated[p]
        BY <1>3, <4>1 DEF Counts
      <4>3. Len(heap) + 1 # 0
        BY <1>3
      <4> QED BY <2>2, <3>1, <4>2, <4>3 DEF Counts
    <3>2. CASE q # p
      <4>1. adjustments'[q] = adjustments[q] /\ (adjustments[q] # 0 => adjustments[q] \in 1..Len(heap))
        BY <1>3, <2>2, <3>2
      <4>2. Counts(q)
        BY <1>1 DEF RememberInv
      <4> QED BY <1>3, <4>1, <4>2 DEF Counts
    <3> QED BY <3>1, <3>2
  <2>5. ASSUME NEW q \in Processes, NEW s \in Processes, q # s, adjustments'[q] # 0
        PROVE  adjustments'[q] # adjustments'[s]
    <3>1. CASE q = p
      BY <1>3, <2>2, <2>5, <3>1
    <3>2. CASE s = p
      BY <1>3, <2>2, <2>5, <3>2
    <3>3. CASE q # p /\ s # p
      BY <1>1, <2>2, <2>5, <3>3 DEF RememberInv
    <3> QED BY <3>1, <3>2, <3>3
  <2> QED BY <1>1, <2>3, <2>4, <2>5 DEF RememberInv
<1> QED BY <1>1, <1>2, <1>3, TouchValue

LEMMA RememberPenalty ==
    ASSUME KeyInv, RememberInv, [Next]_vars, "detached" \notin faults', NEW c \in 1..Len(calls),
           ResumePenalty(c)
    PROVE  RememberInv'
<1>1. TypeInv /\ OpInv /\ "detached" \notin faults
  BY KeptStep DEF KeyInv, Kept
<1>2. UNCHANGED <<adjustments, escalated>>
  BY DEF ResumePenalty
<1>3. heap \in Seq(Adjustment) /\ Len(heap) \in Nat /\ calls[c].proc \in Processes
  <2>1. calls[c] \in CallRec /\ heap \in Seq(Adjustment)
    BY <1>1 DEF TypeInv
  <2>2. calls[c].proc \in Processes
    BY <2>1 DEF CallRec
  <2> QED BY <2>1, <2>2, LenProperties
<1>4. \A i \in 1..Len(heap) : heap'[i].violations = heap[i].violations
  <2>1. CASE adjustments[calls[c].proc] = 0
    BY <2>1 DEF ResumePenalty
  <2>2. CASE adjustments[calls[c].proc] # 0
    <3>1. PICK a \in 1..Len(heap) : a = adjustments[calls[c].proc]
      BY <1>1, <1>3, <2>2 DEF TypeInv
    <3>2. heap' = [heap EXCEPT ![a].points = @ + 1]
      BY <2>2, <3>1 DEF ResumePenalty
    <3> QED BY <1>3, <3>2, IncrementPoints
  <2> QED BY <2>1, <2>2
<1>5. ASSUME NEW d \in 1..Len(calls'), calls'[d].pc = "snapshot"
      PROVE  calls'[d].adj = adjustments'[calls'[d].proc]
  <2>1. /\ d \in 1..Len(calls) /\ calls'[d].proc = calls[d].proc
        /\ calls'[d] = calls[d] \/ calls'[d].adj = adjustments[calls[d].proc]
    BY <1>1, <1>5, SnapshotBefore
  <2> QED BY <1>1, <1>2, <1>5, <2>1 DEF RememberInv
<1>6. ASSUME NEW q \in Processes PROVE Counts(q)'
  <2>1. adjustments[q] # 0 => adjustments[q] \in 1..Len(heap)
    BY <1>1, <1>3 DEF TypeInv
  <2>2. Counts(q)
    BY <1>1 DEF RememberInv
  <2> QED BY <1>2, <1>4, <2>1, <2>2 DEF Counts
<1> QED BY <1>1, <1>2, <1>5, <1>6 DEF RememberInv

LEMMA RememberEscalate ==
    ASSUME KeyInv, RememberInv, [Next]_vars, "detached" \notin faults', NEW c \in 1..Len(calls),
           Escalate(c)
    PROVE  RememberInv'
<1>1. TypeInv /\ OpInv /\ "detached" \notin faults
  BY KeptStep DEF KeyInv, Kept
<1>2. CASE ~MayEscalate(calls[c].proc, calls[c].adj)
  <2>1. UNCHANGED <<heap, adjustments, escalated>> /\ Settle(c, "ok")
    BY <1>2 DEF Escalate
  <2>2. PICK r \in CallRec : Moves(c, r) /\ r.pc = "done"
    BY <1>1, <2>1, SettleMoves
  <2>3. calls'[c].pc = "done"
    BY <1>1, <2>2, MovedValue
  <2>4. ASSUME NEW d \in 1..Len(calls'), calls'[d].pc = "snapshot"
        PROVE  calls'[d].adj = adjustments'[calls'[d].proc]
    <3>1. /\ d \in 1..Len(calls) /\ calls'[d].proc = calls[d].proc
          /\ calls'[d] = calls[d] \/ calls'[d].adj = adjustments[calls[d].proc]
      BY <1>1, <2>4, SnapshotBefore
    <3> QED BY <1>1, <2>1, <2>4, <3>1 DEF RememberInv
  <2>5. \A p \in Processes : Counts(p)'
    BY <1>1, <2>1 DEF RememberInv, Counts
  <2> QED BY <1>1, <2>1, <2>4, <2>5 DEF RememberInv
<1>3. CASE MayEscalate(calls[c].proc, calls[c].adj)
  <2>1. PICK p \in Processes : p = calls[c].proc
    <3>1. calls[c] \in CallRec
      BY <1>1 DEF TypeInv
    <3> QED BY <3>1 DEF CallRec
  <2>2. PICK a \in 1..Len(heap) : a = calls[c].adj
    BY <1>1 DEF Escalate, TypeInv
  <2>3. a = adjustments[p] /\ a # 0
    BY <1>1, <2>1, <2>2 DEF RememberInv, Escalate
  <2>4. /\ heap' = [heap EXCEPT ![a].violations = NextViolation(a)]
        /\ adjustments' = [adjustments EXCEPT ![p] = a]
        /\ escalated' = [escalated EXCEPT ![p] = @ + 1]
    BY <1>3, <2>1, <2>2 DEF Escalate
  <2>5. heap \in Seq(Adjustment) /\ Len(heap) \in Nat /\ heap[a] \in Adjustment
    BY <1>1, LenProperties DEF TypeInv
  <2>6. NextViolation(a) \in Nat /\ NextViolation(a) = heap[a].violations + 1
    BY <2>5 DEF Adjustment, NextViolation
  <2>7. heap'[a].violations = heap[a].violations + 1 /\ \A i \in 1..Len(heap) : i # a => heap'[i] = heap[i]
    BY <2>4, <2>5, <2>6, SetViolations
  <2>8. /\ adjustments' = adjustments /\ escalated'[p] = escalated[p] + 1
        /\ \A q \in Processes \ {p} : escalated'[q] = escalated[q]
    BY <1>1, <2>3, <2>4 DEF TypeInv
  <2>9. ASSUME NEW d \in 1..Len(calls'), calls'[d].pc = "snapshot"
        PROVE  calls'[d].adj = adjustments'[calls'[d].proc]
    <3>1. /\ d \in 1..Len(calls) /\ calls'[d].proc = calls[d].proc
          /\ calls'[d] = calls[d] \/ calls'[d].adj = adjustments[calls[d].proc]
      BY <1>1, <2>9, SnapshotBefore
    <3> QED BY <1>1, <2>8, <2>9, <3>1 DEF RememberInv
  <2>10. ASSUME NEW q \in Processes PROVE Counts(q)'
    <3>1. Counts(q)
      BY <1>1 DEF RememberInv
    <3>2. CASE q = p
      BY <2>3, <2>7, <2>8, <3>1, <3>2 DEF Counts
    <3>3. CASE q # p
      <4>1. adjustments[q] # 0 => adjustments[q] \in 1..Len(heap) /\ adjustments[q] # a
        BY <1>1, <2>3, <2>5, <3>3 DEF TypeInv, RememberInv
      <4> QED BY <2>7, <2>8, <3>1, <3>3, <4>1 DEF Counts
    <3> QED BY <3>2, <3>3
  <2> QED BY <1>1, <2>8, <2>9, <2>10 DEF RememberInv
<1> QED BY <1>2, <1>3

LEMMA RememberStep ==
    ASSUME KeyInv, RememberInv, [Next]_vars
    PROVE  RememberInv'
<1>0. TypeInv /\ DOMAIN calls = 1..Len(calls)
  BY LenProperties DEF KeyInv, TypeInv
<1>1. CASE "detached" \in faults'
  BY <1>1 DEF RememberInv
<1>2. CASE "detached" \notin faults'
  <2>1. CASE \E c \in 1..Len(calls) : ResumePenalty(c)
    BY <1>2, <2>1, RememberPenalty
  <2>2. CASE \E c \in 1..Len(calls) : Escalate(c)
    BY <1>2, <2>2, RememberEscalate
  <2>3. CASE ~ \E c \in 1..Len(calls) : ResumePenalty(c) \/ Escalate(c)
    <3>0. \A c \in 1..Len(calls) : ~ResumePenalty(c)
      BY <2>3
    <3>1. CASE UNCHANGED <<heap, adjustments, escalated>>
      BY <1>2, <3>0, <3>1, RememberUnchanged
    <3>2. ASSUME NEW c \in 1..Len(calls), Execute(c) \/ FailCall(c) \/ Continue(c) PROVE RememberInv'
      <4>0. calls[c].proc \in Processes
        <5>1. calls[c] \in CallRec
          BY <1>0 DEF TypeInv
        <5> QED BY <5>1 DEF CallRec
      <4>1. CASE Execute(c) \/ FailCall(c) \/ ResumeReward(c)
        BY <3>1, <4>1 DEF Execute, FailCall, ResumeReward
      <4>2. CASE ResumeUnblock(c)
        BY <1>2, <3>0, <4>0, <4>2, RememberClear DEF ResumeUnblock
      <4>3. CASE ResumeDelete(c)
        <5>1. PICK p \in Processes : p = calls[c].proc
          BY <4>0
        <5>2. /\ adjustments' = [adjustments EXCEPT ![p] = 0] /\ heap' = heap
              /\ escalated' = [escalated EXCEPT ![p] = 0] /\ ~Held(p)
          BY <1>2, <4>3, <5>1 DEF ResumeDelete
        <5> QED BY <1>2, <3>0, <5>2, RememberForget
      <4> QED BY <2>3, <3>2, <4>1, <4>2, <4>3 DEF Continue
    <3>3. ASSUME NEW p \in Processes,
             \/ \E d \in BlockTimes : BlockKey(p, d)
             \/ Unblock(p) \/ UnblockAll(p) \/ Delete(p)
             \/ \E op \in {"penalty", "reward"} : Adjust(p, op)
          PROVE  RememberInv'
      <4>1. \/ UNCHANGED <<heap, adjustments, escalated>>
            \/ ClearViolations(p) /\ UNCHANGED adjustments
            \/ TouchAdjustmentWindow(p) /\ UNCHANGED escalated
        BY <1>0, <3>3, CallAdded
      <4> QED BY <1>2, <3>0, <3>1, <4>1, RememberClear, RememberTouch
    <3>4. ASSUME NEW p \in Processes, Syncs(p) \/ Destroy(p) \/ Restart(p)
          PROVE  RememberInv'
      <4>1. CASE Syncs(p)
        BY <3>1, <4>1, SyncsFrame
      <4>2. CASE Destroy(p) \/ Restart(p)
        <5>1. /\ adjustments' = [adjustments EXCEPT ![p] = 0] /\ heap' = heap
              /\ escalated' = [escalated EXCEPT ![p] = 0] /\ ~Held(p)
          BY <1>2, <4>2 DEF Destroy, Restart, ForgetLocal
        <5> QED BY <1>2, <3>0, <5>1, RememberForget
      <4> QED BY <3>4, <4>1, <4>2
    <3> QED BY <1>0, <3>1, <3>2, <3>3, <3>4, SyncsFrame DEF Next, Syncs, vars, Tick
  <2> QED BY <2>1, <2>2, <2>3
<1> QED BY <1>1, <1>2

\* The violation count of a process is the number of its escalations since it was cleared,
\* across windows, overlapping calls and processes: each escalation is one step longer than
\* the one before, unless the map was changed under a penalty about to escalate.
THEOREM EscalationKept == Spec => []EscalationRemembered
<1>1. RememberInv => EscalationRemembered
  BY DEF RememberInv, EscalationRemembered, Counts
<1>2. Init => KeyInv /\ RememberInv
  <2> SUFFICES ASSUME Init PROVE RememberInv
    BY KeyInit
  <2>1. calls = << >> /\ \A p \in Processes : adjustments[p] = 0 /\ escalated[p] = 0
    BY DEF Init
  <2> QED BY <2>1 DEF RememberInv, Counts
<1>3. KeyInv /\ RememberInv /\ [Next]_vars => (KeyInv /\ RememberInv)'
  BY KeyStep, RememberStep
<1> QED BY <1>1, <1>2, <1>3, PTL DEF Spec

-----------------------------------------------------------------------------
(* A ban holds                                                             *)

Lifts(r) == r.op \in {"unblock", "unblockAll", "delete"} \/ (r.op = "block" /\ ~Ban(r.block))

\* None of the five races has happened and nobody has called for the ban's end.
Quiet == /\ "staleSync" \notin faults /\ "banReplaced" \notin faults
         /\ "banDeleted" \notin faults
         /\ "setFailed" \notin faults /\ "forgotten" \notin faults
         /\ \A c \in 1..Len(calls) : ~Lifts(calls[c])

HasBlock(p) == \E c \in 1..Len(calls) : calls[c].proc = p /\ calls[c].op = "block"

\* A ban that was called for is in the shared store or on its way to it; its process has it;
\* and so has every list that the process is about to apply and that is not out of date.
BanKept ==
    /\ \A c \in 1..Len(calls) :
          calls[c].op = "block" => calls[c].pc = "sent" \/ (calls[c].pc = "done" /\ Ban(remote))
    /\ \A p \in Processes : HasBlock(p) => Ban(local[p])
    /\ \A p \in Processes :
          sync[p].pc # "idle" /\ ~sync[p].stale /\ HasBlock(p) => Ban(sync[p].seen)

BanInv == Quiet => BanKept

LEMMA QuietBefore ==
    ASSUME KeyInv, [Next]_vars, Quiet'
    PROVE  Quiet
<1>1. Kept
  BY KeptStep DEF KeyInv
<1>2. ASSUME NEW c \in 1..Len(calls), Lifts(calls[c]) PROVE FALSE
  <2>1. c \in 1..Len(calls') /\ ~Lifts(calls'[c])
    BY <1>1 DEF Kept, Quiet
  <2> QED BY <1>1, <1>2, <2>1 DEF Kept, Lifts
<1> QED BY <1>1, <1>2 DEF Kept, Quiet

\* A step that begins no call.
LEMMA BanFrame ==
    ASSUME KeyInv, [Next]_vars, BanKept, Len(calls') = Len(calls),
           Ban(remote) => Ban(remote)',
           \A c \in 1..Len(calls) : calls[c].op = "block" =>
              calls'[c].pc = calls[c].pc \/ (calls'[c].pc = "done" /\ Ban(remote)'),
           \A p \in Processes : HasBlock(p) => Ban(local[p])',
           \A p \in Processes : sync'[p].pc # "idle" /\ ~sync'[p].stale =>
              \/ sync[p].pc # "idle" /\ ~sync[p].stale /\ sync'[p].seen = sync[p].seen
              \/ HasBlock(p) => Ban(sync'[p].seen)
    PROVE  BanKept'
<1>1. Kept
  BY KeptStep DEF KeyInv
<1>2. ASSUME NEW p \in Processes, HasBlock(p)' PROVE HasBlock(p)
  BY <1>1, <1>2 DEF HasBlock, Kept
<1>3. ASSUME NEW c \in 1..Len(calls'), calls'[c].op = "block"
      PROVE  calls'[c].pc = "sent" \/ (calls'[c].pc = "done" /\ Ban(remote)')
  <2>1. c \in 1..Len(calls) /\ calls[c].op = "block"
    BY <1>1, <1>3 DEF Kept
  <2> QED BY <2>1 DEF BanKept
<1>4. ASSUME NEW p \in Processes, sync'[p].pc # "idle", ~sync'[p].stale, HasBlock(p)'
      PROVE  Ban(sync[p].seen)'
  <2>1. HasBlock(p)
    BY <1>2, <1>4
  <2>2. CASE sync[p].pc # "idle" /\ ~sync[p].stale /\ sync'[p].seen = sync[p].seen
    <3>1. Ban(sync[p].seen)
      BY <2>1, <2>2 DEF BanKept
    <3> QED BY <2>2, <3>1 DEF Ban, Forever
  <2>3. CASE HasBlock(p) => Ban(sync'[p].seen)
    BY <2>1, <2>3 DEF Ban, Forever
  <2> QED BY <1>4, <2>2, <2>3
<1>5. ASSUME NEW p \in Processes, HasBlock(p)' PROVE Ban(local[p])'
  BY <1>2, <1>5
<1> QED BY <1>3, <1>4, <1>5 DEF BanKept

\* A call resumes or fails: what is not a block is not awaited by BanKept.
LEMMA BanMoved ==
    ASSUME KeyInv, [Next]_vars, BanKept, NEW c \in 1..Len(calls), NEW r \in CallRec, Moves(c, r),
           calls[c].op # "block", UNCHANGED remote,
           \A p \in Processes : HasBlock(p) => Ban(local[p])',
           \A p \in Processes : sync'[p].pc # "idle" /\ ~sync'[p].stale => sync'[p] = sync[p]
    PROVE  BanKept'
<1>1. /\ Len(calls') = Len(calls)
      /\ \A d \in 1..Len(calls) : d # c => calls'[d] = calls[d]
  BY MovedValue DEF KeyInv
<1>2. \A d \in 1..Len(calls) : calls[d].op = "block" =>
              calls'[d].pc = calls[d].pc \/ (calls'[d].pc = "done" /\ Ban(remote)')
  BY <1>1
<1>3. Ban(remote) => Ban(remote)'
  BY DEF Ban, Forever
<1>4. \A p \in Processes : sync'[p].pc # "idle" /\ ~sync'[p].stale =>
              \/ sync[p].pc # "idle" /\ ~sync[p].stale /\ sync'[p].seen = sync[p].seen
              \/ HasBlock(p) => Ban(sync'[p].seen)
  OBVIOUS
<1> QED BY <1>1, <1>2, <1>3, <1>4, BanFrame

LEMMA BanExecute ==
    ASSUME KeyInv, [Next]_vars, BanKept, Quiet, Quiet', NEW c \in 1..Len(calls), Execute(c)
    PROVE  BanKept'
<1>0. TypeInv /\ OpInv /\ calls[c] \in CallRec
  BY DEF KeyInv, TypeInv
<1>1. PICK r \in CallRec : /\ Moves(c, r) /\ r.op = calls[c].op
                           /\ calls[c].op = "block" => r.pc = "done" /\ r.block = calls[c].block
  BY <1>0, ExecuteMoves
<1>2. /\ Len(calls') = Len(calls) /\ calls'[c] = r
      /\ \A d \in 1..Len(calls) : d # c => calls'[d] = calls[d]
  BY <1>0, <1>1, MovedValue
<1>3. ~Lifts(calls[c]) /\ UNCHANGED local
  BY DEF Quiet, Execute
<1>4. \A p \in Processes : HasBlock(p) => Ban(local[p])'
  <2>1. ASSUME NEW p \in Processes, HasBlock(p) PROVE Ban(local[p])'
    <3>1. Ban(local[p])
      BY <2>1 DEF BanKept
    <3> QED BY <1>3, <3>1 DEF Ban, Forever
  <2> QED BY <2>1
<1>5. CASE calls[c].op \in {"block", "escalate"}
  <2>1. Written(Live(calls[c].block, now))
    BY <1>5 DEF Execute
  <2>2. Ban(calls[c].block) => Ban(remote)'
    <3>1. ASSUME Ban(calls[c].block) PROVE Ban(remote)'
      <4>1. remote' = calls[c].block
        BY <2>1, <3>1, LiveBan DEF Written
      <4> QED BY <3>1, <4>1 DEF Ban, Forever
    <3> QED BY <3>1
  <2>3. Ban(remote) => Ban(remote)'
    <3>1. ASSUME Ban(remote), ~Ban(calls[c].block) PROVE FALSE
      <4>1. "banReplaced" \in faults'
        BY <1>5, <3>1 DEF Execute
      <4> QED BY <4>1 DEF Quiet
    <3> QED BY <2>2, <3>1
  <2>4. calls[c].op = "block" => calls'[c].pc = "done" /\ Ban(remote)'
    BY <1>1, <1>2, <1>3, <2>2 DEF Lifts
  <2>5. ASSUME NEW p \in Processes, sync'[p].pc # "idle", ~sync'[p].stale PROVE FALSE
    <3>1. sync[p] \in SyncRec
      BY <1>0 DEF TypeInv
    <3>2. sync'[p] = [sync[p] EXCEPT !.stale = sync[p].stale \/ sync[p].pc # "idle"]
      BY <2>1 DEF Written
    <3> QED BY <2>5, <3>1, <3>2 DEF SyncRec
  <2>6. \A d \in 1..Len(calls) : calls[d].op = "block" =>
              calls'[d].pc = calls[d].pc \/ (calls'[d].pc = "done" /\ Ban(remote)')
    BY <1>2, <2>4
  <2> QED BY <1>2, <1>4, <2>3, <2>5, <2>6, BanFrame
<1>6. CASE calls[c].op \notin {"block", "escalate"}
  <2>1. UNCHANGED <<remote, sync>>
    BY <1>3, <1>6 DEF Execute, Lifts
  <2>2. calls[c].op # "block"
    BY <1>6
  <2> QED BY <1>1, <1>4, <2>1, <2>2, BanMoved
<1> QED BY <1>5, <1>6

LEMMA BanContinue ==
    ASSUME KeyInv, [Next]_vars, BanKept, Quiet, Quiet', NEW c \in 1..Len(calls),
           FailCall(c) \/ Continue(c)
    PROVE  BanKept'
<1>0. TypeInv /\ OpInv /\ calls[c] \in CallRec
  BY DEF KeyInv, TypeInv
<1>1. ~Lifts(calls[c])
  BY DEF Quiet
<1>2. calls[c].op # "block"
  <2>1. CASE FailCall(c)
    <3>1. Ban(calls[c].block) => "setFailed" \in faults'
      BY <2>1 DEF FailCall
    <3> QED BY <1>1, <3>1 DEF Lifts, Quiet
  <2>2. CASE Continue(c)
    BY <1>0, <2>2 DEF Continue, ResumeUnblock, ResumeDelete, ResumeReward, ResumePenalty, Escalate,
                      Resumes, OpInv
  <2> QED BY <2>1, <2>2
<1>3. UNCHANGED remote
  BY DEF FailCall, Continue, ResumeUnblock, ResumeDelete, ResumeReward, ResumePenalty, Escalate
<1>4. ASSUME UNCHANGED local, NEW p \in Processes, HasBlock(p) PROVE Ban(local[p])'
  <2>1. Ban(local[p])
    BY <1>4 DEF BanKept
  <2> QED BY <1>4, <2>1 DEF Ban, Forever
<1>5. CASE UNCHANGED <<local, sync>>
  <2>1. \E r \in CallRec : Moves(c, r)
    <3>1. CASE FailCall(c)
      BY <1>0, <3>1, FailMoves
    <3>2. CASE \E o \in {"ok", "threw"} : Settle(c, o)
      BY <1>0, <3>2, SettleMoves
    <3>3. CASE ResumePenalty(c) /\ adjustments[calls[c].proc] # 0
      BY <1>0, <3>3, PenaltyMoves
    <3>4. CASE Escalate(c) /\ MayEscalate(calls[c].proc, calls[c].adj)
      BY <1>0, <3>4, EscalateMoves
    <3>5. \/ FailCall(c) \/ (\E o \in {"ok", "threw"} : Settle(c, o))
          \/ (ResumePenalty(c) /\ adjustments[calls[c].proc] # 0)
          \/ (Escalate(c) /\ MayEscalate(calls[c].proc, calls[c].adj))
      BY DEF Continue, ResumeUnblock, ResumeDelete, ResumeReward, ResumePenalty, Escalate
    <3> QED BY <3>1, <3>2, <3>3, <3>4, <3>5
  <2> QED BY <1>2, <1>3, <1>4, <1>5, <2>1, BanMoved
<1>6. CASE Escalate(c) /\ MayEscalate(calls[c].proc, calls[c].adj)
  <2>1. PICK p \in Processes : p = calls[c].proc
    BY <1>0 DEF CallRec
  <2>2. PICK r \in CallRec : Moves(c, r) /\ local' = [local EXCEPT ![p] = r.block]
    BY <1>0, <1>6, <2>1, EscalateMoves
  <2>3. ~HasBlock(p)
    <3>1. local[p] = NoBlock
      BY <1>6, <2>1 DEF MayEscalate
    <3> QED BY <3>1, NoBlockType DEF BanKept
  <2>4. ASSUME NEW q \in Processes, HasBlock(q) PROVE Ban(local[q])'
    <3>1. q # p /\ Ban(local[q])
      BY <2>3, <2>4 DEF BanKept
    <3>2. local'[q] = local[q]
      BY <1>0, <2>2, <3>1 DEF TypeInv
    <3> QED BY <3>1, <3>2 DEF Ban, Forever
  <2>5. sync' = Overtaken(p)
    BY <1>6, <2>1 DEF Escalate
  <2>6. /\ \A q \in Processes \ {p} : sync'[q] = sync[q]
        /\ sync'[p].pc # "idle" => sync'[p].stale
    BY <1>0, <2>5, OvertakenType
  <2>7. \A q \in Processes : sync'[q].pc # "idle" /\ ~sync'[q].stale => sync'[q] = sync[q]
    BY <2>6
  <2> QED BY <1>2, <1>3, <2>2, <2>4, <2>7, BanMoved
<1>7. \/ UNCHANGED <<local, sync>>
      \/ Escalate(c) /\ MayEscalate(calls[c].proc, calls[c].adj)
  BY <1>1 DEF FailCall, Continue, ResumeUnblock, ResumeDelete, ResumeReward, ResumePenalty,
              Escalate, Resumes, Lifts
<1> QED BY <1>5, <1>6, <1>7

LEMMA BanAdded ==
    ASSUME KeyInv, [Next]_vars, BanKept, Quiet, Quiet', NEW p \in Processes, UNCHANGED remote,
           \/ \E d \in BlockTimes : BlockKey(p, d)
           \/ Unblock(p) \/ UnblockAll(p) \/ Delete(p)
           \/ \E op \in {"penalty", "reward"} : Adjust(p, op)
    PROVE  BanKept'
<1>0. TypeInv
  BY DEF KeyInv
<1>1. PICK r \in CallRec :
              /\ calls' = Append(calls, r) /\ r.proc = p /\ r.pc = "sent"
              /\ \/ /\ r.op = "block"
                    /\ local' = [local EXCEPT ![p] = r.block] /\ sync' = Overtaken(p)
                 \/ r.op # "block" /\ UNCHANGED <<local, sync>>
                 \/ r.op = "unblockAll"
  BY <1>0, CallAdded
<1>2. /\ Len(calls) \in Nat /\ Len(calls') = Len(calls) + 1 /\ calls'[Len(calls) + 1] = r
      /\ \A d \in 1..Len(calls) : calls'[d] = calls[d]
  BY <1>0, <1>1, AddedValue
<1>3. ~Lifts(r)
  BY <1>2 DEF Quiet
<1>4. Ban(remote) => Ban(remote)'
  BY DEF Ban, Forever
<1>5. ASSUME NEW c \in 1..Len(calls'), calls'[c].op = "block"
      PROVE  calls'[c].pc = "sent" \/ (calls'[c].pc = "done" /\ Ban(remote)')
  <2>1. CASE c \in 1..Len(calls)
    BY <1>2, <1>4, <1>5, <2>1 DEF BanKept
  <2>2. CASE c = Len(calls) + 1
    BY <1>1, <1>2, <2>2
  <2> QED BY <1>2, <2>1, <2>2
<1>6. ASSUME NEW q \in Processes, HasBlock(q)', ~(q = p /\ r.op = "block") PROVE HasBlock(q)
  <2>1. PICK c \in 1..Len(calls') : calls'[c].proc = q /\ calls'[c].op = "block"
    BY <1>6 DEF HasBlock
  <2>2. c \in 1..Len(calls)
    BY <1>1, <1>2, <1>6, <2>1
  <2> QED BY <1>2, <2>1, <2>2 DEF HasBlock
<1>7. CASE r.op = "block"
  <2>1. Ban(r.block) /\ local' = [local EXCEPT ![p] = r.block] /\ sync' = Overtaken(p)
    BY <1>1, <1>3, <1>7 DEF Lifts
  <2>2. local'[p] = r.block /\ \A q \in Processes \ {p} : local'[q] = local[q]
    BY <1>0, <2>1 DEF TypeInv
  <2>3. /\ \A q \in Processes \ {p} : sync'[q] = sync[q]
        /\ sync'[p].pc # "idle" => sync'[p].stale
    BY <1>0, <2>1, OvertakenType
  <2>4. ASSUME NEW q \in Processes, HasBlock(q)' PROVE Ban(local[q])'
    <3>1. CASE q = p
      BY <2>1, <2>2, <3>1 DEF Ban, Forever
    <3>2. CASE q # p
      <4>1. Ban(local[q])
        BY <1>6, <2>4, <3>2 DEF BanKept
      <4> QED BY <2>2, <3>2, <4>1 DEF Ban, Forever
    <3> QED BY <3>1, <3>2
  <2>5. ASSUME NEW q \in Processes, sync'[q].pc # "idle", ~sync'[q].stale, HasBlock(q)'
        PROVE  Ban(sync[q].seen)'
    <3>1. q # p /\ sync'[q] = sync[q]
      BY <2>3, <2>5
    <3>2. Ban(sync[q].seen)
      BY <1>6, <2>5, <3>1 DEF BanKept
    <3> QED BY <3>1, <3>2 DEF Ban, Forever
  <2> QED BY <1>5, <2>4, <2>5 DEF BanKept
<1>8. CASE r.op # "block" /\ UNCHANGED <<local, sync>>
  <2>1. ASSUME NEW q \in Processes, HasBlock(q)' PROVE Ban(local[q])'
    <3>1. Ban(local[q])
      BY <1>6, <1>8, <2>1 DEF BanKept
    <3> QED BY <1>8, <3>1 DEF Ban, Forever
  <2>2. ASSUME NEW q \in Processes, sync'[q].pc # "idle", ~sync'[q].stale, HasBlock(q)'
        PROVE  Ban(sync[q].seen)'
    <3>1. Ban(sync[q].seen)
      BY <1>6, <1>8, <2>2 DEF BanKept
    <3> QED BY <1>8, <3>1 DEF Ban, Forever
  <2> QED BY <1>5, <2>1, <2>2 DEF BanKept
<1>9. CASE r.op = "unblockAll"
  BY <1>3, <1>9 DEF Lifts
<1> QED BY <1>1, <1>7, <1>8, <1>9

\* syncBlocks and time.
LEMMA BanSync ==
    ASSUME KeyInv, [Next]_vars, BanKept, Quiet, Quiet', NEW p \in Processes,
           Syncs(p)
    PROVE  BanKept'
<1>0. TypeInv /\ sync \in [Processes -> SyncRec] /\ DOMAIN calls = 1..Len(calls)
  BY LenProperties DEF KeyInv, TypeInv
<1>1. UNCHANGED calls
  BY SyncsFrame
<1>2. Ban(remote) => Ban(remote)'
  <2>1. CASE UNCHANGED remote
    BY <2>1 DEF Ban, Forever
  <2>2. CASE Deleted
    BY <2>2 DEF Deleted, Quiet
  <2> QED BY <2>1, <2>2 DEF Syncs, GetAllBlocks, ListBlock, DeleteExpired, ApplySync
<1>3. CASE GetAllBlocks(p)
  <2>1. UNCHANGED local /\ sync'[p].seen = remote /\ \A q \in Processes \ {p} : sync'[q] = sync[q]
    BY <1>0, <1>3 DEF GetAllBlocks
  <2>2. \A q \in Processes : HasBlock(q) => Ban(local[q])'
    <3>1. ASSUME NEW q \in Processes, HasBlock(q) PROVE Ban(local[q])'
      <4>1. Ban(local[q])
        BY <3>1 DEF BanKept
      <4> QED BY <2>1, <4>1 DEF Ban, Forever
    <3> QED BY <3>1
  <2>3. ASSUME ~sync'[p].stale, HasBlock(p) PROVE Ban(sync'[p].seen)
    <3>1. PICK c \in 1..Len(calls) : calls[c].proc = p /\ calls[c].op = "block"
      BY <2>3 DEF HasBlock
    <3>2. ~Pending(c)
      <4>1. sync'[p].stale = (\E d \in DOMAIN calls : calls[d].proc = p /\ Pending(d)
                                              /\ calls[d].op \in {"block", "escalate"})
        BY <1>0, <1>3 DEF GetAllBlocks
      <4> QED BY <1>0, <2>3, <3>1, <4>1
    <3>3. Ban(remote)
      BY <3>1, <3>2 DEF BanKept, Pending
    <3> QED BY <2>1, <3>3
  <2>4. \A q \in Processes : sync'[q].pc # "idle" /\ ~sync'[q].stale =>
              \/ sync[q].pc # "idle" /\ ~sync[q].stale /\ sync'[q].seen = sync[q].seen
              \/ HasBlock(q) => Ban(sync'[q].seen)
    BY <2>1, <2>3
  <2> QED BY <1>1, <1>2, <2>2, <2>4, BanFrame
<1>4. CASE ApplySync(p)
  <2>1. /\ local'[p] = Merged(sync[p].seen, local[p])
        /\ \A q \in Processes \ {p} : local'[q] = local[q] /\ sync'[q] = sync[q]
        /\ sync'[p].pc = "idle" /\ sync[p].pc # "idle"
    BY <1>0, <1>4 DEF ApplySync, TypeInv, NoSync
  <2>2. ASSUME NEW q \in Processes, HasBlock(q) PROVE Ban(local[q])'
    <3>0. Ban(local[q])
      BY <2>2 DEF BanKept
    <3>1. CASE q # p
      BY <2>1, <3>0, <3>1 DEF Ban, Forever
    <3>2. CASE q = p /\ sync[p].stale
      <4>1. ~Ban(local'[p]) => "staleSync" \in faults'
        BY <1>4, <3>0, <3>2 DEF ApplySync
      <4> QED BY <3>2, <4>1 DEF Quiet, Ban, Forever
    <3>3. CASE q = p /\ ~sync[p].stale
      <4>1. Ban(sync[p].seen)
        BY <2>1, <2>2, <3>3 DEF BanKept
      <4>2. local'[p] = sync[p].seen
        BY <2>1, <4>1, LiveBan DEF Merged, Expired
      <4> QED BY <3>3, <4>1, <4>2 DEF Ban, Forever
    <3> QED BY <3>1, <3>2, <3>3
  <2>3. \A q \in Processes : sync'[q].pc # "idle" => sync'[q] = sync[q]
    BY <2>1
  <2> QED BY <1>1, <1>2, <2>2, <2>3, BanFrame
<1>5. CASE ListBlock(p) \/ DeleteExpired(p)
  <2>0. UNCHANGED local
    BY <1>5 DEF ListBlock, DeleteExpired
  <2>1. ASSUME NEW q \in Processes, HasBlock(q) PROVE Ban(local[q])'
    <3>1. Ban(local[q])
      BY <2>1 DEF BanKept
    <3> QED BY <2>0, <3>1 DEF Ban, Forever
  <2>2. /\ sync[p].pc # "idle" /\ sync'[p].stale = sync[p].stale
        /\ \A q \in Processes \ {p} : sync'[q] = sync[q]
    BY <1>0, <1>5 DEF ListBlock, DeleteExpired, SyncRec
  <2>3. CASE sync'[p].seen = sync[p].seen
    BY <1>1, <1>2, <2>1, <2>2, <2>3, BanFrame
  <2>4. CASE sync'[p].seen # sync[p].seen
    <3>1. Expired(sync[p].seen)
      BY <1>0, <1>5, <2>4 DEF ListBlock, DeleteExpired, SyncRec
    <3>2. ~Ban(sync[p].seen)
      BY <3>1, LiveBan DEF Expired
    <3>3. sync[p].stale \/ ~HasBlock(p)
      BY <2>2, <3>2 DEF BanKept
    <3>4. \A q \in Processes : sync'[q].pc # "idle" /\ ~sync'[q].stale =>
              \/ sync[q].pc # "idle" /\ ~sync[q].stale /\ sync'[q].seen = sync[q].seen
              \/ HasBlock(q) => Ban(sync'[q].seen)
      BY <2>2, <3>3
    <3> QED BY <1>1, <1>2, <2>1, <3>4, BanFrame
  <2> QED BY <2>3, <2>4
<1> QED BY <1>3, <1>4, <1>5 DEF Syncs

\* The DEL of a process that is gone.
LEMMA BanStray ==
    ASSUME KeyInv, [Next]_vars, BanKept, Quiet, Quiet', DeleteStray
    PROVE  BanKept'
<1>1. UNCHANGED <<calls, local, sync>> /\ Deleted
  BY DEF DeleteStray
<1>2. Ban(remote) => Ban(remote)'
  BY <1>1 DEF Deleted, Quiet
<1>3. ASSUME NEW q \in Processes, HasBlock(q) PROVE Ban(local[q])'
  <2>1. Ban(local[q])
    BY <1>3 DEF BanKept
  <2> QED BY <1>1, <2>1 DEF Ban, Forever
<1> QED BY <1>1, <1>2, <1>3, BanFrame

LEMMA BanTick ==
    ASSUME KeyInv, [Next]_vars, BanKept, Tick
    PROVE  BanKept'
<1>1. UNCHANGED <<calls, sync>> /\ remote' = Live(remote, now')
  BY DEF Tick
<1>2. ASSUME Ban(remote) PROVE Ban(remote)'
  <2>1. remote' = remote
    BY <1>1, <1>2, LiveBan
  <2> QED BY <1>2, <2>1 DEF Ban, Forever
<1>3. ASSUME NEW p \in Processes, HasBlock(p) PROVE Ban(local[p])'
  <2>1. Ban(local[p])
    BY <1>3 DEF BanKept
  <2>2. local'[p] = Live(local[p], now')
    BY DEF Tick
  <2>3. local'[p] = local[p]
    BY <2>1, <2>2, LiveBan
  <2> QED BY <2>1, <2>3 DEF Ban, Forever
<1> QED BY <1>1, <1>2, <1>3, BanFrame

LEMMA BanStep ==
    ASSUME KeyInv, BanInv, [Next]_vars
    PROVE  BanInv'
<1> SUFFICES ASSUME Quiet' PROVE BanKept'
  BY DEF BanInv
<1>0. Quiet /\ BanKept /\ DOMAIN calls = 1..Len(calls)
  BY QuietBefore, LenProperties DEF BanInv, KeyInv, TypeInv
<1>1. CASE UNCHANGED vars
  <2>1. UNCHANGED <<calls, remote, local, sync>>
    BY <1>1 DEF vars
  <2> QED BY <1>0, <2>1 DEF BanKept, HasBlock, Ban, Forever
<1>2. CASE Tick
  BY <1>0, <1>2, BanTick
<1>3. ASSUME NEW c \in DOMAIN calls, Execute(c) \/ FailCall(c) \/ Continue(c) PROVE BanKept'
  BY <1>0, <1>3, BanExecute, BanContinue
<1>4. ASSUME NEW p \in Processes,
             \/ \E d \in BlockTimes : BlockKey(p, d)
             \/ Unblock(p) \/ UnblockAll(p) \/ Delete(p)
             \/ \E op \in {"penalty", "reward"} : Adjust(p, op)
      PROVE  BanKept'
  <2>1. UNCHANGED remote
    BY <1>4 DEF BlockKey, Unblock, UnblockAll, Delete, Adjust
  <2> QED BY <1>0, <1>4, <2>1, BanAdded
<1>5. ASSUME NEW p \in Processes, Syncs(p) PROVE BanKept'
  BY <1>0, <1>5, BanSync
<1>6. ASSUME NEW p \in Processes, Destroy(p) \/ Restart(p) PROVE BanKept'
  BY <1>6 DEF Destroy, Restart, ForgetLocal, Quiet
<1>7. CASE DeleteStray
  BY <1>0, <1>7, BanStray
<1> QED BY <1>1, <1>2, <1>3, <1>4, <1>5, <1>6, <1>7 DEF Next, Syncs

LEMMA BanInit == Init => BanInv
BY DEF Init, BanInv, BanKept, HasBlock, NoSync

LEMMA BanImplies == KeyInv /\ BanInv => BanEndsOnlyByRace
<1> SUFFICES ASSUME KeyInv, BanInv,
                    faults \cap {"staleSync", "banReplaced", "banDeleted", "setFailed", "forgotten"} = {},
                    NEW p \in Processes, Banned(p), ~Lifting
             PROVE  local[p] # NoBlock
  BY DEF BanEndsOnlyByRace, BanHolds
<1>1. DOMAIN calls = 1..Len(calls)
  BY LenProperties DEF KeyInv, TypeInv
<1>2. Quiet
  BY <1>1 DEF Quiet, Lifts, Lifting
<1>3. HasBlock(p)
  BY <1>1 DEF Banned, HasBlock
<1> QED BY <1>2, <1>3, NoBlockType DEF BanInv, BanKept

\* A key that block(key, 0) has banned stays banned in the process that banned it, whatever
\* the other processes, their escalations and their pulls of the shared store do, until
\* somebody lifts the ban or one of the five races the property names has happened.
THEOREM BanHeld == Spec => []BanEndsOnlyByRace
<1>1. Init => KeyInv /\ BanInv
  BY KeyInit, BanInit
<1>2. KeyInv /\ BanInv /\ [Next]_vars => (KeyInv /\ BanInv)'
  BY KeyStep, BanStep
<1> QED BY <1>1, <1>2, BanImplies, PTL DEF Spec
=============================================================================
