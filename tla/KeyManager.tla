----------------------------- MODULE KeyManager -----------------------------
(***************************************************************************)
(* The KeyManagers of several processes for one key: each has its own map  *)
(* of blocks and of penalty adjustments; they share a BlockStore, which    *)
(* each pulls with syncBlocks on a timer.  Every call of a method runs up  *)
(* to an await, its request is executed by the remote store later, and it  *)
(* resumes later still.  The rate limit store is here only the await of    *)
(* penalty, reward and delete; what it does is in the modules of stores.   *)
(***************************************************************************)
EXTENDS Integers, Sequences, FiniteSets

CONSTANTS
    Processes,
    MaxCalls,       \* method calls of a behaviour
    Ops,            \* the methods that are called
    BlockTimes,     \* durationMs arguments of block(); 0 is for ever
    WindowMs,       \* of the adjustments, in ticks
    PenaltyBlockThreshold,
    BaseDuration, StepDuration, MaxDuration,    \* of the escalation
    MaxTime,
    MaxTroubles     \* remote calls that fail, restarts and destroys of a behaviour

ASSUME KeyManagerAssumption ==
    /\ MaxCalls \in Nat /\ BlockTimes \subseteq Nat /\ WindowMs \in Nat \ {0}
    /\ Ops \subseteq {"block", "unblock", "unblockAll", "penalty", "reward", "delete"}
    /\ PenaltyBlockThreshold \in Nat \ {0} /\ BaseDuration \in Nat \ {0}
    /\ StepDuration \in Nat /\ MaxDuration \in Nat \ {0}
    /\ MaxTime \in Nat /\ MaxTroubles \in Nat

VARIABLES
    now,
    remote,         \* the key's block in the BlockStore
    local,          \* per process, the key's entry in blocks
    heap,           \* the adjustment objects made so far
    adjustments,    \* per process, the index of the key's object in heap, 0 for none
    calls,          \* the calls begun so far, see Call
    sync,           \* per process, the syncBlocks on its way
    strays,         \* DELs on their way that a restarted process left behind
    destroyed,
    troubles,
    escalated,      \* per process, escalations since the violation count was last cleared
    faults          \* ways in which a block or an adjustment has been lost so far

vars == <<now, remote, local, heap, adjustments, calls, sync, strays, destroyed, troubles,
          escalated, faults>>

NoBlock == [type |-> "none", until |-> 0]
Forever == MaxTime + 1      \* expiresAt null
Blocks == {NoBlock} \union [type : {"manual", "penalty"}, until : 1..(MaxTime + 1)]

Ban(b) == b.type = "manual" /\ b.until = Forever

\* An entry that has expired is as good as none: every reader drops it first.
Live(b, t) == IF b.until = Forever \/ t < b.until THEN b ELSE NoBlock

Until(duration) ==
    IF duration = 0 \/ now + duration >= Forever THEN Forever ELSE now + duration

\* pc: "sent" (the request is on its way to the remote store), "executed" (the call is about
\* to resume), "snapshot" (penalty awaits the read before its escalation check), "orphan"
\* (its process is gone, the request is not), "done".  adj: the object that penalty holds.
NewCall(p, op, block) ==
    [proc |-> p, op |-> op, pc |-> "sent", block |-> block, adj |-> 0, outcome |-> "none"]

\* pc: "read" (Redis has executed the GET), "delete" (a DEL is on its way, for what was
\* read has expired), "listed" (the list is complete).
NoSync == [pc |-> "idle", seen |-> NoBlock, stale |-> FALSE]

TypeOK ==
    /\ remote \in Blocks
    /\ local \in [Processes -> Blocks]
    /\ \A i \in DOMAIN heap : /\ heap[i].points \in 0..MaxCalls
                              /\ heap[i].violations \in 0..MaxCalls
    /\ adjustments \in [Processes -> 0..Len(heap)]
    /\ \A c \in DOMAIN calls :
          /\ calls[c].pc \in {"sent", "executed", "snapshot", "orphan", "done"}
          /\ calls[c].pc = "snapshot" => calls[c].adj \in DOMAIN heap
          /\ calls[c].outcome \in {"none", "ok", "threw", "failed", "lost"}
    /\ \A p \in Processes : sync[p].pc \in {"idle", "read", "delete", "listed"}
    /\ strays \in 0..MaxTroubles

Init ==
    /\ now = 0 /\ remote = NoBlock
    /\ local = [p \in Processes |-> NoBlock]
    /\ heap = << >> /\ adjustments = [p \in Processes |-> 0]
    /\ calls = << >> /\ sync = [p \in Processes |-> NoSync]
    /\ strays = 0 /\ destroyed = [p \in Processes |-> FALSE] /\ troubles = 0
    /\ escalated = [p \in Processes |-> 0] /\ faults = {}

-----------------------------------------------------------------------------
(* Calls: up to the first await *)

MayCall(p, op) == Len(calls) < MaxCalls /\ op \in Ops

\* A local write overtakes the list that a syncBlocks of the process is waiting for.
Overtaken(p) == [sync EXCEPT ![p].stale = @ \/ sync[p].pc # "idle"]

ClearViolations(p) ==
    /\ heap' = IF adjustments[p] = 0 THEN heap
               ELSE [heap EXCEPT ![adjustments[p]].violations = 0]
    /\ escalated' = [escalated EXCEPT ![p] = 0]

\* block(): the local entry first, then setBlock.
BlockKey(p, duration) ==
    /\ MayCall(p, "block")
    /\ LET b == [type |-> "manual", until |-> Until(duration)] IN
       /\ local' = [local EXCEPT ![p] = b]
       /\ calls' = Append(calls, NewCall(p, "block", b))
    /\ sync' = Overtaken(p)
    /\ UNCHANGED <<now, remote, heap, adjustments, strays, destroyed, troubles, escalated,
                   faults>>

\* unblock(): null without an entry, else removeBlock and the local entry after it.
Unblock(p) ==
    /\ MayCall(p, "unblock") /\ local[p] # NoBlock
    /\ calls' = Append(calls, NewCall(p, "unblock", NoBlock))
    /\ UNCHANGED <<now, remote, local, heap, adjustments, sync, strays, destroyed, troubles,
                   escalated, faults>>

\* unblockAll(): the local entries at once, the removals are not awaited.
UnblockAll(p) ==
    /\ MayCall(p, "unblockAll") /\ local[p] # NoBlock
    /\ local' = [local EXCEPT ![p] = NoBlock]
    /\ ClearViolations(p)
    /\ calls' = Append(calls, [NewCall(p, "unblockAll", NoBlock) EXCEPT !.outcome = "ok"])
    /\ sync' = Overtaken(p)
    /\ UNCHANGED <<now, remote, adjustments, strays, destroyed, troubles, faults>>

\* Does a penalty of p hold the object that p's map is about to lose?
Held(p) == \E c \in DOMAIN calls : calls[c].proc = p /\ calls[c].pc = "snapshot"

\* touchAdjustmentWindow: a new object for a new key or a new window, violations kept.
TouchAdjustmentWindow(p) ==
    LET a == adjustments[p]
        fresh == [points |-> 0, start |-> now,
                  violations |-> IF a = 0 THEN 0 ELSE heap[a].violations]
    IN IF a # 0 /\ now - heap[a].start < WindowMs
       THEN UNCHANGED <<heap, adjustments, faults>>
       ELSE /\ heap' = Append(heap, fresh)
            /\ adjustments' = [adjustments EXCEPT ![p] = Len(heap) + 1]
            /\ faults' = IF Held(p) THEN faults \union {"detached"} ELSE faults

\* Mutant of Adjust: the window is touched by penalty() only.
BugRewardWithoutTouch(p, op) ==
    /\ MayCall(p, op) /\ op \in {"penalty", "reward"}
    /\ IF op = "penalty" THEN TouchAdjustmentWindow(p)
       ELSE UNCHANGED <<heap, adjustments, faults>>
    /\ calls' = Append(calls, NewCall(p, op, NoBlock))
    /\ UNCHANGED <<now, remote, local, sync, strays, destroyed, troubles, escalated>>

\* penalty() and reward(): then store.increment or store.decrement.
Adjust(p, op) ==
    /\ MayCall(p, op) /\ op \in {"penalty", "reward"}
    /\ TouchAdjustmentWindow(p)
    /\ calls' = Append(calls, NewCall(p, op, NoBlock))
    /\ UNCHANGED <<now, remote, local, sync, strays, destroyed, troubles, escalated>>

\* delete() reads the key and then asks for removeBlock.
Delete(p) ==
    /\ MayCall(p, "delete")
    /\ calls' = Append(calls, NewCall(p, "delete", NoBlock))
    /\ UNCHANGED <<now, remote, local, heap, adjustments, sync, strays, destroyed, troubles,
                   escalated, faults>>

-----------------------------------------------------------------------------
(* The remote stores *)

Pending(c) == calls[c].pc \in {"sent", "orphan"}

\* A list that was read before this write is out of date when it arrives.
Written(b) ==
    /\ remote' = b
    /\ sync' = [p \in Processes |-> [sync[p] EXCEPT !.stale = @ \/ sync[p].pc # "idle"]]

\* setBlock replaces whatever is there (an expiry that has passed removes it), removeBlock
\* removes whatever is there.
Execute(c) ==
    /\ Pending(c)
    /\ LET op == calls[c].op  b == calls[c].block IN
       /\ IF op \in {"block", "escalate"} THEN Written(Live(b, now))
          ELSE IF op \in {"unblock", "unblockAll", "delete"} THEN Written(NoBlock)
          ELSE UNCHANGED <<remote, sync>>
       /\ faults' = IF op \in {"block", "escalate"} /\ Ban(remote) /\ ~Ban(b)
                    THEN faults \union {"banReplaced"} ELSE faults
       /\ calls' = [calls EXCEPT ![c].pc =
                       IF @ = "orphan" \/ op \in {"unblockAll", "block", "escalate"}
                       THEN "done" ELSE "executed",
                    ![c].outcome = IF op \in {"block", "escalate"} /\ calls[c].pc = "sent"
                                   THEN "ok" ELSE @,
                    ![c].block = IF op = "block" THEN @ ELSE NoBlock]
    /\ UNCHANGED <<now, local, heap, adjustments, strays, destroyed, troubles, escalated>>

\* The request fails and the call rejects where it stands: no method undoes its local part.
FailCall(c) ==
    /\ Pending(c) /\ troubles < MaxTroubles /\ troubles' = troubles + 1
    /\ calls' = [calls EXCEPT ![c].pc = "done", ![c].outcome = "failed"]
    /\ faults' = IF Ban(calls[c].block) THEN faults \union {"setFailed"} ELSE faults
    /\ UNCHANGED <<now, remote, local, heap, adjustments, sync, strays, destroyed, escalated>>

-----------------------------------------------------------------------------
(* Calls: after an await *)

Resumes(c, op) == calls[c].pc = "executed" /\ calls[c].op = op
Settle(c, outcome) ==
    calls' = [calls EXCEPT ![c].pc = "done", ![c].outcome = outcome, ![c].adj = 0]

ResumeUnblock(c) ==
    /\ Resumes(c, "unblock")
    /\ LET p == calls[c].proc IN
       /\ local' = [local EXCEPT ![p] = NoBlock]
       /\ ClearViolations(p)
       /\ sync' = Overtaken(p)
    /\ Settle(c, "ok")
    /\ UNCHANGED <<now, remote, adjustments, strays, destroyed, troubles, faults>>

\* delete() forgets the local state (and then asks the rate limit store to delete the key).
ResumeDelete(c) ==
    /\ Resumes(c, "delete")
    /\ LET p == calls[c].proc IN
       /\ local' = [local EXCEPT ![p] = NoBlock]
       /\ adjustments' = [adjustments EXCEPT ![p] = 0]
       /\ escalated' = [escalated EXCEPT ![p] = 0]
       /\ faults' = IF Held(p) THEN faults \union {"detached"} ELSE faults
       /\ sync' = Overtaken(p)
    /\ Settle(c, "ok")
    /\ UNCHANGED <<now, remote, heap, strays, destroyed, troubles>>

\* adjustments.get(key)! after the await: a key that delete() took meanwhile is a TypeError.
ResumeReward(c) ==
    /\ Resumes(c, "reward")
    /\ Settle(c, IF adjustments[calls[c].proc] = 0 THEN "threw" ELSE "ok")
    /\ UNCHANGED <<now, remote, local, heap, adjustments, sync, strays, destroyed, troubles,
                   escalated, faults>>

ResumePenalty(c) ==
    /\ Resumes(c, "penalty")
    /\ LET a == adjustments[calls[c].proc] IN
       IF a = 0
       THEN /\ Settle(c, "threw")
            /\ UNCHANGED heap
       ELSE /\ heap' = [heap EXCEPT ![a].points = @ + 1]
            /\ calls' = [calls EXCEPT ![c].pc = "snapshot", ![c].adj = a]
    /\ UNCHANGED <<now, remote, local, adjustments, sync, strays, destroyed, troubles,
                   escalated, faults>>

\* linearEscalation under capped().
PenaltyEscalation(n) ==
    LET d == BaseDuration + (n - 1) * StepDuration IN
    IF d > MaxDuration THEN MaxDuration ELSE d

\* Mutant of MayEscalate: an active block does not stop the escalation.
BugEscalatesOverBlock(p, a) == heap[a].points >= PenaltyBlockThreshold

\* isManualBlockActive is about any block, also one that a penalty made.
MayEscalate(p, a) == heap[a].points >= PenaltyBlockThreshold /\ local[p] = NoBlock

\* Mutant of NextViolation: the count starts again with each escalation.
BugCountsFromOne(a) == 1

NextViolation(a) == heap[a].violations + 1

\* The second half of penalty(), with the object it held across the read: the object goes
\* back into the map, whatever is there now.
Escalate(c) ==
    /\ calls[c].pc = "snapshot"
    /\ LET p == calls[c].proc  a == calls[c].adj  n == NextViolation(a)
           b == [type |-> "penalty", until |-> Until(PenaltyEscalation(n))]
       IN IF MayEscalate(p, a)
          THEN /\ heap' = [heap EXCEPT ![a].violations = n]
               /\ adjustments' = [adjustments EXCEPT ![p] = a]
               /\ local' = [local EXCEPT ![p] = b]
               /\ escalated' = [escalated EXCEPT ![p] = @ + 1]
               /\ sync' = Overtaken(p)
               /\ calls' = [calls EXCEPT ![c].op = "escalate", ![c].pc = "sent",
                                         ![c].block = b, ![c].adj = 0]
          ELSE /\ Settle(c, "ok")
               /\ UNCHANGED <<heap, adjustments, local, escalated, sync>>
    /\ UNCHANGED <<now, remote, strays, destroyed, troubles, faults>>

-----------------------------------------------------------------------------
(* syncBlocks *)

\* The timer, or a call; if the request fails, it is as if the timer had not fired.  A list
\* that a setBlock of this process has yet to reach is stale from the start.  A key that is
\* not there is passed over.
GetAllBlocks(p) ==
    /\ sync[p].pc = "idle" /\ ~destroyed[p]
    /\ sync' = [sync EXCEPT ![p] =
          [pc |-> IF remote = NoBlock THEN "listed" ELSE "read", seen |-> remote,
           stale |-> \E c \in DOMAIN calls : calls[c].proc = p /\ Pending(c)
                                              /\ calls[c].op \in {"block", "escalate"}]]
    /\ UNCHANGED <<now, remote, local, heap, adjustments, calls, strays, destroyed, troubles,
                   escalated, faults>>

Expired(b) == Live(b, now) # b

\* The answer of the GET: a block that has expired since is not listed but deleted.
ListBlock(p) ==
    /\ sync[p].pc = "read"
    /\ sync' = IF Expired(sync[p].seen)
               THEN [sync EXCEPT ![p].pc = "delete", ![p].seen = NoBlock]
               ELSE [sync EXCEPT ![p].pc = "listed"]
    /\ UNCHANGED <<now, remote, local, heap, adjustments, calls, strays, destroyed, troubles,
                   escalated, faults>>

\* Redis executes a DEL, whatever the key holds by then.
Deleted ==
    /\ remote' = NoBlock
    /\ faults' = IF Ban(remote) THEN faults \union {"banDeleted"} ELSE faults

\* The DEL is executed, or fails, which the loop ignores.
DeleteExpired(p) ==
    /\ sync[p].pc = "delete"
    /\ sync' = [sync EXCEPT ![p].pc = "listed"]
    /\ \/ Deleted /\ UNCHANGED troubles
       \/ /\ troubles < MaxTroubles /\ troubles' = troubles + 1
          /\ UNCHANGED <<remote, faults>>
    /\ UNCHANGED <<now, local, heap, adjustments, calls, strays, destroyed, escalated>>

DeleteStray ==
    /\ strays > 0 /\ strays' = strays - 1
    /\ Deleted
    /\ UNCHANGED <<now, local, heap, adjustments, calls, sync, destroyed, troubles, escalated>>

\* Mutant of Merged: a block that is no longer in the list stays.
BugKeepsLocal(seen, mine) == IF seen = NoBlock \/ Expired(seen) THEN mine ELSE seen

\* A local block that is not in the list goes, one that is in the list replaces it; but a
\* listed block that has expired meanwhile leaves the local one alone.
Merged(seen, mine) == IF Expired(seen) THEN mine ELSE seen

ApplySync(p) ==
    /\ sync[p].pc = "listed"
    /\ local' = [local EXCEPT ![p] = Merged(sync[p].seen, @)]
    /\ faults' = IF sync[p].stale /\ Ban(local[p]) /\ ~Ban(local'[p])
                 THEN faults \union {"staleSync"} ELSE faults
    /\ sync' = [sync EXCEPT ![p] = NoSync]
    /\ UNCHANGED <<now, remote, heap, adjustments, calls, strays, destroyed, troubles,
                   escalated>>

-----------------------------------------------------------------------------
(* Processes and time *)

ForgetLocal(p) ==
    /\ troubles < MaxTroubles /\ troubles' = troubles + 1
    /\ local' = [local EXCEPT ![p] = NoBlock]
    /\ adjustments' = [adjustments EXCEPT ![p] = 0]
    /\ escalated' = [escalated EXCEPT ![p] = 0]
    /\ faults' = faults \union {"forgotten"} \union (IF Held(p) THEN {"detached"} ELSE {})
    /\ UNCHANGED <<now, remote, heap>>

\* destroy(): the timers stop; calls and a syncBlocks on their way still finish.
Destroy(p) ==
    /\ ~destroyed[p] /\ destroyed' = [destroyed EXCEPT ![p] = TRUE]
    /\ ForgetLocal(p)
    /\ UNCHANGED <<calls, sync, strays>>

\* The process crashes and comes back with a new KeyManager.
Restart(p) ==
    /\ ~destroyed[p] /\ ForgetLocal(p)
    /\ calls' = [c \in DOMAIN calls |->
            IF calls[c].proc # p \/ calls[c].pc = "done" THEN calls[c]
            ELSE [calls[c] EXCEPT !.pc = IF @ = "sent" THEN "orphan" ELSE "done",
                                  !.outcome = "lost"]]
    /\ sync' = [sync EXCEPT ![p] = NoSync]
    /\ strays' = IF sync[p].pc = "delete" THEN strays + 1 ELSE strays
    /\ UNCHANGED destroyed

\* expireDueBlocks runs before every use of blocks, and Redis drops the key at PXAT.
Tick ==
    /\ now < MaxTime /\ now' = now + 1
    /\ local' = [p \in Processes |-> Live(local[p], now')]
    /\ remote' = Live(remote, now')
    /\ UNCHANGED <<heap, adjustments, calls, sync, strays, destroyed, troubles, escalated,
                   faults>>

Continue(c) == ResumeUnblock(c) \/ ResumeDelete(c) \/ ResumeReward(c) \/ ResumePenalty(c)
               \/ Escalate(c)

Next ==
    \/ \E p \in Processes :
          \/ \E d \in BlockTimes : BlockKey(p, d)
          \/ Unblock(p) \/ UnblockAll(p)
          \/ \E op \in {"penalty", "reward"} : Adjust(p, op)
          \/ Delete(p)
          \/ GetAllBlocks(p) \/ ListBlock(p) \/ DeleteExpired(p) \/ ApplySync(p)
          \/ Destroy(p) \/ Restart(p)
    \/ \E c \in DOMAIN calls : Execute(c) \/ FailCall(c) \/ Continue(c)
    \/ DeleteStray \/ Tick

\* The event loop resumes what was answered, the stores answer, and the timer of syncBlocks
\* fires again and again.
Fairness ==
    /\ \A p \in Processes : /\ WF_vars(GetAllBlocks(p)) /\ WF_vars(ListBlock(p))
                             /\ WF_vars(DeleteExpired(p)) /\ WF_vars(ApplySync(p))
    /\ \A c \in 1..MaxCalls : WF_vars(c \in DOMAIN calls /\ (Execute(c) \/ Continue(c)))

Spec == Init /\ [][Next]_vars /\ Fairness

-----------------------------------------------------------------------------
(* Properties *)

Banned(p) == \E c \in DOMAIN calls : /\ calls[c].proc = p /\ calls[c].op = "block"
                                     /\ Ban(calls[c].block) /\ calls[c].outcome = "ok"
Lifting == \E c \in DOMAIN calls :
              \/ calls[c].op \in {"unblock", "unblockAll", "delete"}
              \/ calls[c].op = "block" /\ ~Ban(calls[c].block)

\* The process in which block(key, 0) has resolved rejects the key for ever, as long as
\* nobody unblocks or deletes it or blocks it for a time.
BanHolds == \A p \in Processes : Banned(p) /\ ~Lifting => local[p] # NoBlock

\* Only five things end such a ban: a syncBlocks whose list was read before the block was
\* written, an escalation of another process that replaces it in the shared store, a DEL
\* that getAllBlocks sent for the expired block it had read there before, a setBlock that
\* failed (another process's), and destroy() or a restart.
BanEndsOnlyByRace ==
    faults \cap {"staleSync", "banReplaced", "banDeleted", "setFailed", "forgotten"} = {}
        => BanHolds

\* penalty() and reward() find the adjustment they prepared before their await, unless a
\* delete() was called in the same process, or a destroy() or a restart forgot its state.
AdjustmentSurvivesAwait ==
    \A c \in DOMAIN calls :
        calls[c].outcome = "threw" =>
            \/ "forgotten" \in faults
            \/ \E d \in DOMAIN calls : calls[d].proc = calls[c].proc /\ calls[d].op = "delete"

\* Each escalation of a process is one step longer than the one before, until an unblock or
\* a delete clears the count, whatever windows pass and calls overlap; unless the map of
\* adjustments was changed under a penalty that was about to escalate.
EscalationRemembered ==
    "detached" \notin faults =>
        \A p \in Processes :
            adjustments[p] # 0 => heap[adjustments[p]].violations = escalated[p]

Settled == \A p \in Processes : destroyed[p] \/ local[p] = remote

\* Once the calls have ceased, every process that still runs comes to agree with the shared
\* store for good, whatever was lost, overtaken or restarted before.
Converges == <>[]Settled

=============================================================================
