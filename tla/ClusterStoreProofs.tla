------------------------- MODULE ClusterStoreProofs -------------------------
(***************************************************************************)
(* Proofs about ClusterStore: a shutdown that has resolved is final, a     *)
(* store is missing only after a shutdown, a counted hit is answered, and  *)
(* the workers together are held to the limit.  They rest on one inductive *)
(* invariant about the journey of a request (FlightInv, LastInv, CallInv,  *)
(* SelfInv): from the pipe to `dispatchSerial' to the answer, in one place *)
(* at a time.                                                              *)
(***************************************************************************)
EXTENDS ClusterStore, FiniteSetTheorems, SequenceTheorems, TLAPS

-----------------------------------------------------------------------------
(* What a FIFO channel contains and in which order                         *)

\* Some message of M is in s.
Has(s, M) == \E i \in 1..Len(s) : s[i] \in M

\* After a message of M there is none of N in s.
NoneAfter(s, M, N) == \A i, j \in 1..Len(s) : i < j /\ s[i] \in M => s[j] \notin N

LEMMA EmptyChannel ==
    ASSUME NEW M, NEW N
    PROVE  ~Has(<< >>, M) /\ NoneAfter(<< >>, M, N)
BY DEF Has, NoneAfter

LEMMA ChannelAppend ==
    ASSUME NEW S, NEW s \in Seq(S), NEW x \in S, NEW M, NEW N
    PROVE  /\ Append(s, x) \in Seq(S)
           /\ Has(Append(s, x), M) <=> Has(s, M) \/ x \in M
           /\ NoneAfter(s, M, N) /\ (Has(s, M) => x \notin N) => NoneAfter(Append(s, x), M, N)
<1>1. /\ Append(s, x) \in Seq(S) /\ Len(Append(s, x)) = Len(s) + 1 /\ Len(s) \in Nat
      /\ \A i \in 1..Len(s) : Append(s, x)[i] = s[i]
      /\ Append(s, x)[Len(s) + 1] = x
  BY AppendProperties, LenProperties
<1>2. Has(Append(s, x), M) <=> Has(s, M) \/ x \in M
  BY <1>1 DEF Has
<1>3. ASSUME NoneAfter(s, M, N), Has(s, M) => x \notin N
      PROVE  NoneAfter(Append(s, x), M, N)
  BY <1>1, <1>3 DEF Has, NoneAfter
<1> QED BY <1>1, <1>2, <1>3

LEMMA ChannelTail ==
    ASSUME NEW S, NEW s \in Seq(S), s # << >>, NEW M, NEW N
    PROVE  /\ Tail(s) \in Seq(S) /\ Head(s) \in S
           /\ Has(s, M) <=> Head(s) \in M \/ Has(Tail(s), M)
           /\ NoneAfter(s, M, N) =>
                 /\ NoneAfter(Tail(s), M, N)
                 /\ Head(s) \in M => ~Has(Tail(s), N)
<1>1. /\ Tail(s) \in Seq(S) /\ Head(s) \in S /\ Head(s) = s[1] /\ Len(s) \in Nat /\ Len(s) > 0
      /\ Len(Tail(s)) = Len(s) - 1
      /\ \A i \in 1..Len(Tail(s)) : Tail(s)[i] = s[i + 1]
  BY HeadTailProperties, LenProperties, EmptySeq
<1>2. ASSUME Has(s, M) PROVE Head(s) \in M \/ Has(Tail(s), M)
  <2>1. PICK i \in 1..Len(s) : s[i] \in M
    BY <1>2 DEF Has
  <2>2. CASE i = 1
    BY <1>1, <2>1, <2>2
  <2>3. CASE i # 1
    <3>1. i - 1 \in 1..Len(Tail(s)) /\ (i - 1) + 1 = i
      BY <1>1, <2>1, <2>3
    <3>2. Tail(s)[i - 1] \in M
      BY <1>1, <2>1, <3>1
    <3> QED BY <3>1, <3>2 DEF Has
  <2> QED BY <2>2, <2>3
<1>3. ASSUME Head(s) \in M \/ Has(Tail(s), M) PROVE Has(s, M)
  BY <1>1, <1>3 DEF Has
<1>4. ASSUME NoneAfter(s, M, N) PROVE NoneAfter(Tail(s), M, N)
  <2>1. ASSUME NEW i \in 1..Len(Tail(s)), NEW j \in 1..Len(Tail(s)), i < j, Tail(s)[i] \in M
        PROVE  Tail(s)[j] \notin N
    <3>1. i + 1 \in 1..Len(s) /\ j + 1 \in 1..Len(s) /\ i + 1 < j + 1
      BY <1>1, <2>1
    <3>2. Tail(s)[i] = s[i + 1] /\ Tail(s)[j] = s[j + 1]
      BY <1>1
    <3> QED BY <1>4, <2>1, <3>1, <3>2 DEF NoneAfter
  <2> QED BY <2>1 DEF NoneAfter
<1>5. ASSUME NoneAfter(s, M, N), Head(s) \in M PROVE ~Has(Tail(s), N)
  <2>1. ASSUME NEW j \in 1..Len(Tail(s)) PROVE Tail(s)[j] \notin N
    <3>1. j + 1 \in 1..Len(s) /\ 1 \in 1..Len(s) /\ 1 < j + 1
      BY <1>1
    <3> QED BY <1>1, <1>5, <3>1 DEF NoneAfter
  <2> QED BY <2>1 DEF Has
<1> QED BY <1>1, <1>2, <1>3, <1>4, <1>5

LEMMA ChannelPrefix ==
    ASSUME NEW S, NEW s \in Seq(S), NEW n \in 0..Len(s), NEW M, NEW N
    PROVE  /\ SubSeq(s, 1, n) \in Seq(S)
           /\ Has(SubSeq(s, 1, n), M) => Has(s, M)
           /\ NoneAfter(s, M, N) => NoneAfter(SubSeq(s, 1, n), M, N)
<1>1. Len(s) \in Nat
  BY LenProperties
<1>2. /\ SubSeq(s, 1, n) \in Seq(S) /\ Len(SubSeq(s, 1, n)) = n
      /\ \A i \in 1..n : SubSeq(s, 1, n)[i] = s[i]
  <2>1. SubSeq(s, 1, n) = [i \in 1..n |-> s[i]]
    BY <1>1
  <2>2. \A i \in 1..n : s[i] \in S
    BY <1>1
  <2>3. n \in Nat
    BY <1>1
  <2> QED BY <2>1, <2>2, <2>3
<1>3. 1..n \subseteq 1..Len(s)
  BY <1>1
<1> QED BY <1>2, <1>3 DEF Has, NoneAfter

LEMMA HasWeaker ==
    ASSUME NEW s, NEW M, NEW N, M \subseteq N
    PROVE  Has(s, M) => Has(s, N)
BY DEF Has

-----------------------------------------------------------------------------
(* Types                                                                   *)

ReqKinds == {"increment", "decrement", "reset", "shutdown"}
Pcs == {"idle", "waiting", "pending"} \cup Settled
CallType == [kind : ReqKinds, pc : Pcs]

ReqMsg == [type : {"init"}, call : {"none"}] \cup [type : ReqKinds, call : Calls]
JobMsg == [worker : Workers, msg : ReqMsg]

\* An increment is answered "allowed", "blocked" or "missing", the others otherwise.
AnsMsg == [type : {"init_ack", "init_nack"}]
    \cup [type : {"answer"}, kind : {"increment"}, call : Calls,
          answer : {"allowed", "blocked", "missing"}]
    \cup [type : {"answer"}, kind : ReqKinds \ {"increment"}, call : Calls,
          answer : {"ack", "missing"}]

TypeInv ==
    /\ ready \in [Workers -> {"none", "waiting", "ok", "failed"}]
    /\ alive \in [Workers -> BOOLEAN] /\ shutDown \in [Workers -> BOOLEAN]
    /\ deaf \in [Workers -> BOOLEAN]
    /\ call \in [Workers -> [Calls -> CallType]]
    /\ \A w \in Workers, c \in Calls :
          call[w][c].kind = Kind[c] \/ (Kind[c] = "increment" /\ call[w][c].kind = "decrement")
    /\ toPrimary \in [Workers -> Seq(ReqMsg)]
    /\ toWorker \in [Workers -> Seq(AnsMsg)]
    /\ dispatchSerial \in Seq(JobMsg)
    /\ hits \in Nat \cup {NoStore}
    /\ counted \subseteq Workers \X Calls

LEMMA KindType == \A c \in Calls : Kind[c] \in ReqKinds \ {"decrement"}
BY ClusterAssumption DEF ReqKinds

LEMMA TypeInit == Init => TypeInv
<1> SUFFICES ASSUME Init PROVE TypeInv
  OBVIOUS
<1>1. call \in [Workers -> [Calls -> CallType]]
  <2>1. \A c \in Calls : [kind |-> Kind[c], pc |-> "idle"] \in CallType
    BY KindType DEF CallType, Pcs
  <2>2. [c \in Calls |-> [kind |-> Kind[c], pc |-> "idle"]] \in [Calls -> CallType]
    BY <2>1
  <2> QED BY <2>2 DEF Init
<1>2. \A w \in Workers, c \in Calls : call[w][c].kind = Kind[c]
  BY DEF Init
<1>3. toPrimary \in [Workers -> Seq(ReqMsg)] /\ toWorker \in [Workers -> Seq(AnsMsg)]
  BY DEF Init
<1>4. dispatchSerial \in Seq(JobMsg)
  BY DEF Init
<1> QED BY <1>1, <1>2, <1>3, <1>4 DEF Init, TypeInv

\* A step sets the pc of one call.
LEMMA SetPcValue ==
    ASSUME TypeInv, NEW w \in Workers, NEW c \in Calls, NEW pc \in Pcs, SetPc(w, c, pc)
    PROVE  /\ call' \in [Workers -> [Calls -> CallType]]
           /\ \A v \in Workers, d \in Calls :
                 /\ call'[v][d].kind = call[v][d].kind
                 /\ call'[v][d].pc = IF v = w /\ d = c THEN pc ELSE call[v][d].pc
           /\ \A v \in Workers \ {w} : call'[v] = call[v]
           /\ \A d \in Calls \ {c} : call'[w][d] = call[w][d]
<1>1. call[w][c] \in CallType /\ call \in [Workers -> [Calls -> CallType]]
  BY DEF TypeInv
<1> DEFINE r == [call[w][c] EXCEPT !.pc = pc]
<1>2. r \in CallType /\ r.kind = call[w][c].kind /\ r.pc = pc
  BY <1>1 DEF CallType
<1>3. call' = [call EXCEPT ![w] = [call[w] EXCEPT ![c] = r]]
  BY DEF SetPc
<1> HIDE DEF r
<1>4. call' \in [Workers -> [Calls -> CallType]]
  BY <1>1, <1>2, <1>3
<1>5. \A v \in Workers, d \in Calls : call'[v][d] = IF v = w /\ d = c THEN r ELSE call[v][d]
  BY <1>1, <1>3
<1>6. \A v \in Workers \ {w} : call'[v] = call[v]
  BY <1>1, <1>3
<1> QED BY <1>2, <1>4, <1>5, <1>6

\* Sending appends one message to one pipe.
LEMMA SendValue ==
    ASSUME TypeInv, NEW w \in Workers, NEW m \in ReqMsg, Send(w, m)
    PROVE  /\ toPrimary' \in [Workers -> Seq(ReqMsg)]
           /\ toPrimary'[w] = Append(toPrimary[w], m)
           /\ \A v \in Workers \ {w} : toPrimary'[v] = toPrimary[v]
<1>1. toPrimary \in [Workers -> Seq(ReqMsg)] /\ Append(toPrimary[w], m) \in Seq(ReqMsg)
  BY DEF TypeInv
<1> QED BY <1>1 DEF Send

LEMMA RequestType ==
    ASSUME TypeInv, NEW w \in Workers, NEW c \in Calls
    PROVE  /\ Request(w, c) \in ReqMsg /\ Request(w, c).type = call[w][c].kind
           /\ Request(w, c).call = c /\ Request(w, c).type # "init"
BY DEF TypeInv, CallType, Request, ReqMsg, ReqKinds

LEMMA InitMsgType == [type |-> "init", call |-> "none"] \in ReqMsg
BY DEF ReqMsg

\* Answering appends one message, or none.
LEMMA ReplyValue ==
    ASSUME TypeInv, NEW w \in Workers, NEW m \in AnsMsg, Reply(w, m)
    PROVE  /\ toWorker' \in [Workers -> Seq(AnsMsg)]
           /\ toWorker'[w] = IF alive[w] /\ ~deaf[w] THEN Append(toWorker[w], m) ELSE toWorker[w]
           /\ \A v \in Workers \ {w} : toWorker'[v] = toWorker[v]
<1>1. toWorker \in [Workers -> Seq(AnsMsg)] /\ Append(toWorker[w], m) \in Seq(AnsMsg)
  BY DEF TypeInv
<1> QED BY <1>1 DEF Reply

LEMMA OutcomeType ==
    ASSUME NEW m \in AnsMsg, m.type = "answer"
    PROVE  Outcome(m.kind, m.answer) \in {"allowed", "blocked", "resolved", "rejected"}
BY DEF AnsMsg, Outcome

-----------------------------------------------------------------------------
(* The journey of a request                                                *)

Requests(c) == {m \in ReqMsg : m.type # "init" /\ m.call = c}
Jobs(w) == {e \in JobMsg : e.worker = w}
JobsOf(w, c) == {e \in JobMsg : e.worker = w /\ e.msg \in Requests(c)}
Answers(c) == {m \in AnsMsg : m.type = "answer" /\ m.call = c}

WrongRequests(c, kind) == {m \in Requests(c) : m.type # kind}
WrongJobs(w, c, kind) == {e \in JobsOf(w, c) : e.msg.type # kind}
WrongAnswers(c, kind) == {m \in Answers(c) : m.kind # kind}

\* The request of call c of worker w is in the pipe, queued in the primary, or its
\* answer is on the way back.
Out(w, c) == Has(toPrimary[w], Requests(c))
Queued(w, c) == Has(dispatchSerial, JobsOf(w, c))
Back(w, c) == Has(toWorker[w], Answers(c))

Open == {"pending", "rejected", "timeout"}

\* A call has at most one message under way, in one place, of its own kind, and none
\* before it is sent or after its answer was taken.
FlightInv(w, c) ==
    /\ call[w][c].pc \notin Open => ~Out(w, c) /\ ~Queued(w, c) /\ ~Back(w, c)
    /\ Out(w, c) => ~Queued(w, c) /\ ~Back(w, c)
    /\ Queued(w, c) => ~Back(w, c)
    /\ NoneAfter(toPrimary[w], Requests(c), Requests(c))
    /\ NoneAfter(dispatchSerial, JobsOf(w, c), JobsOf(w, c))
    /\ NoneAfter(toWorker[w], Answers(c), Answers(c))
    /\ ~Has(toPrimary[w], WrongRequests(c, call[w][c].kind))
    /\ ~Has(dispatchSerial, WrongJobs(w, c, call[w][c].kind))
    /\ ~Has(toWorker[w], WrongAnswers(c, call[w][c].kind))

Closing(w, c) == call[w][c].kind = "shutdown" /\ call[w][c].pc = "pending"

\* The pending shutdown request is the last the worker has sent: pipes are FIFO.
LastInv(w, c) ==
    Closing(w, c) =>
      /\ NoneAfter(toPrimary[w], Requests(c), ReqMsg)
      /\ Queued(w, c) => toPrimary[w] = << >>
      /\ NoneAfter(dispatchSerial, JobsOf(w, c), Jobs(w))
      /\ Back(w, c) => toPrimary[w] = << >> /\ ~Has(dispatchSerial, Jobs(w))

\* What a call says of its worker.
CallInv(w, c) ==
    /\ call[w][c].pc = "pending" \/ Out(w, c) \/ Queued(w, c) => ready[w] = "ok"
    /\ call[w][c].kind = "shutdown" /\ (call[w][c].pc = "pending" \/ Out(w, c) \/ Queued(w, c))
          => shutDown[w]
    /\ call[w][c].pc = "pending" /\ shutDown[w] => call[w][c].kind = "shutdown"
    /\ call[w][c].kind = "increment" => call[w][c].pc # "resolved"
    /\ call[w][c].kind = "shutdown" /\ call[w][c].pc = "resolved" => deaf[w]
    /\ Closing(w, c) => \A d \in Calls : Closing(w, d) => d = c

\* The worker itself: a deaf one has failed to start, or its shutdown is final.
SelfInv(w) ==
    /\ shutDown[w] => ready[w] = "ok"
    /\ ready[w] = "failed" => deaf[w]
    /\ deaf[w] => toWorker[w] = << >>
    /\ deaf[w] /\ ready[w] = "ok" => shutDown[w]
    /\ deaf[w] /\ shutDown[w] =>
          /\ \A c \in Calls : call[w][c].pc # "pending"
          /\ toPrimary[w] = << >> /\ ~Has(dispatchSerial, Jobs(w))

WorkerInv(w) == SelfInv(w) /\ \A c \in Calls : FlightInv(w, c) /\ LastInv(w, c) /\ CallInv(w, c)

\* The channels of w, as members of their types.
LEMMA Channels ==
    ASSUME TypeInv, NEW w \in Workers
    PROVE  /\ toPrimary[w] \in Seq(ReqMsg) /\ toWorker[w] \in Seq(AnsMsg)
           /\ dispatchSerial \in Seq(JobMsg)
           /\ ready[w] \in {"none", "waiting", "ok", "failed"}
           /\ shutDown[w] \in BOOLEAN /\ deaf[w] \in BOOLEAN /\ alive[w] \in BOOLEAN
           /\ \A c \in Calls : call[w][c] \in CallType
BY DEF TypeInv

LEMMA WorkerInit == ASSUME Init, NEW w \in Workers PROVE WorkerInv(w)
<1>1. /\ ready[w] = "none" /\ shutDown[w] = FALSE /\ deaf[w] = FALSE
      /\ toPrimary[w] = << >> /\ toWorker[w] = << >> /\ dispatchSerial = << >>
      /\ \A c \in Calls : call[w][c].pc = "idle"
  BY DEF Init
<1>2. \A c \in Calls : ~Out(w, c) /\ ~Queued(w, c) /\ ~Back(w, c) /\ ~Closing(w, c)
  BY <1>1, EmptyChannel DEF Out, Queued, Back, Closing
<1>3. ASSUME NEW c \in Calls PROVE FlightInv(w, c)
  <2>1. /\ ~Has(toPrimary[w], WrongRequests(c, call[w][c].kind))
        /\ ~Has(dispatchSerial, WrongJobs(w, c, call[w][c].kind))
        /\ ~Has(toWorker[w], WrongAnswers(c, call[w][c].kind))
        /\ NoneAfter(toPrimary[w], Requests(c), Requests(c))
        /\ NoneAfter(dispatchSerial, JobsOf(w, c), JobsOf(w, c))
        /\ NoneAfter(toWorker[w], Answers(c), Answers(c))
    BY <1>1, EmptyChannel
  <2> QED BY <1>2, <2>1 DEF FlightInv
<1>4. \A c \in Calls : LastInv(w, c) /\ CallInv(w, c)
  BY <1>1, <1>2 DEF LastInv, CallInv
<1> QED BY <1>1, <1>3, <1>4, EmptyChannel DEF WorkerInv, SelfInv

\* Steps that concern another worker.
LEMMA Unaffected ==
    ASSUME NEW w \in Workers, WorkerInv(w),
           ready'[w] = ready[w], shutDown'[w] = shutDown[w], deaf'[w] = deaf[w],
           call'[w] = call[w], toPrimary'[w] = toPrimary[w], toWorker'[w] = toWorker[w],
           \A M \in SUBSET Jobs(w) : Has(dispatchSerial', M) <=> Has(dispatchSerial, M),
           \A M, N \in SUBSET Jobs(w) :
              NoneAfter(dispatchSerial, M, N) => NoneAfter(dispatchSerial', M, N)
    PROVE  WorkerInv(w)'
<1>1. ASSUME NEW c \in Calls
      PROVE  /\ JobsOf(w, c) \in SUBSET Jobs(w) /\ Jobs(w) \in SUBSET Jobs(w)
             /\ WrongJobs(w, c, call[w][c].kind) \in SUBSET Jobs(w)
  BY DEF JobsOf, Jobs, WrongJobs
<1>2. ASSUME NEW c \in Calls
      PROVE  /\ Out(w, c)' = Out(w, c) /\ Queued(w, c)' = Queued(w, c) /\ Back(w, c)' = Back(w, c)
             /\ Closing(w, c)' = Closing(w, c)
  BY <1>1 DEF Out, Queued, Back, Closing, Has
<1>3. ASSUME NEW c \in Calls PROVE FlightInv(w, c)'
  <2>1. FlightInv(w, c)
    BY DEF WorkerInv
  <2>2. /\ NoneAfter(dispatchSerial', JobsOf(w, c), JobsOf(w, c))
        /\ ~Has(dispatchSerial', WrongJobs(w, c, call[w][c].kind))
    BY <1>1, <2>1 DEF FlightInv
  <2> QED BY <1>2, <2>1, <2>2 DEF FlightInv
<1>4. ASSUME NEW c \in Calls PROVE LastInv(w, c)'
  <2>1. LastInv(w, c)
    BY DEF WorkerInv
  <2>2. /\ NoneAfter(dispatchSerial, JobsOf(w, c), Jobs(w))
              => NoneAfter(dispatchSerial', JobsOf(w, c), Jobs(w))
        /\ Has(dispatchSerial', Jobs(w)) <=> Has(dispatchSerial, Jobs(w))
    BY <1>1
  <2> QED BY <1>2, <2>1, <2>2 DEF LastInv
<1>5. ASSUME NEW c \in Calls PROVE CallInv(w, c)'
  BY <1>2 DEF WorkerInv, CallInv
<1>6. SelfInv(w)'
  <2>1. Has(dispatchSerial', Jobs(w)) <=> Has(dispatchSerial, Jobs(w))
    OBVIOUS
  <2> QED BY <2>1 DEF WorkerInv, SelfInv
<1> QED BY <1>3, <1>4, <1>5, <1>6 DEF WorkerInv

-----------------------------------------------------------------------------
(* Each step keeps the journeys of the worker that takes it                *)

LEMMA NothingThere ==
    ASSUME NEW s, NEW M, NEW N, ~Has(s, M)
    PROVE  NoneAfter(s, M, N)
BY DEF Has, NoneAfter

LEMMA NothingAtAll ==
    ASSUME NEW S, NEW s \in Seq(S), ~Has(s, S)
    PROVE  s = << >>
<1>1. Len(s) \in Nat /\ \A i \in 1..Len(s) : s[i] \in S
  BY LenProperties
<1>2. Len(s) = 0
  <2>1. CASE Len(s) > 0
    <3>1. 1 \in 1..Len(s)
      BY <1>1, <2>1
    <3> QED BY <1>1, <3>1 DEF Has
  <2> QED BY <1>1, <2>1
<1> QED BY <1>2, EmptySeq

\* Nothing wrong is under way where nothing is.
LEMMA NoWrong ==
    ASSUME NEW w \in Workers, NEW c \in Calls, ~Out(w, c), ~Queued(w, c), ~Back(w, c)
    PROVE  \A kind : /\ ~Has(toPrimary[w], WrongRequests(c, kind))
                     /\ ~Has(dispatchSerial, WrongJobs(w, c, kind))
                     /\ ~Has(toWorker[w], WrongAnswers(c, kind))
BY DEF Has, Out, Queued, Back, WrongRequests, WrongJobs, WrongAnswers

\* A step that only moves one call on, and not to "pending".
LEMMA CallStep ==
    ASSUME NEW w \in Workers, NEW c \in Calls, WorkerInv(w),
           ready'[w] = ready[w], shutDown'[w] = shutDown[w], deaf'[w] = deaf[w],
           toPrimary'[w] = toPrimary[w], toWorker'[w] = toWorker[w],
           dispatchSerial' = dispatchSerial,
           \A d \in Calls \ {c} : call'[w][d] = call[w][d],
           call'[w][c].pc \in Open \/ call[w][c].pc \notin Open,
           call'[w][c].pc # "pending",
           \/ call'[w][c].kind = call[w][c].kind
           \/ call[w][c].pc \notin Open /\ call'[w][c].kind = "decrement",
           call'[w][c].kind # "decrement" => call'[w][c].pc \notin {"resolved"} \/
                (call'[w][c].kind = "shutdown" /\ deaf[w])
    PROVE  WorkerInv(w)'
<1>1. \A d \in Calls : /\ Out(w, d)' = Out(w, d) /\ Queued(w, d)' = Queued(w, d)
                       /\ Back(w, d)' = Back(w, d)
  BY DEF Out, Queued, Back, Has
<1>2. /\ SelfInv(w) /\ \A d \in Calls : FlightInv(w, d) /\ LastInv(w, d) /\ CallInv(w, d)
  BY DEF WorkerInv
<1>3. ASSUME NEW d \in Calls, d # c
      PROVE  FlightInv(w, d)' /\ LastInv(w, d)' /\ Closing(w, d)' = Closing(w, d)
  <2>1. call'[w][d] = call[w][d] /\ Closing(w, d)' = Closing(w, d)
    BY <1>3 DEF Closing
  <2> QED BY <1>1, <1>2, <2>1 DEF FlightInv, LastInv
<1>4. ~Closing(w, c)' /\ LastInv(w, c)'
  BY DEF Closing, LastInv
<1>5. FlightInv(w, c)'
  <2>1. CASE call'[w][c].kind = call[w][c].kind
    BY <1>1, <1>2, <2>1 DEF FlightInv
  <2>2. CASE call[w][c].pc \notin Open /\ call'[w][c].kind = "decrement"
    <3>1. ~Out(w, c) /\ ~Queued(w, c) /\ ~Back(w, c)
      BY <1>2, <2>2 DEF FlightInv
    <3>2. /\ ~Has(toPrimary[w], WrongRequests(c, "decrement"))
          /\ ~Has(dispatchSerial, WrongJobs(w, c, "decrement"))
          /\ ~Has(toWorker[w], WrongAnswers(c, "decrement"))
      BY <3>1, NoWrong
    <3> QED BY <1>1, <1>2, <2>2, <3>1, <3>2 DEF FlightInv
  <2> QED BY <2>1, <2>2
<1>6. ASSUME NEW d \in Calls PROVE CallInv(w, d)'
  <2>1. CASE d = c
    BY <1>1, <1>2, <1>4, <2>1 DEF CallInv, FlightInv
  <2>2. CASE d # c
    BY <1>1, <1>2, <1>3, <1>4, <2>2 DEF CallInv, Closing
  <2> QED BY <2>1, <2>2
<1>7. SelfInv(w)'
  <2>1. deaf[w] /\ shutDown[w] => \A d \in Calls : call'[w][d].pc # "pending"
    BY <1>2 DEF SelfInv
  <2> QED BY <1>2, <2>1 DEF SelfInv
<1> QED BY <1>3, <1>4, <1>5, <1>6, <1>7 DEF WorkerInv

LEMMA SendAppends ==
    ASSUME TypeInv, NEW w \in Workers, NEW m \in ReqMsg, Send(w, m)
    PROVE  /\ \A M : Has(toPrimary'[w], M) <=> Has(toPrimary[w], M) \/ m \in M
           /\ \A M, N : NoneAfter(toPrimary[w], M, N) /\ (Has(toPrimary[w], M) => m \notin N)
                           => NoneAfter(toPrimary'[w], M, N)
<1>1. toPrimary'[w] = Append(toPrimary[w], m) /\ toPrimary[w] \in Seq(ReqMsg)
  BY SendValue, Channels
<1>2. ASSUME NEW M, NEW N
      PROVE  /\ Has(Append(toPrimary[w], m), M) <=> Has(toPrimary[w], M) \/ m \in M
             /\ NoneAfter(toPrimary[w], M, N) /\ (Has(toPrimary[w], M) => m \notin N)
                   => NoneAfter(Append(toPrimary[w], m), M, N)
  BY <1>1, ChannelAppend
<1> QED BY <1>1, <1>2

\* A request is sent by a worker that is not shutting down.
LEMMA AskStep ==
    ASSUME TypeInv, NEW w \in Workers, NEW c \in Calls, WorkerInv(w),
           ready[w] = "ok", ~shutDown[w], call[w][c].kind # "shutdown", call[w][c].pc \notin Open,
           SetPc(w, c, "pending"), Send(w, Request(w, c)),
           UNCHANGED <<ready, shutDown, deaf, toWorker, dispatchSerial>>
    PROVE  WorkerInv(w)'
<1> DEFINE m == Request(w, c)
<1>0. /\ SelfInv(w) /\ \A d \in Calls : FlightInv(w, d) /\ LastInv(w, d) /\ CallInv(w, d)
  BY DEF WorkerInv
<1>1. m \in ReqMsg /\ m.type = call[w][c].kind /\ m.call = c /\ m.type # "init"
  BY RequestType
<1>2. /\ \A d \in Calls : call'[w][d].kind = call[w][d].kind
      /\ \A d \in Calls \ {c} : call'[w][d] = call[w][d]
      /\ call'[w][c].pc = "pending"
  BY SetPcValue DEF Pcs
<1>3. /\ \A M : Has(toPrimary'[w], M) <=> Has(toPrimary[w], M) \/ m \in M
      /\ \A M, N : NoneAfter(toPrimary[w], M, N) /\ (Has(toPrimary[w], M) => m \notin N)
                      => NoneAfter(toPrimary'[w], M, N)
  BY <1>1, SendAppends
<1> HIDE DEF m
<1>4. \A d \in Calls : Queued(w, d)' = Queued(w, d) /\ Back(w, d)' = Back(w, d)
  BY DEF Queued, Back, Has
<1>5. ASSUME NEW d \in Calls, d # c PROVE FlightInv(w, d)' /\ Out(w, d)' = Out(w, d)
  <2>1. m \notin Requests(d) /\ m \notin WrongRequests(d, call[w][d].kind)
    BY <1>1, <1>5 DEF Requests, WrongRequests
  <2>2. /\ Has(toPrimary'[w], Requests(d)) <=> Has(toPrimary[w], Requests(d))
        /\ Has(toPrimary'[w], WrongRequests(d, call[w][d].kind))
             <=> Has(toPrimary[w], WrongRequests(d, call[w][d].kind))
    BY <1>3, <2>1
  <2>5. Out(w, d)' = Out(w, d)
    BY <2>2 DEF Out, Requests, Has
  <2>3. NoneAfter(toPrimary'[w], Requests(d), Requests(d))
    BY <1>0, <1>1, <1>3, <2>1 DEF FlightInv
  <2> QED BY <1>0, <1>2, <1>4, <1>5, <2>2, <2>3, <2>5 DEF FlightInv
<1>6. FlightInv(w, c)'
  <2>1. ~Out(w, c) /\ ~Queued(w, c) /\ ~Back(w, c)
    BY <1>0 DEF FlightInv
  <2>2. m \notin WrongRequests(c, call[w][c].kind)
    BY <1>1 DEF WrongRequests
  <2>3. ~Has(toPrimary'[w], WrongRequests(c, call[w][c].kind))
    BY <1>0, <1>1, <1>3, <2>2 DEF FlightInv
  <2>4. NoneAfter(toPrimary'[w], Requests(c), Requests(c))
    BY <1>0, <1>1, <1>3, <2>1 DEF FlightInv, Out
  <2> QED BY <1>0, <1>2, <1>4, <2>1, <2>3, <2>4 DEF FlightInv, Open
<1>7. \A d \in Calls : ~Closing(w, d)'
  BY <1>0, <1>2 DEF CallInv, Closing
<1>8. ASSUME NEW d \in Calls PROVE CallInv(w, d)'
  <2>1. CASE d = c
    BY <1>2, <1>7, <2>1 DEF CallInv
  <2>2. CASE d # c
    BY <1>0, <1>2, <1>4, <1>5, <1>7, <2>2 DEF CallInv
  <2> QED BY <2>1, <2>2
<1>9. SelfInv(w)'
  BY <1>0 DEF SelfInv
<1> QED BY <1>5, <1>6, <1>7, <1>8, <1>9 DEF WorkerInv, LastInv

\* A shutdown request is sent; every other pending call is rejected.
LEMMA ShutdownStep ==
    ASSUME TypeInv, NEW w \in Workers, NEW c \in Calls, WorkerInv(w),
           ready[w] \in {"ok", "failed"}, ~deaf[w], call[w][c].kind = "shutdown",
           call[w][c].pc \notin Open, shutDown'[w] = TRUE,
           \A d \in Calls : /\ call'[w][d].kind = call[w][d].kind
                            /\ call'[w][d].pc = IF d = c THEN "pending"
                                                ELSE IF call[w][d].pc = "pending" THEN "rejected"
                                                ELSE call[w][d].pc,
           Send(w, Request(w, c)), UNCHANGED <<ready, deaf, toWorker, dispatchSerial>>
    PROVE  WorkerInv(w)'
<1> DEFINE m == Request(w, c)
<1>0. /\ SelfInv(w) /\ \A d \in Calls : FlightInv(w, d) /\ LastInv(w, d) /\ CallInv(w, d)
  BY DEF WorkerInv
<1>1. m \in ReqMsg /\ m.type = call[w][c].kind /\ m.call = c /\ m.type # "init"
  BY RequestType
<1>2. ready[w] = "ok"
  BY <1>0 DEF SelfInv
<1>3. /\ \A M : Has(toPrimary'[w], M) <=> Has(toPrimary[w], M) \/ m \in M
      /\ \A M, N : NoneAfter(toPrimary[w], M, N) /\ (Has(toPrimary[w], M) => m \notin N)
                      => NoneAfter(toPrimary'[w], M, N)
  BY <1>1, SendAppends
<1> HIDE DEF m
<1>4. \A d \in Calls : Queued(w, d)' = Queued(w, d) /\ Back(w, d)' = Back(w, d)
  BY DEF Queued, Back, Has
<1>5. ASSUME NEW d \in Calls, d # c PROVE FlightInv(w, d)' /\ Out(w, d)' = Out(w, d)
  <2>1. m \notin Requests(d) /\ m \notin WrongRequests(d, call[w][d].kind)
    BY <1>1, <1>5 DEF Requests, WrongRequests
  <2>2. /\ Has(toPrimary'[w], Requests(d)) <=> Has(toPrimary[w], Requests(d))
        /\ Has(toPrimary'[w], WrongRequests(d, call[w][d].kind))
             <=> Has(toPrimary[w], WrongRequests(d, call[w][d].kind))
    BY <1>3, <2>1
  <2>5. Out(w, d)' = Out(w, d)
    BY <2>2 DEF Out, Requests, Has
  <2>3. NoneAfter(toPrimary'[w], Requests(d), Requests(d))
    BY <1>0, <1>1, <1>3, <2>1 DEF FlightInv
  <2>4. call'[w][d].pc \in Open <=> call[w][d].pc \in Open
    BY <1>5 DEF Open
  <2> QED BY <1>0, <1>4, <1>5, <2>2, <2>3, <2>4, <2>5 DEF FlightInv
<1>6. ~Out(w, c) /\ ~Queued(w, c) /\ ~Back(w, c)
  BY <1>0 DEF FlightInv
<1>7. FlightInv(w, c)'
  <2>2. m \notin WrongRequests(c, call[w][c].kind)
    BY <1>1 DEF WrongRequests
  <2>3. ~Has(toPrimary'[w], WrongRequests(c, call[w][c].kind))
    BY <1>0, <1>1, <1>3, <2>2 DEF FlightInv
  <2>4. NoneAfter(toPrimary'[w], Requests(c), Requests(c))
    BY <1>0, <1>1, <1>3, <1>6 DEF FlightInv, Out
  <2> QED BY <1>0, <1>4, <1>6, <2>3, <2>4 DEF FlightInv, Open
<1>8. \A d \in Calls : Closing(w, d)' => d = c
  BY DEF Closing
<1>9. LastInv(w, c)'
  <2>1. NoneAfter(toPrimary[w], Requests(c), ReqMsg) /\ ~Has(toPrimary[w], Requests(c))
    BY <1>6, NothingThere DEF Out
  <2>2. NoneAfter(toPrimary'[w], Requests(c), ReqMsg)
    BY <1>1, <1>3, <2>1
  <2>3. NoneAfter(dispatchSerial, JobsOf(w, c), Jobs(w))
    BY <1>6, NothingThere DEF Queued
  <2> QED BY <1>4, <1>6, <2>2, <2>3 DEF LastInv
<1>10. ASSUME NEW d \in Calls PROVE CallInv(w, d)'
  <2>1. CASE d = c
    BY <1>2, <1>8, <2>1 DEF CallInv
  <2>2. CASE d # c
    BY <1>0, <1>2, <1>4, <1>5, <1>8, <2>2 DEF CallInv, Closing
  <2> QED BY <2>1, <2>2
<1>11. SelfInv(w)'
  BY <1>0, <1>2 DEF SelfInv
<1> QED BY <1>5, <1>7, <1>8, <1>9, <1>10, <1>11 DEF WorkerInv, LastInv

LEMMA ConstructStep ==
    ASSUME TypeInv, NEW w \in Workers, WorkerInv(w), Construct(w)
    PROVE  WorkerInv(w)'
<1> DEFINE m == [type |-> "init", call |-> "none"]
<1>0. /\ SelfInv(w) /\ \A d \in Calls : FlightInv(w, d) /\ LastInv(w, d) /\ CallInv(w, d)
  BY DEF WorkerInv
<1>1. /\ ready[w] = "none" /\ ready'[w] = "waiting"
      /\ UNCHANGED <<shutDown, deaf, call, toWorker, dispatchSerial>>
  BY DEF Construct, TypeInv
<1>2. m \in ReqMsg /\ Send(w, m) /\ \A d \in Calls : \A k : m \notin Requests(d) /\ m \notin WrongRequests(d, k)
  BY InitMsgType DEF Construct, Requests, WrongRequests
<1> HIDE DEF m
<1>3. /\ \A M : Has(toPrimary'[w], M) <=> Has(toPrimary[w], M) \/ m \in M
      /\ \A M, N : NoneAfter(toPrimary[w], M, N) /\ (Has(toPrimary[w], M) => m \notin N)
                      => NoneAfter(toPrimary'[w], M, N)
  BY <1>2, SendAppends
<1>4. ASSUME NEW d \in Calls
      PROVE  /\ ~Out(w, d) /\ ~Queued(w, d) /\ call[w][d].pc # "pending"
             /\ ~Out(w, d)' /\ ~Queued(w, d)' /\ Back(w, d)' = Back(w, d)
             /\ ~Closing(w, d)'
  <2>1. ~Out(w, d) /\ ~Queued(w, d) /\ call[w][d].pc # "pending"
    BY <1>0, <1>1 DEF CallInv
  <2>2. ~Has(toPrimary'[w], Requests(d))
    BY <1>2, <1>3, <2>1 DEF Out
  <2> QED BY <1>1, <2>1, <2>2 DEF Out, Queued, Back, Has, Closing
<1>5. ASSUME NEW d \in Calls PROVE FlightInv(w, d)'
  <2>1. /\ ~Has(toPrimary'[w], WrongRequests(d, call[w][d].kind))
        /\ NoneAfter(toPrimary'[w], Requests(d), Requests(d))
    BY <1>0, <1>2, <1>3 DEF FlightInv
  <2> QED BY <1>0, <1>1, <1>4, <2>1 DEF FlightInv
<1>6. \A d \in Calls : LastInv(w, d)' /\ CallInv(w, d)'
  BY <1>0, <1>1, <1>4 DEF LastInv, CallInv
<1>7. SelfInv(w)'
  BY <1>0, <1>1 DEF SelfInv
<1> QED BY <1>5, <1>6, <1>7 DEF WorkerInv

LEMMA InitTimeoutStep ==
    ASSUME TypeInv, NEW w \in Workers, WorkerInv(w), InitTimeout(w)
    PROVE  WorkerInv(w)'
<1>0. /\ SelfInv(w) /\ \A d \in Calls : FlightInv(w, d) /\ LastInv(w, d) /\ CallInv(w, d)
  BY DEF WorkerInv
<1>1. /\ ready[w] = "waiting" /\ ready'[w] = "failed" /\ deaf'[w] = TRUE /\ toWorker'[w] = << >>
      /\ UNCHANGED <<shutDown, call, toPrimary, dispatchSerial>>
  BY DEF InitTimeout, TypeInv
<1>2. ASSUME NEW d \in Calls
      PROVE  /\ ~Out(w, d) /\ ~Queued(w, d) /\ call[w][d].pc # "pending"
             /\ ~Out(w, d)' /\ ~Queued(w, d)' /\ ~Back(w, d)' /\ ~Closing(w, d)'
  <2>1. ~Out(w, d) /\ ~Queued(w, d) /\ call[w][d].pc # "pending"
    BY <1>0, <1>1 DEF CallInv
  <2> QED BY <1>1, <2>1, EmptyChannel DEF Out, Queued, Back, Closing
<1>3. ASSUME NEW d \in Calls PROVE FlightInv(w, d)'
  <2>1. /\ ~Has(toWorker'[w], WrongAnswers(d, call[w][d].kind))
        /\ NoneAfter(toWorker'[w], Answers(d), Answers(d))
    BY <1>1, EmptyChannel
  <2> QED BY <1>0, <1>1, <1>2, <2>1 DEF FlightInv
<1>4. \A d \in Calls : LastInv(w, d)' /\ CallInv(w, d)'
  BY <1>0, <1>1, <1>2 DEF LastInv, CallInv
<1>5. SelfInv(w)'
  BY <1>0, <1>1 DEF SelfInv
<1> QED BY <1>3, <1>4, <1>5 DEF WorkerInv

LEMMA CrashStep ==
    ASSUME TypeInv, NEW w \in Workers, WorkerInv(w), Crash(w)
    PROVE  WorkerInv(w)'
<1>0. /\ SelfInv(w) /\ \A d \in Calls : FlightInv(w, d) /\ LastInv(w, d) /\ CallInv(w, d)
  BY DEF WorkerInv
<1>1. /\ toWorker'[w] = << >> /\ UNCHANGED <<ready, shutDown, deaf, call, dispatchSerial>>
  BY DEF Crash, TypeInv
<1>2. PICK n \in 0..Len(toPrimary[w]) : toPrimary'[w] = SubSeq(toPrimary[w], 1, n)
  BY DEF Crash, TypeInv
<1>3. ASSUME NEW M, NEW N
      PROVE  /\ Has(toPrimary'[w], M) => Has(toPrimary[w], M)
             /\ NoneAfter(toPrimary[w], M, N) => NoneAfter(toPrimary'[w], M, N)
  <2>1. toPrimary[w] \in Seq(ReqMsg)
    BY Channels
  <2> QED BY <1>2, <2>1, ChannelPrefix
<1>4. toPrimary[w] = << >> => toPrimary'[w] = << >>
  BY <1>2
<1>5. ASSUME NEW d \in Calls
      PROVE  /\ Out(w, d)' => Out(w, d)
             /\ Queued(w, d)' = Queued(w, d) /\ ~Back(w, d)' /\ Closing(w, d)' = Closing(w, d)
  <2>1. Has(toPrimary'[w], Requests(d)) => Out(w, d)
    BY <1>3 DEF Out
  <2> QED BY <1>1, <2>1, EmptyChannel DEF Out, Queued, Back, Closing
<1>6. ASSUME NEW d \in Calls PROVE FlightInv(w, d)'
  <2>1. /\ ~Has(toWorker'[w], WrongAnswers(d, call[w][d].kind))
        /\ NoneAfter(toWorker'[w], Answers(d), Answers(d))
    BY <1>1, EmptyChannel
  <2>2. /\ ~Has(toPrimary'[w], WrongRequests(d, call[w][d].kind))
        /\ NoneAfter(toPrimary'[w], Requests(d), Requests(d))
    BY <1>0, <1>3 DEF FlightInv
  <2> QED BY <1>0, <1>1, <1>5, <2>1, <2>2 DEF FlightInv
<1>7. ASSUME NEW d \in Calls PROVE LastInv(w, d)'
  <2>1. NoneAfter(toPrimary[w], Requests(d), ReqMsg) => NoneAfter(toPrimary'[w], Requests(d), ReqMsg)
    BY <1>3
  <2> QED BY <1>0, <1>1, <1>4, <1>5, <2>1 DEF LastInv
<1>8. ASSUME NEW d \in Calls PROVE CallInv(w, d)'
  BY <1>0, <1>1, <1>5 DEF CallInv
<1>9. SelfInv(w)'
  BY <1>0, <1>1, <1>4 DEF SelfInv
<1> QED BY <1>6, <1>7, <1>8, <1>9 DEF WorkerInv

\* The message at the head of the pipe is queued, or lost.
LEMMA ArriveStep ==
    ASSUME TypeInv, NEW w \in Workers, WorkerInv(w), Arrive(w)
    PROVE  WorkerInv(w)'
<1> DEFINE m == Head(toPrimary[w])
           e == [worker |-> w, msg |-> m]
<1>0. /\ SelfInv(w) /\ \A d \in Calls : FlightInv(w, d) /\ LastInv(w, d) /\ CallInv(w, d)
  BY DEF WorkerInv
<1>1. /\ UNCHANGED <<ready, shutDown, deaf, call, toWorker>>
      /\ toPrimary[w] # << >> /\ toPrimary'[w] = Tail(toPrimary[w])
      /\ dispatchSerial' = dispatchSerial \/ dispatchSerial' = Append(dispatchSerial, e)
      /\ toPrimary[w] \in Seq(ReqMsg) /\ dispatchSerial \in Seq(JobMsg)
  BY Channels DEF Arrive, TypeInv, workerVars
<1>2. m \in ReqMsg /\ e \in JobMsg
  BY <1>1, ChannelTail DEF JobMsg
<1>3. ASSUME NEW M, NEW N
      PROVE  /\ Has(toPrimary[w], M) <=> m \in M \/ Has(toPrimary'[w], M)
             /\ NoneAfter(toPrimary[w], M, N) =>
                  /\ NoneAfter(toPrimary'[w], M, N)
                  /\ m \in M => ~Has(toPrimary'[w], N)
  <2> DEFINE s == toPrimary[w]
  <2>1. s \in Seq(ReqMsg) /\ s # << >> /\ toPrimary'[w] = Tail(s)
    BY <1>1
  <2> HIDE DEF s
  <2>2. /\ Has(s, M) <=> Head(s) \in M \/ Has(Tail(s), M)
        /\ NoneAfter(s, M, N) =>
             /\ NoneAfter(Tail(s), M, N)
             /\ Head(s) \in M => ~Has(Tail(s), N)
    BY <2>1, ChannelTail
  <2> QED BY <2>1, <2>2 DEF s
<1> HIDE DEF m
<1>4. ASSUME NEW M, NEW N
      PROVE  /\ Has(dispatchSerial', M) => Has(dispatchSerial, M) \/ e \in M
             /\ NoneAfter(dispatchSerial, M, N) /\ (Has(dispatchSerial, M) => e \notin N)
                  => NoneAfter(dispatchSerial', M, N)
  <2> HIDE DEF e
  <2>1. /\ Has(Append(dispatchSerial, e), M) <=> Has(dispatchSerial, M) \/ e \in M
        /\ NoneAfter(dispatchSerial, M, N) /\ (Has(dispatchSerial, M) => e \notin N)
             => NoneAfter(Append(dispatchSerial, e), M, N)
    BY <1>1, <1>2, ChannelAppend
  <2> QED BY <1>1, <2>1
<1>5. e.worker = w /\ e.msg = m
  OBVIOUS
<1> HIDE DEF e
<1>6. ASSUME NEW d \in Calls
      PROVE  /\ Out(w, d)' => Out(w, d) /\ m \notin Requests(d)
             /\ Queued(w, d)' => Queued(w, d) \/ (Out(w, d) /\ m \in Requests(d))
             /\ Back(w, d)' = Back(w, d) /\ Closing(w, d)' = Closing(w, d)
  <2>1. Has(toPrimary'[w], Requests(d)) => Out(w, d) /\ m \notin Requests(d)
    BY <1>0, <1>3 DEF Out, FlightInv
  <2>2. Has(dispatchSerial', JobsOf(w, d)) => Has(dispatchSerial, JobsOf(w, d)) \/ e \in JobsOf(w, d)
    BY <1>4
  <2>3. e \in JobsOf(w, d) => m \in Requests(d)
    BY <1>5 DEF JobsOf
  <2>4. m \in Requests(d) => Has(toPrimary[w], Requests(d))
    BY <1>3
  <2>5. Queued(w, d)' => Queued(w, d) \/ (Out(w, d) /\ m \in Requests(d))
    BY <2>2, <2>3, <2>4 DEF Queued, Out, JobsOf, Requests
  <2>6. Out(w, d)' => Out(w, d) /\ m \notin Requests(d)
    BY <2>1 DEF Out, Requests
  <2> QED BY <1>1, <2>5, <2>6 DEF Back, Closing
<1>7. ASSUME NEW d \in Calls PROVE FlightInv(w, d)'
  <2>1. /\ ~Has(toPrimary'[w], WrongRequests(d, call[w][d].kind))
        /\ NoneAfter(toPrimary'[w], Requests(d), Requests(d))
        /\ m \notin WrongRequests(d, call[w][d].kind)
    BY <1>0, <1>3 DEF FlightInv
  <2>2. e \notin WrongJobs(w, d, call[w][d].kind)
    BY <1>5, <2>1 DEF WrongJobs, JobsOf, WrongRequests
  <2>3. ~Has(dispatchSerial', WrongJobs(w, d, call[w][d].kind))
    BY <1>0, <1>4, <2>2 DEF FlightInv
  <2>4. NoneAfter(dispatchSerial', JobsOf(w, d), JobsOf(w, d))
    <3>1. Has(dispatchSerial, JobsOf(w, d)) => e \notin JobsOf(w, d)
      <4>1. m \in Requests(d) => ~Has(dispatchSerial, JobsOf(w, d))
        BY <1>0, <1>3 DEF FlightInv, Out, Queued
      <4> QED BY <1>5, <4>1 DEF JobsOf
    <3> QED BY <1>0, <1>4, <3>1 DEF FlightInv
  <2>5. /\ call[w][d].pc \notin Open => ~Out(w, d)' /\ ~Queued(w, d)' /\ ~Back(w, d)'
        /\ Out(w, d)' => ~Queued(w, d)' /\ ~Back(w, d)'
        /\ Queued(w, d)' => ~Back(w, d)'
    BY <1>0, <1>6 DEF FlightInv
  <2> QED BY <1>0, <1>1, <2>1, <2>3, <2>4, <2>5 DEF FlightInv
<1>8. ASSUME NEW d \in Calls PROVE LastInv(w, d)'
  <2> SUFFICES ASSUME Closing(w, d)
               PROVE  /\ NoneAfter(toPrimary'[w], Requests(d), ReqMsg)
                      /\ Queued(w, d)' => toPrimary'[w] = << >>
                      /\ NoneAfter(dispatchSerial', JobsOf(w, d), Jobs(w))
                      /\ ~Back(w, d)'
    BY <1>6 DEF LastInv
  <2>1. LastInv(w, d)
    BY <1>0
  <2>2. ~Queued(w, d) /\ ~Back(w, d)
    BY <1>1, <2>1 DEF LastInv
  <2>3. /\ NoneAfter(toPrimary'[w], Requests(d), ReqMsg)
        /\ m \in Requests(d) => ~Has(toPrimary'[w], ReqMsg)
    BY <1>3, <2>1 DEF LastInv
  <2>4. toPrimary'[w] \in Seq(ReqMsg)
    BY <1>1, ChannelTail
  <2>5. Queued(w, d)' => toPrimary'[w] = << >>
    BY <1>6, <2>2, <2>3, <2>4, NothingAtAll
  <2>6. NoneAfter(dispatchSerial', JobsOf(w, d), Jobs(w))
    BY <1>4, <2>1, <2>2 DEF LastInv, Queued
  <2> QED BY <1>6, <2>2, <2>3, <2>5, <2>6
<1>9. ASSUME NEW d \in Calls PROVE CallInv(w, d)'
  BY <1>0, <1>1, <1>6 DEF CallInv
<1>10. SelfInv(w)'
  BY <1>0, <1>1 DEF SelfInv
<1> QED BY <1>7, <1>8, <1>9, <1>10 DEF WorkerInv

\* The primary takes a job of w and answers with a, or not at all.
LEMMA DispatchStep ==
    ASSUME TypeInv, NEW w \in Workers, WorkerInv(w), NEW a \in AnsMsg,
           dispatchSerial # << >>, dispatchSerial' = Tail(dispatchSerial),
           Head(dispatchSerial).worker = w,
           a.type = "answer" =>
              /\ Head(dispatchSerial).msg.type # "init"
              /\ a.call = Head(dispatchSerial).msg.call /\ a.kind = Head(dispatchSerial).msg.type,
           toWorker'[w] = toWorker[w] \/ (~deaf[w] /\ toWorker'[w] = Append(toWorker[w], a)),
           UNCHANGED <<ready, shutDown, deaf, call, toPrimary>>
    PROVE  WorkerInv(w)'
<1> DEFINE e == Head(dispatchSerial)
<1>0. /\ SelfInv(w) /\ \A d \in Calls : FlightInv(w, d) /\ LastInv(w, d) /\ CallInv(w, d)
  BY DEF WorkerInv
<1>1. toWorker[w] \in Seq(AnsMsg) /\ dispatchSerial \in Seq(JobMsg)
  BY Channels
<1>2. ASSUME NEW M, NEW N
      PROVE  /\ Has(dispatchSerial, M) <=> e \in M \/ Has(dispatchSerial', M)
             /\ NoneAfter(dispatchSerial, M, N) =>
                  /\ NoneAfter(dispatchSerial', M, N)
                  /\ e \in M => ~Has(dispatchSerial', N)
  <2>1. /\ Has(dispatchSerial, M) <=> e \in M \/ Has(Tail(dispatchSerial), M)
        /\ NoneAfter(dispatchSerial, M, N) =>
             /\ NoneAfter(Tail(dispatchSerial), M, N)
             /\ e \in M => ~Has(Tail(dispatchSerial), N)
    BY <1>1, ChannelTail
  <2> QED BY <2>1
<1>3. e \in JobMsg /\ e \in Jobs(w)
  BY <1>1, ChannelTail DEF Jobs
<1>4. \A d \in Calls : a \in Answers(d) => e \in JobsOf(w, d) /\ a.kind = e.msg.type
  BY <1>3 DEF Answers, JobsOf, Jobs, Requests, JobMsg
<1> HIDE DEF e
<1>5. ASSUME NEW M, NEW N
      PROVE  /\ Has(toWorker'[w], M) => Has(toWorker[w], M) \/ a \in M
             /\ NoneAfter(toWorker[w], M, N) /\ (Has(toWorker[w], M) => a \notin N)
                  => NoneAfter(toWorker'[w], M, N)
  <2>1. /\ Has(Append(toWorker[w], a), M) <=> Has(toWorker[w], M) \/ a \in M
        /\ NoneAfter(toWorker[w], M, N) /\ (Has(toWorker[w], M) => a \notin N)
             => NoneAfter(Append(toWorker[w], a), M, N)
    BY <1>1, ChannelAppend
  <2> QED BY <2>1
<1>6. ASSUME NEW d \in Calls
      PROVE  /\ Queued(w, d)' => Queued(w, d) /\ e \notin JobsOf(w, d)
             /\ Back(w, d)' => Back(w, d) \/ (Queued(w, d) /\ e \in JobsOf(w, d))
             /\ Out(w, d)' = Out(w, d) /\ Closing(w, d)' = Closing(w, d)
  <2>1. Has(dispatchSerial', JobsOf(w, d)) => Has(dispatchSerial, JobsOf(w, d)) /\ e \notin JobsOf(w, d)
    BY <1>0, <1>2 DEF FlightInv
  <2>2. Has(toWorker'[w], Answers(d)) => Has(toWorker[w], Answers(d)) \/ a \in Answers(d)
    BY <1>5
  <2>3. e \in JobsOf(w, d) => Has(dispatchSerial, JobsOf(w, d))
    BY <1>2
  <2>4. Queued(w, d)' => Queued(w, d) /\ e \notin JobsOf(w, d)
    BY <2>1 DEF Queued, JobsOf, Requests
  <2>5. Back(w, d)' => Back(w, d) \/ (Queued(w, d) /\ e \in JobsOf(w, d))
    BY <1>4, <2>2, <2>3 DEF Back, Queued, Answers
  <2> QED BY <2>4, <2>5 DEF Out, Closing
<1>7. ASSUME NEW d \in Calls PROVE FlightInv(w, d)'
  <2>1. /\ ~Has(dispatchSerial', WrongJobs(w, d, call[w][d].kind))
        /\ NoneAfter(dispatchSerial', JobsOf(w, d), JobsOf(w, d))
        /\ e \notin WrongJobs(w, d, call[w][d].kind)
    BY <1>0, <1>2 DEF FlightInv
  <2>2. a \notin WrongAnswers(d, call[w][d].kind)
    BY <1>4, <2>1 DEF WrongJobs, WrongAnswers
  <2>3. ~Has(toWorker'[w], WrongAnswers(d, call[w][d].kind))
    BY <1>0, <1>5, <2>2 DEF FlightInv
  <2>4. NoneAfter(toWorker'[w], Answers(d), Answers(d))
    <3>1. Has(toWorker[w], Answers(d)) => a \notin Answers(d)
      <4>1. e \in JobsOf(w, d) => ~Has(toWorker[w], Answers(d))
        BY <1>0, <1>2 DEF FlightInv, Queued, Back
      <4> QED BY <1>4, <4>1
    <3> QED BY <1>0, <1>5, <3>1 DEF FlightInv
  <2>5. /\ call[w][d].pc \notin Open => ~Out(w, d)' /\ ~Queued(w, d)' /\ ~Back(w, d)'
        /\ Out(w, d)' => ~Queued(w, d)' /\ ~Back(w, d)'
        /\ Queued(w, d)' => ~Back(w, d)'
    BY <1>0, <1>6 DEF FlightInv
  <2> QED BY <1>0, <2>1, <2>3, <2>4, <2>5 DEF FlightInv
<1>8. ASSUME NEW d \in Calls PROVE LastInv(w, d)'
  <2> SUFFICES ASSUME Closing(w, d)
               PROVE  /\ NoneAfter(toPrimary[w], Requests(d), ReqMsg)
                      /\ Queued(w, d)' => toPrimary[w] = << >>
                      /\ NoneAfter(dispatchSerial', JobsOf(w, d), Jobs(w))
                      /\ Back(w, d)' => toPrimary[w] = << >> /\ ~Has(dispatchSerial', Jobs(w))
    BY <1>6 DEF LastInv, Jobs, JobsOf, Requests
  <2>1. LastInv(w, d)
    BY <1>0
  <2>2. Has(dispatchSerial, Jobs(w))
    BY <1>2, <1>3
  <2>3. ~Back(w, d)
    BY <2>1, <2>2 DEF LastInv
  <2>4. /\ NoneAfter(dispatchSerial', JobsOf(w, d), Jobs(w))
        /\ e \in JobsOf(w, d) => ~Has(dispatchSerial', Jobs(w))
    BY <1>2, <2>1 DEF LastInv
  <2> QED BY <1>6, <2>1, <2>3, <2>4 DEF LastInv
<1>9. ASSUME NEW d \in Calls PROVE CallInv(w, d)'
  BY <1>0, <1>6 DEF CallInv
<1>10. SelfInv(w)'
  <2>1. Has(dispatchSerial, Jobs(w))
    BY <1>2, <1>3
  <2>2. ~(deaf[w] /\ shutDown[w])
    BY <1>0, <2>1 DEF SelfInv
  <2> QED BY <1>0, <2>2 DEF SelfInv
<1> QED BY <1>7, <1>8, <1>9, <1>10 DEF WorkerInv

LEMMA ReceiveStep ==
    ASSUME TypeInv, NEW w \in Workers, WorkerInv(w), Receive(w)
    PROVE  WorkerInv(w)'
<1> DEFINE m == Head(toWorker[w])
           initAnswered == m.type \in {"init_ack", "init_nack"} /\ ready[w] = "waiting"
           last == \/ m.type = "init_nack" /\ initAnswered
                   \/ IsPending(w, m) /\ m.kind = "shutdown"
<1>0. /\ SelfInv(w) /\ \A d \in Calls : FlightInv(w, d) /\ LastInv(w, d) /\ CallInv(w, d)
  BY DEF WorkerInv
<1>1. /\ ready'[w] = IF ~initAnswered THEN ready[w]
                     ELSE IF m.type = "init_ack" THEN "ok" ELSE "failed"
      /\ deaf'[w] = last /\ toWorker[w] # << >>
      /\ toWorker'[w] = IF last THEN << >> ELSE Tail(toWorker[w])
      /\ call' = IF ~IsPending(w, m) THEN call
                 ELSE [call EXCEPT ![w][m.call].pc = Outcome(m.kind, m.answer)]
      /\ UNCHANGED <<shutDown, toPrimary, dispatchSerial>>
  BY DEF Receive, TypeInv
<1>2. toWorker[w] \in Seq(AnsMsg) /\ m \in AnsMsg
  BY <1>1, Channels, ChannelTail
<1>3. ASSUME NEW M, NEW N
      PROVE  /\ Has(toWorker[w], M) <=> m \in M \/ Has(Tail(toWorker[w]), M)
             /\ NoneAfter(toWorker[w], M, N) =>
                  /\ NoneAfter(Tail(toWorker[w]), M, N)
                  /\ m \in M => ~Has(Tail(toWorker[w]), N)
  BY <1>1, <1>2, ChannelTail
<1> HIDE DEF m, last, initAnswered
<1>4. ASSUME NEW M, NEW N
      PROVE  /\ Has(toWorker'[w], M) => Has(toWorker[w], M)
             /\ NoneAfter(toWorker[w], M, M) /\ Has(toWorker'[w], M) => m \notin M
             /\ NoneAfter(toWorker[w], M, N) => NoneAfter(toWorker'[w], M, N)
  <2>1. CASE last
    BY <1>1, <2>1, EmptyChannel
  <2>2. CASE ~last
    BY <1>1, <1>3, <2>2
  <2> QED BY <2>1, <2>2
<1>5. ~deaf[w]
  BY <1>0, <1>1 DEF SelfInv
<1>6. ASSUME NEW d \in Calls
      PROVE  /\ Out(w, d)' = Out(w, d) /\ Queued(w, d)' = Queued(w, d)
             /\ Back(w, d)' => Back(w, d) /\ m \notin Answers(d)
  <2>1. Has(toWorker'[w], Answers(d)) => Has(toWorker[w], Answers(d)) /\ m \notin Answers(d)
    BY <1>0, <1>4 DEF FlightInv
  <2>2. Back(w, d)' => Back(w, d) /\ m \notin Answers(d)
    BY <2>1 DEF Back, Answers
  <2> QED BY <1>1, <2>2 DEF Out, Queued
<1>7. CASE ~IsPending(w, m)
  <2>1. call' = call /\ (last => initAnswered /\ m.type = "init_nack") /\ deaf'[w] = last
    BY <1>1, <1>7 DEF last
  <2>2. ASSUME NEW d \in Calls PROVE FlightInv(w, d)'
    <3>1. /\ ~Has(toWorker'[w], WrongAnswers(d, call[w][d].kind))
          /\ NoneAfter(toWorker'[w], Answers(d), Answers(d))
      BY <1>0, <1>4 DEF FlightInv
    <3> QED BY <1>0, <1>1, <1>6, <2>1, <3>1 DEF FlightInv
  <2>3. ASSUME NEW d \in Calls PROVE LastInv(w, d)' /\ Closing(w, d)' = Closing(w, d)
    BY <1>0, <1>1, <1>6, <2>1 DEF LastInv, Closing
  <2>4. initAnswered => /\ ready[w] = "waiting" /\ ~shutDown[w]
                        /\ \A d \in Calls : ~Out(w, d) /\ ~Queued(w, d) /\ call[w][d].pc # "pending"
    BY <1>0 DEF SelfInv, CallInv, initAnswered
  <2>5. ASSUME NEW d \in Calls PROVE CallInv(w, d)'
    <3>1. CASE initAnswered
      BY <1>0, <1>1, <1>5, <1>6, <2>1, <2>3, <2>4, <3>1 DEF CallInv
    <3>2. CASE ~initAnswered
      BY <1>0, <1>1, <1>5, <1>6, <2>1, <2>3, <3>2 DEF CallInv
    <3> QED BY <3>1, <3>2
  <2>6. SelfInv(w)'
    <3>1. CASE initAnswered
      <4>1. ready'[w] = IF m.type = "init_ack" THEN "ok" ELSE "failed"
        BY <1>1, <3>1
      <4>2. m.type \in {"init_ack", "init_nack"}
        BY <3>1 DEF initAnswered
      <4>3. last <=> m.type = "init_nack"
        BY <1>7, <3>1, <4>2 DEF last
      <4> QED BY <1>1, <2>4, <3>1, <4>1, <4>2, <4>3 DEF SelfInv
    <3>2. CASE ~initAnswered
      BY <1>0, <1>1, <1>5, <2>1, <3>2 DEF SelfInv
    <3> QED BY <3>1, <3>2
  <2> QED BY <2>2, <2>3, <2>5, <2>6 DEF WorkerInv
<1>8. CASE IsPending(w, m)
  <2> DEFINE p == Outcome(m.kind, m.answer)
  <2>0. PICK c \in Calls : c = m.call
    BY <1>2, <1>8 DEF IsPending, AnsMsg
  <2>1. /\ m.type = "answer" /\ m \in Answers(c)
        /\ call[w][c].kind = m.kind /\ call[w][c].pc = "pending"
    BY <1>2, <1>8, <2>0 DEF IsPending, Answers
  <2>2. /\ p \in {"allowed", "blocked", "resolved", "rejected"}
        /\ m.kind = "increment" => p # "resolved"
    BY <1>2, <2>1, OutcomeType DEF AnsMsg, Outcome
  <2>3. /\ SetPc(w, c, p) /\ p \in Pcs /\ ~initAnswered /\ (last <=> m.kind = "shutdown")
    BY <1>1, <1>8, <2>0, <2>1, <2>2 DEF SetPc, Pcs, Settled, initAnswered, last
  <2> HIDE DEF p
  <2>4. /\ \A d \in Calls : call'[w][d].kind = call[w][d].kind
        /\ call'[w][c].pc = p /\ \A d \in Calls \ {c} : call'[w][d] = call[w][d]
    BY <2>1, <2>3, SetPcValue
  <2>5. Back(w, c) /\ ~Out(w, c) /\ ~Queued(w, c) /\ ~Back(w, c)'
    <3>1. Back(w, c)
      BY <1>3, <2>1 DEF Back
    <3>2. ~Back(w, c)'
      BY <1>6, <2>1
    <3>3. ~Out(w, c) /\ ~Queued(w, c)
      BY <1>0, <2>1, <3>1 DEF FlightInv
    <3> QED BY <3>1, <3>2, <3>3
  <2>6. ASSUME NEW d \in Calls PROVE FlightInv(w, d)'
    <3>1. /\ ~Has(toWorker'[w], WrongAnswers(d, call[w][d].kind))
          /\ NoneAfter(toWorker'[w], Answers(d), Answers(d))
      BY <1>0, <1>4 DEF FlightInv
    <3>2. CASE d = c
      <4>1. ~Out(w, d)' /\ ~Queued(w, d)' /\ ~Back(w, d)'
        BY <1>6, <2>5, <3>2
      <4>2. call'[w][d].kind = call[w][d].kind
        BY <2>4
      <4> QED BY <1>0, <1>1, <3>1, <4>1, <4>2 DEF FlightInv
    <3>3. CASE d # c
      BY <1>0, <1>1, <1>6, <2>4, <3>1, <3>3 DEF FlightInv
    <3> QED BY <3>2, <3>3
  <2>7. \A d \in Calls : Closing(w, d)' => d # c /\ Closing(w, d)
    BY <2>2, <2>4 DEF Closing
  <2>8. ASSUME NEW d \in Calls PROVE LastInv(w, d)'
    BY <1>0, <1>1, <1>6, <2>7 DEF LastInv
  <2>9. ASSUME NEW d \in Calls PROVE CallInv(w, d)'
    <3>1. CASE d = c
      BY <1>0, <1>1, <1>6, <2>1, <2>2, <2>3, <2>4, <2>5, <2>7, <3>1 DEF CallInv
    <3>2. CASE d # c
      BY <1>0, <1>1, <1>5, <1>6, <2>3, <2>4, <2>7, <3>2 DEF CallInv
    <3> QED BY <3>1, <3>2
  <2>10. SelfInv(w)'
    <3>1. CASE m.kind # "shutdown"
      BY <1>0, <1>1, <1>5, <2>3, <3>1 DEF SelfInv
    <3>2. CASE m.kind = "shutdown"
      <4>1. Closing(w, c) /\ shutDown[w] /\ ready[w] = "ok"
        BY <1>0, <2>1, <3>2 DEF CallInv, Closing
      <4>2. toPrimary[w] = << >> /\ ~Has(dispatchSerial, Jobs(w))
        BY <1>0, <2>1, <2>5, <4>1 DEF LastInv
      <4>3. ASSUME NEW d \in Calls PROVE call'[w][d].pc # "pending"
        <5>1. d # c => call[w][d].pc # "pending"
          BY <1>0, <2>1, <4>1 DEF CallInv, Closing
        <5> QED BY <2>2, <2>4, <5>1
      <4> QED BY <1>0, <1>1, <2>3, <3>2, <4>1, <4>2, <4>3 DEF SelfInv
    <3> QED BY <3>1, <3>2
  <2> QED BY <2>6, <2>8, <2>9, <2>10 DEF WorkerInv
<1> QED BY <1>7, <1>8

-----------------------------------------------------------------------------
(* All steps                                                               *)

\* A worker's own step leaves the primary alone, but for what arrives there, and takes
\* answers from its pipe.
LEMMA WorkerFrame ==
    ASSUME TypeInv, NEW w \in Workers, WorkerStep(w)
    PROVE  /\ UNCHANGED <<primary, hits, counted, faults>>
           /\ \A v \in Workers \ {w} :
                 /\ ready'[v] = ready[v] /\ shutDown'[v] = shutDown[v] /\ deaf'[v] = deaf[v]
                 /\ call'[v] = call[v] /\ toPrimary'[v] = toPrimary[v]
                 /\ toWorker'[v] = toWorker[v] /\ alive'[v] = alive[v]
           /\ shutDown[w] => shutDown'[w]
           /\ toWorker'[w] = toWorker[w] \/ toWorker'[w] = << >> \/ Receive(w)
<1> USE DEF TypeInv
<1>1. CASE Construct(w) \/ InitTimeout(w) \/ Crash(w) \/ Arrive(w)
  BY <1>1 DEF Construct, InitTimeout, Crash, Arrive, workerVars, Send
<1>2. CASE Receive(w)
  <2>1. \A v \in Workers \ {w} : call'[v] = call[v]
    BY <1>2 DEF Receive
  <2> QED BY <1>2, <2>1 DEF Receive
<1>3. ASSUME NEW c \in Calls, Start(w, c) \/ Timeout(w, c) \/ Ask(w, c) \/ StartUndo(w, c)
      PROVE  /\ UNCHANGED <<primary, hits, counted, faults, toWorker, shutDown, ready, deaf, alive>>
             /\ \A v \in Workers \ {w} : call'[v] = call[v] /\ toPrimary'[v] = toPrimary[v]
  BY <1>3 DEF Start, Timeout, Ask, StartUndo, SetPc, Send
<1>4. ASSUME NEW c \in Calls, AskShutdown(w, c)
      PROVE  /\ UNCHANGED <<primary, hits, counted, faults, toWorker, ready, deaf, alive>>
             /\ \A v \in Workers \ {w} : /\ call'[v] = call[v] /\ toPrimary'[v] = toPrimary[v]
                                         /\ shutDown'[v] = shutDown[v]
             /\ shutDown[w] => shutDown'[w]
  BY <1>4 DEF AskShutdown, SetPc, Send
<1> QED BY <1>1, <1>2, <1>3, <1>4 DEF WorkerStep

\* What a job asks of the primary and what the primary answers.
LEMMA DispatchForm ==
    ASSUME TypeInv, Dispatch
    PROVE  /\ dispatchSerial # << >> /\ dispatchSerial' = Tail(dispatchSerial)
           /\ Head(dispatchSerial) \in JobMsg
           /\ UNCHANGED <<ready, shutDown, deaf, call, alive, toPrimary, primary>>
           /\ \E a \in AnsMsg :
                 /\ a.type = "answer" =>
                       /\ Head(dispatchSerial).msg.type # "init"
                       /\ a.call = Head(dispatchSerial).msg.call
                       /\ a.kind = Head(dispatchSerial).msg.type
                       /\ a.answer = "missing" => hits = NoStore
                 /\ a.type = "init_ack" => hits' # NoStore
                 /\ toWorker' = toWorker \/ Reply(Head(dispatchSerial).worker, a)
           /\ hits' \in Nat \cup {NoStore} /\ counted' \subseteq Workers \X Calls
<1> DEFINE e == Head(dispatchSerial)
           w == e.worker
           msg == e.msg
<1>1. dispatchSerial # << >> /\ dispatchSerial' = Tail(dispatchSerial) /\ dispatchSerial \in Seq(JobMsg)
  BY DEF Dispatch, TypeInv
<1>2. e \in JobMsg
  BY <1>1, ChannelTail
<1>3. /\ w \in Workers /\ msg \in ReqMsg
      /\ msg.type # "init" => msg.call \in Calls /\ msg.type \in ReqKinds
  BY <1>2 DEF JobMsg, ReqMsg, ReqKinds
<1>4. UNCHANGED <<ready, shutDown, deaf, call, alive, toPrimary, primary>>
  BY DEF Dispatch, workerVars
<1>5. /\ [type |-> "init_ack"] \in AnsMsg /\ [type |-> "init_nack"] \in AnsMsg
  BY DEF AnsMsg
<1>6. /\ \/ msg.type = "init" /\ HandleInit(w)
         \/ msg.type # "init" /\ HandleMissing(w, msg)
         \/ msg.type = "increment" /\ HandleIncrement(w, msg)
         \/ msg.type = "decrement" /\ HandleDecrement(w, msg)
         \/ msg.type = "reset" /\ HandleReset(w, msg)
         \/ msg.type = "shutdown" /\ HandleShutdown(w, msg)
  BY DEF Dispatch
<1>7. hits \in Nat \cup {NoStore} /\ counted \subseteq Workers \X Calls /\ -1 \notin Nat
  BY DEF TypeInv
<1> HIDE DEF e, w, msg
<1>8. ASSUME NEW answer, msg.type # "init",
             answer = "missing"
               \/ (msg.type = "increment" /\ answer \in {"allowed", "blocked"})
               \/ (msg.type # "increment" /\ answer = "ack"),
             answer = "missing" => hits = NoStore,
             Reply(w, Answer(msg, answer))
      PROVE  \E a \in AnsMsg :
                 /\ a.type = "answer" =>
                       /\ msg.type # "init" /\ a.call = msg.call /\ a.kind = msg.type
                       /\ a.answer = "missing" => hits = NoStore
                 /\ a.type = "init_ack" => hits' # NoStore
                 /\ toWorker' = toWorker \/ Reply(w, a)
  <2> DEFINE a == Answer(msg, answer)
  <2>1. a \in AnsMsg
    BY <1>3, <1>8 DEF Answer, AnsMsg
  <2>2. a.type = "answer" /\ a.call = msg.call /\ a.kind = msg.type /\ a.answer = answer
    BY DEF Answer
  <2> HIDE DEF a
  <2>3. Reply(w, a)
    BY <1>8 DEF a
  <2> QED BY <1>8, <2>1, <2>2, <2>3
<1>9. /\ \E a \in AnsMsg :
                 /\ a.type = "answer" =>
                       /\ msg.type # "init" /\ a.call = msg.call /\ a.kind = msg.type
                       /\ a.answer = "missing" => hits = NoStore
                 /\ a.type = "init_ack" => hits' # NoStore
                 /\ toWorker' = toWorker \/ Reply(w, a)
      /\ hits' \in Nat \cup {NoStore} /\ counted' \subseteq Workers \X Calls
  <2>1. CASE msg.type = "init" /\ HandleInit(w)
    <3>1. hits' \in Nat \cup {NoStore} /\ counted' = counted
      BY <1>7, <2>1 DEF HandleInit
    <3>2. CASE Reply(w, [type |-> "init_nack"])
      BY <1>5, <1>7, <3>1, <3>2
    <3>3. CASE UNCHANGED toWorker
      BY <1>5, <1>7, <3>1, <3>3
    <3>4. CASE /\ offer[w] = "good" \/ (offer[w] = "badStrategy" /\ hits # NoStore)
               /\ Reply(w, [type |-> "init_ack"])
      <4>1. hits' # NoStore
        BY <2>1, <3>4 DEF HandleInit, NoStore
      <4> QED BY <1>5, <1>7, <3>1, <3>4, <4>1
    <3> QED BY <2>1, <3>2, <3>3, <3>4 DEF HandleInit
  <2>2. CASE msg.type # "init" /\ HandleMissing(w, msg)
    BY <1>7, <1>8, <2>2 DEF HandleMissing
  <2>3. CASE msg.type = "increment" /\ HandleIncrement(w, msg)
    <3>1. hits' \in Nat /\ counted' \subseteq Workers \X Calls
      BY <1>3, <1>7, <2>3 DEF HandleIncrement, NoStore
    <3> QED BY <1>8, <2>3, <3>1 DEF HandleIncrement
  <2>4. CASE msg.type = "decrement" /\ HandleDecrement(w, msg)
    <3>1. hits' \in Nat /\ counted' \subseteq Workers \X Calls
      BY <1>7, <2>4 DEF HandleDecrement, NoStore
    <3> QED BY <1>8, <2>4, <3>1 DEF HandleDecrement
  <2>5. CASE msg.type = "reset" /\ HandleReset(w, msg)
    <3>1. hits' \in Nat /\ counted' \subseteq Workers \X Calls
      BY <2>5 DEF HandleReset
    <3> QED BY <1>8, <2>5, <3>1 DEF HandleReset
  <2>6. CASE msg.type = "shutdown" /\ HandleShutdown(w, msg)
    <3>1. hits' \in Nat \cup {NoStore} /\ counted' \subseteq Workers \X Calls
      BY <1>7, <2>6 DEF HandleShutdown
    <3> QED BY <1>8, <2>6, <3>1 DEF HandleShutdown
  <2> QED BY <1>6, <2>1, <2>2, <2>3, <2>4, <2>5, <2>6
<1> QED BY <1>1, <1>2, <1>4, <1>9 DEF e, w, msg

LEMMA DispatchAnswer ==
    ASSUME TypeInv, Dispatch
    PROVE  \E w \in Workers, a \in AnsMsg :
              /\ w = Head(dispatchSerial).worker
              /\ a.type = "answer" =>
                    /\ Head(dispatchSerial).msg.type # "init"
                    /\ a.call = Head(dispatchSerial).msg.call /\ a.kind = Head(dispatchSerial).msg.type
                    /\ a.answer = "missing" => hits = NoStore
              /\ a.type = "init_ack" => hits' # NoStore
              /\ toWorker'[w] = toWorker[w]
                   \/ (alive[w] /\ ~deaf[w] /\ toWorker'[w] = Append(toWorker[w], a))
              /\ \A v \in Workers \ {w} : toWorker'[v] = toWorker[v]
              /\ toWorker' \in [Workers -> Seq(AnsMsg)]
<1>1. Head(dispatchSerial) \in JobMsg
  BY DispatchForm
<1>2. PICK w \in Workers : w = Head(dispatchSerial).worker
  BY <1>1 DEF JobMsg
<1>3. PICK a \in AnsMsg :
                 /\ a.type = "answer" =>
                       /\ Head(dispatchSerial).msg.type # "init"
                       /\ a.call = Head(dispatchSerial).msg.call
                       /\ a.kind = Head(dispatchSerial).msg.type
                       /\ a.answer = "missing" => hits = NoStore
                 /\ a.type = "init_ack" => hits' # NoStore
                 /\ toWorker' = toWorker \/ Reply(w, a)
  BY <1>2, DispatchForm
<1>4. /\ toWorker'[w] = toWorker[w]
           \/ (alive[w] /\ ~deaf[w] /\ toWorker'[w] = Append(toWorker[w], a))
      /\ \A v \in Workers \ {w} : toWorker'[v] = toWorker[v]
      /\ toWorker' \in [Workers -> Seq(AnsMsg)]
  <2>1. CASE toWorker' = toWorker
    BY <2>1 DEF TypeInv
  <2>2. CASE Reply(w, a)
    BY <2>2, ReplyValue
  <2> QED BY <1>3, <2>1, <2>2
<1> QED BY <1>2, <1>3, <1>4

-----------------------------------------------------------------------------
(* Every step keeps the types and every worker's invariant                 *)

\* A step of worker w on its calls.
LEMMA CallsType ==
    ASSUME TypeInv, NEW w \in Workers, NEW c \in Calls,
           Start(w, c) \/ Ask(w, c) \/ Timeout(w, c)
    PROVE  TypeInv'
<1>1. \E pc \in Pcs : SetPc(w, c, pc)
  BY DEF Start, Ask, Timeout, Pcs, Settled
<1>2. PICK pc \in Pcs : SetPc(w, c, pc)
  BY <1>1
<1>3. /\ call' \in [Workers -> [Calls -> CallType]]
      /\ \A v \in Workers, d \in Calls : call'[v][d].kind = call[v][d].kind
  BY <1>2, SetPcValue
<1>4. toPrimary' \in [Workers -> Seq(ReqMsg)]
  <2>1. Request(w, c) \in ReqMsg
    BY RequestType
  <2>2. CASE Send(w, Request(w, c))
    BY <2>1, <2>2, SendValue
  <2>3. CASE UNCHANGED toPrimary
    BY <2>3 DEF TypeInv
  <2> QED BY <2>2, <2>3 DEF Start, Ask, Timeout
<1> QED BY <1>3, <1>4 DEF Start, Ask, Timeout, TypeInv

LEMMA StartUndoValue ==
    ASSUME TypeInv, NEW w \in Workers, NEW c \in Calls, StartUndo(w, c)
    PROVE  /\ call' \in [Workers -> [Calls -> CallType]]
           /\ \A d \in Calls \ {c} : call'[w][d] = call[w][d]
           /\ \A v \in Workers \ {w} : call'[v] = call[v]
           /\ call'[w][c] = [kind |-> "decrement", pc |-> "waiting"]
           /\ Kind[c] = "increment"
<1> DEFINE r == [kind |-> "decrement", pc |-> "waiting"]
<1>1. r \in CallType
  BY DEF CallType, ReqKinds, Pcs
<1>2. call' = [call EXCEPT ![w] = [call[w] EXCEPT ![c] = r]]
  BY DEF StartUndo
<1>3. call[w][c].kind = "increment"
  BY DEF StartUndo
<1> HIDE DEF r
<1>4. /\ call' \in [Workers -> [Calls -> CallType]]
      /\ \A d \in Calls \ {c} : call'[w][d] = call[w][d]
      /\ \A v \in Workers \ {w} : call'[v] = call[v]
      /\ call'[w][c] = r
  BY <1>1, <1>2 DEF TypeInv
<1> QED BY <1>3, <1>4 DEF r, TypeInv

LEMMA AskShutdownValue ==
    ASSUME TypeInv, NEW w \in Workers, NEW c \in Calls, AskShutdown(w, c), ~deaf[w]
    PROVE  /\ call' \in [Workers -> [Calls -> CallType]]
           /\ \A d \in Calls : /\ call'[w][d].kind = call[w][d].kind
                               /\ call'[w][d].pc = IF d = c THEN "pending"
                                                   ELSE IF call[w][d].pc = "pending" THEN "rejected"
                                                   ELSE call[w][d].pc
           /\ \A v \in Workers \ {w} : call'[v] = call[v]
           /\ Send(w, Request(w, c)) /\ shutDown' = [shutDown EXCEPT ![w] = TRUE]
<1> DEFINE g == [d \in Calls |->
                [kind |-> call[w][d].kind,
                 pc |-> IF d = c THEN "pending"
                        ELSE IF call[w][d].pc = "pending" THEN "rejected" ELSE call[w][d].pc]]
<1>1. call \in [Workers -> [Calls -> CallType]]
  BY DEF TypeInv
<1>2. call' = [call EXCEPT ![w] = g] /\ Send(w, Request(w, c)) /\ shutDown' = [shutDown EXCEPT ![w] = TRUE]
  BY DEF AskShutdown
<1>3. ASSUME NEW d \in Calls
      PROVE  /\ g[d] \in CallType /\ g[d].kind = call[w][d].kind
             /\ g[d].pc = IF d = c THEN "pending"
                          ELSE IF call[w][d].pc = "pending" THEN "rejected" ELSE call[w][d].pc
  <2>1. call[w][d] \in CallType
    BY <1>1
  <2> QED BY <2>1 DEF CallType, Pcs, Settled
<1>4. g \in [Calls -> CallType]
  BY <1>3
<1> HIDE DEF g
<1>5. call' \in [Workers -> [Calls -> CallType]] /\ call'[w] = g /\ \A v \in Workers \ {w} : call'[v] = call[v]
  BY <1>1, <1>2, <1>4
<1> QED BY <1>2, <1>3, <1>5

LEMMA AskShutdownType ==
    ASSUME TypeInv, NEW w \in Workers, NEW c \in Calls, AskShutdown(w, c)
    PROVE  TypeInv'
<1>0. UNCHANGED <<alive, ready, deaf, toWorker, dispatchSerial, hits, counted>>
  BY DEF AskShutdown
<1>9. \A v \in Workers, d \in Calls :
         call[v][d].kind = Kind[d] \/ (Kind[d] = "increment" /\ call[v][d].kind = "decrement")
  BY DEF TypeInv
<1>1. CASE deaf[w]
  <2>1. SetPc(w, c, "resolved") /\ "resolved" \in Pcs
    BY <1>1 DEF AskShutdown, Pcs, Settled
  <2>2. /\ call' \in [Workers -> [Calls -> CallType]]
        /\ \A v \in Workers, d \in Calls : call'[v][d].kind = call[v][d].kind
    BY <2>1, SetPcValue
  <2>3. UNCHANGED <<shutDown, toPrimary>>
    BY <1>1 DEF AskShutdown
  <2>4. \A v \in Workers, d \in Calls :
           call'[v][d].kind = Kind[d] \/ (Kind[d] = "increment" /\ call'[v][d].kind = "decrement")
    BY <1>9, <2>2
  <2>5. shutDown' \in [Workers -> BOOLEAN] /\ toPrimary' \in [Workers -> Seq(ReqMsg)]
    BY <2>3 DEF TypeInv
  <2> QED BY <1>0, <2>2, <2>4, <2>5 DEF TypeInv
<1>2. CASE ~deaf[w]
  <2>1. /\ call' \in [Workers -> [Calls -> CallType]]
        /\ \A d \in Calls : call'[w][d].kind = call[w][d].kind
        /\ \A v \in Workers \ {w} : call'[v] = call[v]
        /\ Send(w, Request(w, c)) /\ shutDown' = [shutDown EXCEPT ![w] = TRUE]
    BY <1>2, AskShutdownValue
  <2>2. \A v \in Workers, d \in Calls : call'[v][d].kind = call[v][d].kind
    BY <2>1
  <2>3. toPrimary' \in [Workers -> Seq(ReqMsg)]
    BY <2>1, RequestType, SendValue
  <2>4. shutDown' \in [Workers -> BOOLEAN]
    BY <2>1 DEF TypeInv
  <2>5. \A v \in Workers, d \in Calls :
           call'[v][d].kind = Kind[d] \/ (Kind[d] = "increment" /\ call'[v][d].kind = "decrement")
    BY <1>9, <2>2
  <2> QED BY <1>0, <2>1, <2>3, <2>4, <2>5 DEF TypeInv
<1> QED BY <1>1, <1>2

LEMMA ReceiveType ==
    ASSUME TypeInv, NEW w \in Workers, Receive(w)
    PROVE  TypeInv'
<1> DEFINE m == Head(toWorker[w])
<1>1. toWorker[w] # << >> /\ toWorker[w] \in Seq(AnsMsg)
  BY Channels DEF Receive
<1>2. m \in AnsMsg /\ Tail(toWorker[w]) \in Seq(AnsMsg)
  BY <1>1, ChannelTail
<1>3. /\ call' \in [Workers -> [Calls -> CallType]]
      /\ \A v \in Workers, d \in Calls : call'[v][d].kind = call[v][d].kind
  <2>1. CASE ~IsPending(w, m)
    BY <2>1 DEF Receive, TypeInv
  <2>2. CASE IsPending(w, m)
    <3>1. m.type = "answer" /\ m.call \in Calls
      BY <1>2, <2>2 DEF IsPending, AnsMsg
    <3>2. Outcome(m.kind, m.answer) \in Pcs
      BY <1>2, <3>1, OutcomeType DEF Pcs, Settled
    <3>3. SetPc(w, m.call, Outcome(m.kind, m.answer))
      BY <2>2 DEF Receive, SetPc
    <3> QED BY <3>1, <3>2, <3>3, SetPcValue
  <2> QED BY <2>1, <2>2
<1>4. ready' \in [Workers -> {"none", "waiting", "ok", "failed"}]
  BY DEF Receive, TypeInv
<1>5. deaf' \in [Workers -> BOOLEAN]
  BY DEF Receive, TypeInv, IsPending
<1>6. toWorker' \in [Workers -> Seq(AnsMsg)]
  <2>1. << >> \in Seq(AnsMsg) /\ toWorker \in [Workers -> Seq(AnsMsg)]
    BY DEF TypeInv
  <2>2. toWorker' = [toWorker EXCEPT ![w] = << >>] \/ toWorker' = [toWorker EXCEPT ![w] = Tail(@)]
    BY DEF Receive
  <2> QED BY <1>2, <2>1, <2>2
<1> QED BY <1>3, <1>4, <1>5, <1>6 DEF Receive, TypeInv

LEMMA WorkerType ==
    ASSUME TypeInv, NEW w \in Workers, WorkerStep(w)
    PROVE  TypeInv'
<1>1. CASE Construct(w)
  <2>1. toPrimary' \in [Workers -> Seq(ReqMsg)]
    BY <1>1, SendValue, InitMsgType DEF Construct
  <2> QED BY <1>1, <2>1 DEF Construct, TypeInv
<1>2. CASE InitTimeout(w)
  BY <1>2 DEF InitTimeout, TypeInv
<1>3. CASE Receive(w)
  BY <1>3, ReceiveType
<1>4. CASE Crash(w)
  <2>1. PICK n \in 0..Len(toPrimary[w]) :
           toPrimary' = [toPrimary EXCEPT ![w] = SubSeq(toPrimary[w], 1, n)]
    BY <1>4 DEF Crash
  <2>2. toPrimary[w] \in Seq(ReqMsg)
    BY Channels
  <2>3. SubSeq(toPrimary[w], 1, n) \in Seq(ReqMsg)
    BY <2>2
  <2>4. toPrimary' \in [Workers -> Seq(ReqMsg)]
    BY <2>1, <2>3 DEF TypeInv
  <2>5. toWorker' \in [Workers -> Seq(AnsMsg)] /\ alive' \in [Workers -> BOOLEAN]
    BY <1>4 DEF Crash, TypeInv
  <2> QED BY <1>4, <2>4, <2>5 DEF Crash, TypeInv
<1>5. CASE Arrive(w)
  <2>1. toPrimary[w] # << >> /\ toPrimary[w] \in Seq(ReqMsg)
    BY <1>5, Channels DEF Arrive
  <2>2. Head(toPrimary[w]) \in ReqMsg /\ Tail(toPrimary[w]) \in Seq(ReqMsg)
    BY <2>1, ChannelTail
  <2>3. [worker |-> w, msg |-> Head(toPrimary[w])] \in JobMsg
    BY <2>2 DEF JobMsg
  <2>4. dispatchSerial' \in Seq(JobMsg)
    BY <1>5, <2>3 DEF Arrive, TypeInv
  <2>5. toPrimary' \in [Workers -> Seq(ReqMsg)]
    BY <1>5, <2>2 DEF Arrive, TypeInv
  <2> QED BY <1>5, <2>4, <2>5 DEF Arrive, TypeInv, workerVars
<1>6. ASSUME NEW c \in Calls, Start(w, c) \/ StartUndo(w, c) \/ Ask(w, c) \/ AskShutdown(w, c)
                                 \/ Timeout(w, c)
      PROVE  TypeInv'
  <2>1. CASE StartUndo(w, c)
    <3>1. /\ call' \in [Workers -> [Calls -> CallType]]
          /\ \A d \in Calls \ {c} : call'[w][d] = call[w][d]
          /\ \A v \in Workers \ {w} : call'[v] = call[v]
          /\ call'[w][c].kind = "decrement"
          /\ Kind[c] = "increment"
      BY <2>1, StartUndoValue
    <3> QED BY <2>1, <3>1 DEF StartUndo, TypeInv
  <2> QED BY <1>6, <2>1, CallsType, AskShutdownType
<1> QED BY <1>1, <1>2, <1>3, <1>4, <1>5, <1>6 DEF WorkerStep

LEMMA TypeStep == TypeInv /\ [Next]_vars => TypeInv'
<1> SUFFICES ASSUME TypeInv, [Next]_vars PROVE TypeInv'
  OBVIOUS
<1>1. CASE UNCHANGED vars
  BY <1>1 DEF vars, TypeInv
<1>2. CASE PrimaryInit
  BY <1>2 DEF PrimaryInit, workerVars, TypeInv
<1>3. CASE Destroy
  BY <1>3 DEF Destroy, workerVars, TypeInv
<1>4. CASE Dispatch
  <2>1. toWorker' \in [Workers -> Seq(AnsMsg)]
    BY <1>4, DispatchAnswer
  <2>2. dispatchSerial' \in Seq(JobMsg)
    <3>1. dispatchSerial # << >> /\ dispatchSerial \in Seq(JobMsg)
      BY <1>4, DispatchForm DEF TypeInv
    <3>2. Tail(dispatchSerial) \in Seq(JobMsg)
      BY <3>1, ChannelTail
    <3> QED BY <1>4, <3>2, DispatchForm
  <2>3. /\ UNCHANGED <<ready, shutDown, deaf, call, alive, toPrimary>>
        /\ hits' \in Nat \cup {NoStore} /\ counted' \subseteq Workers \X Calls
    BY <1>4, DispatchForm
  <2> QED BY <2>1, <2>2, <2>3 DEF TypeInv
<1>5. ASSUME NEW w \in Workers, WorkerStep(w) PROVE TypeInv'
  BY <1>5, WorkerType
<1> QED BY <1>1, <1>2, <1>3, <1>4, <1>5 DEF Next

\* A worker's own step keeps its invariant.
LEMMA OwnStep ==
    ASSUME TypeInv, NEW w \in Workers, WorkerInv(w), WorkerStep(w)
    PROVE  WorkerInv(w)'
<1>0. \A c \in Calls : call[w][c] \in CallType
  BY Channels
<1>1. CASE Construct(w) \/ InitTimeout(w) \/ Receive(w) \/ Crash(w) \/ Arrive(w)
  BY <1>1, ConstructStep, InitTimeoutStep, ReceiveStep, CrashStep, ArriveStep
<1>2. ASSUME NEW c \in Calls, Start(w, c) PROVE WorkerInv(w)'
  <2>1. /\ \A d \in Calls \ {c} : call'[w][d] = call[w][d]
        /\ call'[w][c].pc = "waiting" /\ call'[w][c].kind = call[w][c].kind
    BY <1>2, SetPcValue DEF Start, Pcs
  <2>2. /\ call[w][c].pc = "idle"
        /\ UNCHANGED <<ready, shutDown, deaf, toPrimary, toWorker, dispatchSerial>>
    BY <1>2 DEF Start
  <2> QED BY <2>1, <2>2, CallStep DEF Open
<1>3. ASSUME NEW c \in Calls, StartUndo(w, c) PROVE WorkerInv(w)'
  <2>1. /\ \A d \in Calls \ {c} : call'[w][d] = call[w][d]
        /\ call'[w][c].pc = "waiting" /\ call'[w][c].kind = "decrement"
    BY <1>3, StartUndoValue
  <2>2. /\ call[w][c].pc = "allowed"
        /\ UNCHANGED <<ready, shutDown, deaf, toPrimary, toWorker, dispatchSerial>>
    BY <1>3 DEF StartUndo
  <2> QED BY <2>1, <2>2, CallStep DEF Open
<1>4. ASSUME NEW c \in Calls, Timeout(w, c) PROVE WorkerInv(w)'
  <2>1. /\ \A d \in Calls \ {c} : call'[w][d] = call[w][d]
        /\ call'[w][c].pc = "timeout" /\ call'[w][c].kind = call[w][c].kind
    BY <1>4, SetPcValue DEF Timeout, Pcs, Settled
  <2>2. UNCHANGED <<ready, shutDown, deaf, toPrimary, toWorker, dispatchSerial>>
    BY <1>4 DEF Timeout
  <2> QED BY <2>1, <2>2, CallStep DEF Open
<1>5. ASSUME NEW c \in Calls, Ask(w, c) PROVE WorkerInv(w)'
  <2>1. /\ UNCHANGED <<ready, shutDown, deaf, toWorker, dispatchSerial>>
        /\ call[w][c].pc \notin Open /\ call[w][c].kind # "shutdown"
    BY <1>5 DEF Ask, Runs, Open
  <2>2. CASE SetPc(w, c, "rejected") /\ UNCHANGED toPrimary
    <3>1. /\ \A d \in Calls \ {c} : call'[w][d] = call[w][d]
          /\ call'[w][c].pc = "rejected" /\ call'[w][c].kind = call[w][c].kind
      BY <2>2, SetPcValue DEF Pcs, Settled
    <3> QED BY <2>1, <2>2, <3>1, CallStep DEF Open
  <2>3. CASE ready[w] = "ok" /\ ~shutDown[w] /\ SetPc(w, c, "pending") /\ Send(w, Request(w, c))
    BY <2>1, <2>3, AskStep
  <2> QED BY <1>5, <2>2, <2>3 DEF Ask
<1>6. ASSUME NEW c \in Calls, AskShutdown(w, c) PROVE WorkerInv(w)'
  <2>1. /\ UNCHANGED <<ready, deaf, toWorker, dispatchSerial>>
        /\ call[w][c].pc \notin Open /\ call[w][c].kind = "shutdown"
        /\ ready[w] \in {"ok", "failed"}
    BY <1>6 DEF AskShutdown, Runs, Open
  <2>2. CASE deaf[w]
    <3>1. SetPc(w, c, "resolved") /\ UNCHANGED <<shutDown, toPrimary>>
      BY <1>6, <2>2 DEF AskShutdown
    <3>2. /\ \A d \in Calls \ {c} : call'[w][d] = call[w][d]
          /\ call'[w][c].pc = "resolved" /\ call'[w][c].kind = call[w][c].kind
      BY <3>1, SetPcValue DEF Pcs, Settled
    <3> QED BY <2>1, <2>2, <3>1, <3>2, CallStep DEF Open
  <2>3. CASE ~deaf[w]
    <3>1. /\ \A d \in Calls : /\ call'[w][d].kind = call[w][d].kind
                              /\ call'[w][d].pc = IF d = c THEN "pending"
                                                  ELSE IF call[w][d].pc = "pending" THEN "rejected"
                                                  ELSE call[w][d].pc
          /\ Send(w, Request(w, c)) /\ shutDown' = [shutDown EXCEPT ![w] = TRUE]
      BY <1>6, <2>3, AskShutdownValue
    <3>2. shutDown'[w] = TRUE
      BY <3>1 DEF TypeInv
    <3> QED BY <2>1, <2>3, <3>1, <3>2, ShutdownStep
  <2> QED BY <2>2, <2>3
<1> QED BY <1>1, <1>2, <1>3, <1>4, <1>5, <1>6 DEF WorkerStep

\* A job of another worker comes or goes: nothing changes in the queue for v.
LEMMA OthersAppend ==
    ASSUME TypeInv, NEW v \in Workers, NEW e \in JobMsg, e.worker # v,
           dispatchSerial' = Append(dispatchSerial, e)
    PROVE  /\ \A M \in SUBSET Jobs(v) : Has(dispatchSerial', M) <=> Has(dispatchSerial, M)
           /\ \A M, N \in SUBSET Jobs(v) :
                 NoneAfter(dispatchSerial, M, N) => NoneAfter(dispatchSerial', M, N)
<1>0. dispatchSerial \in Seq(JobMsg)
  BY DEF TypeInv
<1>1. ASSUME NEW M \in SUBSET Jobs(v), NEW N \in SUBSET Jobs(v)
      PROVE  /\ Has(dispatchSerial', M) <=> Has(dispatchSerial, M)
             /\ NoneAfter(dispatchSerial, M, N) => NoneAfter(dispatchSerial', M, N)
  <2>1. e \notin M /\ e \notin N
    BY DEF Jobs
  <2>2. /\ Has(Append(dispatchSerial, e), M) <=> Has(dispatchSerial, M) \/ e \in M
        /\ NoneAfter(dispatchSerial, M, N) /\ (Has(dispatchSerial, M) => e \notin N)
              => NoneAfter(Append(dispatchSerial, e), M, N)
    BY <1>0, ChannelAppend
  <2> QED BY <2>1, <2>2
<1> QED BY <1>1

LEMMA OthersTail ==
    ASSUME TypeInv, NEW v \in Workers, dispatchSerial # << >>, Head(dispatchSerial).worker # v,
           dispatchSerial' = Tail(dispatchSerial)
    PROVE  /\ \A M \in SUBSET Jobs(v) : Has(dispatchSerial', M) <=> Has(dispatchSerial, M)
           /\ \A M, N \in SUBSET Jobs(v) :
                 NoneAfter(dispatchSerial, M, N) => NoneAfter(dispatchSerial', M, N)
<1>0. dispatchSerial \in Seq(JobMsg)
  BY DEF TypeInv
<1>1. ASSUME NEW M \in SUBSET Jobs(v), NEW N \in SUBSET Jobs(v)
      PROVE  /\ Has(dispatchSerial', M) <=> Has(dispatchSerial, M)
             /\ NoneAfter(dispatchSerial, M, N) => NoneAfter(dispatchSerial', M, N)
  <2>1. Head(dispatchSerial) \notin M
    BY DEF Jobs
  <2>2. /\ Has(dispatchSerial, M) <=> Head(dispatchSerial) \in M \/ Has(Tail(dispatchSerial), M)
        /\ NoneAfter(dispatchSerial, M, N) => NoneAfter(Tail(dispatchSerial), M, N)
    BY <1>0, ChannelTail
  <2> QED BY <2>1, <2>2
<1> QED BY <1>1

\* What a step of w leaves in the queue for the others.
LEMMA QueueFrame ==
    ASSUME TypeInv, NEW w \in Workers, WorkerStep(w)
    PROVE  \/ dispatchSerial' = dispatchSerial
           \/ Arrive(w) /\ \E e \in JobMsg : /\ e.worker = w /\ e.msg = Head(toPrimary[w])
                                             /\ dispatchSerial' = Append(dispatchSerial, e)
<1>1. CASE Arrive(w)
  <2>1. toPrimary[w] # << >> /\ toPrimary[w] \in Seq(ReqMsg)
    BY <1>1, Channels DEF Arrive
  <2>2. Head(toPrimary[w]) \in ReqMsg
    BY <2>1, ChannelTail
  <2>3. [worker |-> w, msg |-> Head(toPrimary[w])] \in JobMsg
    BY <2>2 DEF JobMsg
  <2> QED BY <1>1, <2>3 DEF Arrive
<1>2. CASE ~Arrive(w)
  <2>1. CASE Construct(w) \/ InitTimeout(w) \/ Receive(w) \/ Crash(w)
    BY <2>1 DEF Construct, InitTimeout, Receive, Crash
  <2>2. ASSUME NEW c \in Calls, Start(w, c) \/ StartUndo(w, c) \/ Ask(w, c) \/ AskShutdown(w, c)
                                   \/ Timeout(w, c)
        PROVE  dispatchSerial' = dispatchSerial
    BY <2>2 DEF Start, StartUndo, Ask, AskShutdown, Timeout
  <2> QED BY <1>2, <2>1, <2>2 DEF WorkerStep
<1> QED BY <1>1, <1>2

LEMMA WorkersStep ==
    ASSUME TypeInv, \A v \in Workers : WorkerInv(v), [Next]_vars, NEW v \in Workers
    PROVE  WorkerInv(v)'
<1>0. ASSUME dispatchSerial' = dispatchSerial
      PROVE  /\ \A M \in SUBSET Jobs(v) : Has(dispatchSerial', M) <=> Has(dispatchSerial, M)
             /\ \A M, N \in SUBSET Jobs(v) :
                   NoneAfter(dispatchSerial, M, N) => NoneAfter(dispatchSerial', M, N)
  BY <1>0
<1>1. CASE UNCHANGED vars \/ PrimaryInit \/ Destroy
  <2>1. UNCHANGED <<ready, shutDown, deaf, call, toPrimary, toWorker, dispatchSerial>>
    BY <1>1 DEF vars, PrimaryInit, Destroy, workerVars
  <2> QED BY <1>0, <2>1, Unaffected
<1>2. CASE Dispatch
  <2>1. PICK w \in Workers, a \in AnsMsg :
              /\ w = Head(dispatchSerial).worker
              /\ a.type = "answer" =>
                    /\ Head(dispatchSerial).msg.type # "init"
                    /\ a.call = Head(dispatchSerial).msg.call /\ a.kind = Head(dispatchSerial).msg.type
              /\ toWorker'[w] = toWorker[w]
                   \/ (alive[w] /\ ~deaf[w] /\ toWorker'[w] = Append(toWorker[w], a))
              /\ \A u \in Workers \ {w} : toWorker'[u] = toWorker[u]
    BY <1>2, DispatchAnswer
  <2>2. /\ dispatchSerial # << >> /\ dispatchSerial' = Tail(dispatchSerial)
        /\ UNCHANGED <<ready, shutDown, deaf, call, toPrimary>>
    BY <1>2, DispatchForm
  <2>3. CASE v = w
    BY <2>1, <2>2, <2>3, DispatchStep
  <2>4. CASE v # w
    <3>1. /\ \A M \in SUBSET Jobs(v) : Has(dispatchSerial', M) <=> Has(dispatchSerial, M)
          /\ \A M, N \in SUBSET Jobs(v) :
                NoneAfter(dispatchSerial, M, N) => NoneAfter(dispatchSerial', M, N)
      BY <2>1, <2>2, <2>4, OthersTail
    <3>2. toWorker'[v] = toWorker[v]
      BY <2>1, <2>4
    <3> QED BY <2>2, <3>1, <3>2, Unaffected
  <2> QED BY <2>3, <2>4
<1>3. ASSUME NEW w \in Workers, WorkerStep(w) PROVE WorkerInv(v)'
  <2>1. CASE v = w
    BY <1>3, <2>1, OwnStep
  <2>2. CASE v # w
    <3>1. /\ ready'[v] = ready[v] /\ shutDown'[v] = shutDown[v] /\ deaf'[v] = deaf[v]
          /\ call'[v] = call[v] /\ toPrimary'[v] = toPrimary[v]
          /\ toWorker'[v] = toWorker[v]
      BY <1>3, <2>2, WorkerFrame
    <3>2. /\ \A M \in SUBSET Jobs(v) : Has(dispatchSerial', M) <=> Has(dispatchSerial, M)
          /\ \A M, N \in SUBSET Jobs(v) :
                NoneAfter(dispatchSerial, M, N) => NoneAfter(dispatchSerial', M, N)
      <4>1. CASE dispatchSerial' = dispatchSerial
        BY <1>0, <4>1
      <4>2. CASE \E e \in JobMsg : e.worker = w /\ dispatchSerial' = Append(dispatchSerial, e)
        BY <2>2, <4>2, OthersAppend
      <4> QED BY <1>3, <4>1, <4>2, QueueFrame
    <3> QED BY <3>1, <3>2, Unaffected
  <2> QED BY <2>1, <2>2
<1> QED BY <1>1, <1>2, <1>3 DEF Next

-----------------------------------------------------------------------------
(* A shutdown that has resolved is final                                   *)

WorkersInv == TypeInv /\ \A w \in Workers : WorkerInv(w)

LEMMA WorkersInvInit == Init => WorkersInv
BY TypeInit, WorkerInit DEF WorkersInv

LEMMA WorkersInvStep == WorkersInv /\ [Next]_vars => WorkersInv'
<1> SUFFICES ASSUME WorkersInv, [Next]_vars PROVE WorkersInv'
  OBVIOUS
<1>1. TypeInv'
  BY TypeStep DEF WorkersInv
<1>2. \A v \in Workers : WorkerInv(v)'
  BY WorkersStep DEF WorkersInv
<1> QED BY <1>1, <1>2 DEF WorkersInv

\* When shutdown() has resolved in a worker, for any number of workers and calls: it hears
\* nothing more, no promise is open and none of its requests waits in the pipe or in
\* dispatchSerial, overlapping and timed-out shutdowns included.
THEOREM ShutdownFinal == Spec => []ShutdownIsFinal
<1>1. WorkersInv => ShutdownIsFinal
  <2> SUFFICES ASSUME WorkersInv, NEW w \in Workers, alive[w], shutDown[w],
                      NEW c \in Calls, Kind[c] = "shutdown", call[w][c].pc = "resolved"
               PROVE  /\ deaf[w] /\ \A d \in Calls : call[w][d].pc # "pending"
                      /\ toPrimary[w] = << >>
                      /\ \A i \in DOMAIN dispatchSerial : dispatchSerial[i].worker # w
    BY DEF ShutdownIsFinal
  <2>1. call[w][c].kind = "shutdown"
    BY DEF WorkersInv, TypeInv
  <2>2. CallInv(w, c) /\ SelfInv(w)
    BY DEF WorkersInv, WorkerInv
  <2>3. deaf[w]
    BY <2>1, <2>2 DEF CallInv
  <2>4. /\ \A d \in Calls : call[w][d].pc # "pending"
        /\ toPrimary[w] = << >> /\ ~Has(dispatchSerial, Jobs(w))
    BY <2>2, <2>3 DEF SelfInv
  <2>5. dispatchSerial \in Seq(JobMsg)
    BY DEF WorkersInv, TypeInv
  <2>6. \A i \in 1..Len(dispatchSerial) : dispatchSerial[i] \in JobMsg
    BY <2>5
  <2>7. \A i \in 1..Len(dispatchSerial) : dispatchSerial[i].worker # w
    BY <2>4, <2>6 DEF Has, Jobs
  <2>8. DOMAIN dispatchSerial = 1..Len(dispatchSerial)
    BY <2>5
  <2> QED BY <2>3, <2>4, <2>7, <2>8
<1> QED BY <1>1, WorkersInvInit, WorkersInvStep, PTL DEF Spec

-----------------------------------------------------------------------------
(* A worker that was acknowledged finds its store                          *)

Acks == {m \in AnsMsg : m.type = "init_ack"}
Missing == {m \in AnsMsg : m.type = "answer" /\ m.answer = "missing"}
Ended == primary = "destroyed" \/ \E v \in Workers : shutDown[v]

StoreInv ==
    \A w \in Workers :
        /\ (ready[w] = "ok" \/ Has(toWorker[w], Acks)) /\ hits = NoStore => Ended
        /\ Has(toWorker[w], Missing) => Ended

\* A job that is run is one of a call under way, of the kind the call has.
LEMMA HeadJob ==
    ASSUME WorkersInv, dispatchSerial # << >>, Head(dispatchSerial).msg.type # "init"
    PROVE  \E w \in Workers, c \in Calls :
              /\ w = Head(dispatchSerial).worker /\ c = Head(dispatchSerial).msg.call
              /\ Queued(w, c) /\ call[w][c].kind = Head(dispatchSerial).msg.type
              /\ ready[w] = "ok" /\ (call[w][c].kind = "shutdown" => shutDown[w])
<1> DEFINE e == Head(dispatchSerial)
<1>1. dispatchSerial \in Seq(JobMsg) /\ TypeInv
  BY DEF WorkersInv, TypeInv
<1>2. /\ e \in JobMsg
      /\ \A M : e \in M => Has(dispatchSerial, M)
  BY <1>1, ChannelTail
<1> HIDE DEF e
<1>3. PICK w \in Workers, c \in Calls : w = e.worker /\ c = e.msg.call
  BY <1>2 DEF JobMsg, ReqMsg, e
<1>4. e \in JobsOf(w, c) /\ (e.msg.type # call[w][c].kind => e \in WrongJobs(w, c, call[w][c].kind))
  BY <1>2, <1>3 DEF JobsOf, WrongJobs, Requests, JobMsg, e
<1>5. Queued(w, c)
  BY <1>2, <1>4 DEF Queued
<1>6. FlightInv(w, c) /\ CallInv(w, c)
  BY DEF WorkersInv, WorkerInv
<1>7. call[w][c].kind = e.msg.type
  <2>1. ~Has(dispatchSerial, WrongJobs(w, c, call[w][c].kind))
    BY <1>6 DEF FlightInv
  <2> QED BY <1>2, <1>4, <2>1
<1>8. ready[w] = "ok" /\ (call[w][c].kind = "shutdown" => shutDown[w])
  BY <1>5, <1>6 DEF CallInv
<1> QED BY <1>3, <1>5, <1>7, <1>8 DEF e

LEMMA EndedStays == ASSUME TypeInv, Ended, [Next]_vars PROVE Ended'
<1>1. CASE UNCHANGED vars \/ PrimaryInit \/ Destroy
  BY <1>1 DEF vars, PrimaryInit, Destroy, workerVars, Ended
<1>2. CASE Dispatch
  BY <1>2, DispatchForm DEF Ended
<1>3. ASSUME NEW w \in Workers, WorkerStep(w) PROVE Ended'
  <2>1. primary' = primary /\ \A v \in Workers : shutDown[v] => shutDown'[v]
    BY <1>3, WorkerFrame
  <2> QED BY <2>1 DEF Ended
<1> QED BY <1>1, <1>2, <1>3 DEF Next

\* The store goes by a shutdown or by destroy() only.
LEMMA StoreGoes ==
    ASSUME WorkersInv, [Next]_vars, hits # NoStore, hits' = NoStore
    PROVE  Ended'
<1>0. TypeInv
  BY DEF WorkersInv
<1>1. CASE UNCHANGED vars \/ PrimaryInit
  BY <1>1 DEF vars, PrimaryInit
<1>2. CASE Destroy
  BY <1>2 DEF Destroy, Ended
<1>3. CASE Dispatch
  <2>1. Head(dispatchSerial).msg.type = "shutdown"
    <3>1. hits \in Nat /\ NoStore \notin Nat
      BY <1>0 DEF TypeInv, NoStore
    <3>2. hits + 1 \in Nat /\ 0 \in Nat /\ (hits > 0 => hits - 1 \in Nat)
      BY <3>1
    <3> QED BY <1>3, <3>1, <3>2 DEF Dispatch, HandleInit, HandleMissing, HandleIncrement,
                                    HandleDecrement, HandleReset
  <2>2. PICK w \in Workers : shutDown[w]
    BY <1>3, <2>1, HeadJob, <1>0, DispatchForm
  <2> QED BY <1>0, <1>3, <2>2, DispatchForm DEF Ended
<1>4. ASSUME NEW w \in Workers, WorkerStep(w) PROVE Ended'
  BY <1>0, <1>4, WorkerFrame
<1> QED BY <1>1, <1>2, <1>3, <1>4 DEF Next

\* A worker takes messages out of its pipe; only the acknowledgement makes it ready.
LEMMA TakesOut ==
    ASSUME TypeInv, NEW w \in Workers, WorkerStep(w)
    PROVE  /\ \A M : Has(toWorker'[w], M) => Has(toWorker[w], M)
           /\ ready'[w] = "ok" => ready[w] = "ok" \/ Has(toWorker[w], Acks)
<1>1. CASE Receive(w)
  <2> DEFINE s == toWorker[w]
  <2>1. s \in Seq(AnsMsg) /\ s # << >> /\ (toWorker'[w] = << >> \/ toWorker'[w] = Tail(s))
    BY <1>1, Channels DEF Receive, TypeInv
  <2>2. ready'[w] = "ok" => ready[w] = "ok" \/ Head(s).type = "init_ack"
    BY <1>1 DEF Receive, TypeInv
  <2> HIDE DEF s
  <2>3. ASSUME NEW M
        PROVE  Has(s, M) <=> Head(s) \in M \/ Has(Tail(s), M)
    BY <2>1, ChannelTail
  <2>4. Head(s) \in AnsMsg
    BY <2>1, ChannelTail
  <2>5. ASSUME NEW M, Has(toWorker'[w], M) PROVE Has(s, M)
    BY <2>1, <2>3, <2>5, EmptyChannel
  <2>6. Head(s).type = "init_ack" => Has(s, Acks)
    BY <2>3, <2>4 DEF Acks
  <2> QED BY <2>2, <2>5, <2>6 DEF s
<1>2. CASE ~Receive(w)
  <2>1. toWorker'[w] = toWorker[w] \/ toWorker'[w] = << >>
    BY <1>2, WorkerFrame
  <2>2. \A M : Has(toWorker'[w], M) => Has(toWorker[w], M)
    BY <2>1, EmptyChannel
  <2>3. ready'[w] = "ok" => ready[w] = "ok"
    <3>1. CASE Construct(w) \/ InitTimeout(w) \/ Crash(w) \/ Arrive(w)
      BY <3>1 DEF Construct, InitTimeout, Crash, Arrive, workerVars, TypeInv
    <3>2. ASSUME NEW c \in Calls, Start(w, c) \/ StartUndo(w, c) \/ Ask(w, c) \/ AskShutdown(w, c)
                                     \/ Timeout(w, c)
          PROVE  ready' = ready
      BY <3>2 DEF Start, StartUndo, Ask, AskShutdown, Timeout
    <3> QED BY <1>2, <3>1, <3>2 DEF WorkerStep
  <2> QED BY <2>2, <2>3
<1> QED BY <1>1, <1>2

LEMMA StoreStep ==
    ASSUME WorkersInv, StoreInv, [Next]_vars
    PROVE  StoreInv'
<1>0. TypeInv
  BY DEF WorkersInv
<1>1. CASE Ended
  <2>1. Ended'
    BY <1>0, <1>1, EndedStays
  <2> QED BY <2>1 DEF StoreInv
<1>2. CASE ~Ended
  <2>0. ASSUME NEW u \in Workers
        PROVE  ~Has(toWorker[u], Missing) /\
               (hits = NoStore => ready[u] # "ok" /\ ~Has(toWorker[u], Acks))
    BY <1>2 DEF StoreInv
  <2>1. CASE UNCHANGED vars \/ PrimaryInit \/ Destroy
    <3>1. UNCHANGED <<ready, toWorker, shutDown>> /\ (UNCHANGED hits \/ Ended')
      BY <2>1 DEF vars, PrimaryInit, Destroy, workerVars, Ended
    <3> QED BY <2>0, <3>1 DEF StoreInv
  <2>2. CASE Dispatch
    <3>1. PICK w \in Workers, a \in AnsMsg :
              /\ a.type = "answer" =>
                    /\ Head(dispatchSerial).msg.type # "init"
                    /\ a.answer = "missing" => hits = NoStore
              /\ a.type = "init_ack" => hits' # NoStore
              /\ toWorker'[w] = toWorker[w]
                   \/ (alive[w] /\ ~deaf[w] /\ toWorker'[w] = Append(toWorker[w], a))
              /\ \A v \in Workers \ {w} : toWorker'[v] = toWorker[v]
      BY <1>0, <2>2, DispatchAnswer
    <3>2. dispatchSerial # << >> /\ ready' = ready
      BY <1>0, <2>2, DispatchForm
    <3>3. a \notin Missing
      <4>1. CASE a.type = "answer" /\ a.answer = "missing"
        <5>1. \E u \in Workers : ready[u] = "ok"
          BY <3>1, <3>2, <4>1, HeadJob
        <5> QED BY <2>0, <3>1, <4>1, <5>1
      <4> QED BY <4>1 DEF Missing
    <3>4. hits' = NoStore => a \notin Acks
      BY <3>1 DEF Acks
    <3>5. ASSUME NEW u \in Workers, NEW M
          PROVE  Has(toWorker'[u], M) => Has(toWorker[u], M) \/ a \in M
      <4>1. toWorker[w] \in Seq(AnsMsg)
        BY <1>0, Channels
      <4>2. Has(Append(toWorker[w], a), M) <=> Has(toWorker[w], M) \/ a \in M
        BY <4>1, ChannelAppend
      <4>3. CASE u = w
        BY <3>1, <4>2, <4>3
      <4>4. CASE u # w
        BY <3>1, <4>4
      <4> QED BY <4>3, <4>4
    <3>6. \A u \in Workers : ~Has(toWorker'[u], Missing)
      BY <2>0, <3>3, <3>5
    <3>7. CASE hits' = NoStore /\ hits = NoStore
      <4>1. \A u \in Workers : ready'[u] # "ok" /\ ~Has(toWorker'[u], Acks)
        BY <2>0, <3>2, <3>4, <3>5, <3>7
      <4> QED BY <3>6, <4>1, <3>7 DEF StoreInv, Missing, Acks
    <3>8. CASE hits' # NoStore
      BY <3>6, <3>8 DEF StoreInv, Missing
    <3>9. CASE hits' = NoStore /\ hits # NoStore
      BY <3>9, StoreGoes DEF StoreInv
    <3> QED BY <3>7, <3>8, <3>9
  <2>3. ASSUME NEW w \in Workers, WorkerStep(w) PROVE StoreInv'
    <3>1. hits' = hits
      BY <1>0, <2>3, WorkerFrame
    <3>2. ASSUME NEW u \in Workers, NEW M
          PROVE  /\ Has(toWorker'[u], M) => Has(toWorker[u], M)
                 /\ ready'[u] = "ok" => ready[u] = "ok" \/ Has(toWorker[u], Acks)
      <4>1. CASE u = w
        BY <1>0, <2>3, <4>1, TakesOut
      <4>2. CASE u # w
        BY <1>0, <2>3, <4>2, WorkerFrame
      <4> QED BY <4>1, <4>2
    <3>3. ASSUME NEW u \in Workers
          PROVE  ~Has(toWorker'[u], Missing) /\
                 (hits' = NoStore => ready'[u] # "ok" /\ ~Has(toWorker'[u], Acks))
      BY <2>0, <3>1, <3>2
    <3> QED BY <3>3 DEF StoreInv, Missing, Acks
  <2> QED BY <2>1, <2>2, <2>3 DEF Next
<1> QED BY <1>1, <1>2

LEMMA StoreInit == Init => StoreInv
<1> SUFFICES ASSUME Init, NEW w \in Workers
             PROVE  ready[w] # "ok" /\ toWorker[w] = << >>
  BY EmptyChannel DEF StoreInv
<1> QED BY DEF Init

\* However many workers there are and however late, lost or refused their init was: a
\* request is answered "Store not initialized" only after a shutdown() or destroy().
THEOREM MissingMeansShutdown == Spec => []MissingOnlyAfterShutdown
<1>1. WorkersInv /\ StoreInv => MissingOnlyAfterShutdown
  <2> SUFFICES ASSUME WorkersInv, StoreInv, NEW w \in Workers, NEW i \in DOMAIN toWorker[w],
                      toWorker[w][i].type = "answer", toWorker[w][i].answer = "missing"
               PROVE  Ended
    BY DEF MissingOnlyAfterShutdown, Ended
  <2>1. toWorker[w] \in Seq(AnsMsg)
    BY DEF WorkersInv, TypeInv
  <2>2. i \in 1..Len(toWorker[w]) /\ toWorker[w][i] \in AnsMsg
    BY <2>1
  <2>3. Has(toWorker[w], Missing)
    BY <2>2 DEF Has, Missing
  <2> QED BY <2>3 DEF StoreInv
<1>2. Init => WorkersInv /\ StoreInv
  BY WorkersInvInit, StoreInit
<1>3. WorkersInv /\ StoreInv /\ [Next]_vars => (WorkersInv /\ StoreInv)'
  BY WorkersInvStep, StoreStep
<1> QED BY <1>1, <1>2, <1>3, PTL DEF Spec

-----------------------------------------------------------------------------
(* A hit that is counted is answered                                       *)

\* The answers that tell the caller of c that its hit was counted, and admitted.
GoodAnswers(c) == {m \in Answers(c) : m.kind = "increment" /\ m.answer \in {"allowed", "blocked"}}
AllowedAnswers(c) == {m \in Answers(c) : m.kind = "increment" /\ m.answer = "allowed"}

\* A counted increment is under way no more; its caller has settled or will be told.
Told(w, c) ==
    /\ ~Out(w, c) /\ ~Queued(w, c) /\ call[w][c].pc \notin {"idle", "waiting"}
    /\ alive[w] /\ call[w][c].pc = "pending" => Has(toWorker[w], GoodAnswers(c))

CountedInv ==
    \A w \in Workers, c \in Calls : <<w, c>> \in counted =>
        /\ call[w][c].kind \in {"increment", "decrement"}
        /\ call[w][c].kind = "increment" => Told(w, c)

\* In a worker that hears nothing no promise is open.
LEMMA DeafSettled ==
    ASSUME NEW w \in Workers, WorkerInv(w), deaf[w]
    PROVE  \A c \in Calls : call[w][c].pc # "pending"
BY DEF WorkerInv, SelfInv, CallInv

LEMMA SendOther ==
    ASSUME TypeInv, NEW w \in Workers, NEW m \in ReqMsg, Send(w, m), NEW c \in Calls,
           m \notin Requests(c)
    PROVE  Out(w, c)' = Out(w, c)
<1>1. Has(toPrimary'[w], Requests(c)) <=> Has(toPrimary[w], Requests(c))
  <2>1. \A M : Has(toPrimary'[w], M) <=> Has(toPrimary[w], M) \/ m \in M
    BY SendAppends
  <2> QED BY <2>1
<1> QED BY <1>1 DEF Out, Requests, Has

\* What a step of w does to a call of w that has been sent: it is not sent again, except
\* to be undone, and is allowed only by an answer.
CallFrame(w, c) ==
    /\ call'[w][c].kind = call[w][c].kind
          \/ (call[w][c].kind = "increment" /\ call'[w][c].kind = "decrement")
    /\ call'[w][c].kind = "increment" /\ call'[w][c].pc = "allowed" =>
          call[w][c].pc = "allowed" \/ Has(toWorker[w], AllowedAnswers(c))
    /\ call'[w][c].kind = "increment" /\ call[w][c].pc \notin {"idle", "waiting"} =>
          /\ Out(w, c)' \/ Queued(w, c)' => Out(w, c) \/ Queued(w, c)
          /\ call'[w][c].pc \notin {"idle", "waiting"}
          /\ call'[w][c].pc = "pending" => call[w][c].pc = "pending"
          /\ call'[w][c].pc = "pending" /\ alive'[w] /\ Has(toWorker[w], GoodAnswers(c))
                => Has(toWorker'[w], GoodAnswers(c))

LEMMA ReceiveFrame ==
    ASSUME TypeInv, NEW w \in Workers, WorkerInv(w), WorkerInv(w)', Receive(w), NEW c \in Calls
    PROVE  CallFrame(w, c)
<1> DEFINE m == Head(toWorker[w])
           s == toWorker[w]
<1>1. /\ s # << >> /\ s \in Seq(AnsMsg) /\ alive' = alive
      /\ UNCHANGED <<toPrimary, dispatchSerial>>
      /\ toWorker'[w] = Tail(s) \/ (toWorker'[w] = << >> /\ deaf'[w])
      /\ call' = IF ~IsPending(w, m) THEN call
                 ELSE [call EXCEPT ![w][m.call].pc = Outcome(m.kind, m.answer)]
  BY Channels DEF Receive, TypeInv
<1>2. m \in AnsMsg /\ \A M : Has(s, M) <=> m \in M \/ Has(Tail(s), M)
  BY <1>1, ChannelTail
<1>3. /\ call'[w][c].kind = call[w][c].kind
      /\ ~(IsPending(w, m) /\ m.call = c) => call'[w][c] = call[w][c]
      /\ IsPending(w, m) /\ m.call = c => call'[w][c].pc = Outcome(m.kind, m.answer)
  <2>1. CASE ~IsPending(w, m)
    BY <1>1, <2>1
  <2>2. CASE IsPending(w, m)
    <3>1. m.type = "answer" /\ m.call \in Calls
      BY <1>2, <2>2 DEF IsPending, AnsMsg
    <3>2. Outcome(m.kind, m.answer) \in Pcs
      BY <1>2, <3>1, OutcomeType DEF Pcs, Settled
    <3>3. SetPc(w, m.call, Outcome(m.kind, m.answer))
      BY <1>1, <2>2 DEF SetPc
    <3> HIDE DEF m
    <3>4. /\ call'[w][c].kind = call[w][c].kind
          /\ call'[w][c].pc = IF c = m.call THEN Outcome(m.kind, m.answer) ELSE call[w][c].pc
          /\ \A d \in Calls \ {m.call} : call'[w][d] = call[w][d]
      BY <3>1, <3>2, <3>3, SetPcValue
    <3>5. CASE c = m.call
      BY <2>2, <3>4, <3>5
    <3>6. CASE c # m.call
      BY <3>4, <3>6
    <3> QED BY <3>5, <3>6
  <2> QED BY <2>1, <2>2
<1>4. IsPending(w, m) /\ m.call = c =>
         /\ call'[w][c].pc \in {"allowed", "blocked", "resolved", "rejected"}
         /\ call[w][c].pc = "pending" /\ m.kind = call[w][c].kind /\ m \in Answers(c)
         /\ call'[w][c].pc = "allowed" /\ call[w][c].kind = "increment" => m \in AllowedAnswers(c)
  BY <1>2, <1>3, OutcomeType DEF IsPending, Answers, AllowedAnswers, Outcome, AnsMsg
<1>5. call[w][c].kind = "increment" /\ call[w][c].pc = "pending" /\ m \in GoodAnswers(c)
         => IsPending(w, m) /\ m.call = c
  <2>1. call[w][c] \in CallType
    BY DEF TypeInv
  <2>2. ASSUME call[w][c].kind = "increment", call[w][c].pc = "pending"
        PROVE  call[w][c] = [kind |-> "increment", pc |-> "pending"]
    BY <2>1, <2>2 DEF CallType
  <2> QED BY <2>2 DEF IsPending, GoodAnswers, Answers
<1>6. (Out(w, c)' <=> Out(w, c)) /\ (Queued(w, c)' <=> Queued(w, c))
  BY <1>1 DEF Out, Queued, Requests, JobsOf, Has
<1>7. deaf'[w] => call'[w][c].pc # "pending"
  BY DEF WorkerInv, SelfInv, CallInv
<1>8. ASSUME call'[w][c].pc = "pending", call[w][c].kind = "increment", Has(s, GoodAnswers(c))
      PROVE  Has(toWorker'[w], GoodAnswers(c))
  <2>1. ~(IsPending(w, m) /\ m.call = c)
    BY <1>4, <1>8
  <2>2. call[w][c].pc = "pending"
    BY <1>3, <1>8, <2>1
  <2>3. m \notin GoodAnswers(c)
    BY <1>5, <1>8, <2>1, <2>2
  <2>4. Has(Tail(s), GoodAnswers(c))
    BY <1>2, <1>8, <2>3
  <2> QED BY <1>1, <1>7, <1>8, <2>4
<1>9. m \in AllowedAnswers(c) => Has(s, AllowedAnswers(c))
  BY <1>2
<1> HIDE DEF m
<1> QED BY <1>1, <1>3, <1>4, <1>6, <1>8, <1>9 DEF CallFrame

LEMMA OwnFrame ==
    ASSUME TypeInv, NEW w \in Workers, WorkerInv(w), WorkerInv(w)', WorkerStep(w), NEW c \in Calls
    PROVE  CallFrame(w, c)
<1>0. \A d \in Calls : call[w][d] \in CallType
  BY Channels
<1>1. CASE Receive(w)
  BY <1>1, ReceiveFrame
<1>2. CASE Construct(w)
  <2>1. UNCHANGED <<call, toWorker, dispatchSerial, alive>>
    BY <1>2 DEF Construct
  <2>2. Out(w, c)' = Out(w, c)
    BY <1>2, InitMsgType, SendOther DEF Construct, Requests
  <2>3. Queued(w, c)' = Queued(w, c)
    BY <2>1 DEF Queued, JobsOf, Has
  <2> QED BY <2>1, <2>2, <2>3 DEF CallFrame
<1>3. CASE InitTimeout(w)
  <2>1. UNCHANGED <<call, toPrimary, dispatchSerial, alive>> /\ deaf'[w]
    BY <1>3 DEF InitTimeout, TypeInv
  <2>2. Out(w, c)' = Out(w, c) /\ Queued(w, c)' = Queued(w, c)
    BY <2>1 DEF Out, Requests, Queued, JobsOf, Has
  <2>3. call'[w][c].pc # "pending"
    BY <2>1 DEF WorkerInv, SelfInv, CallInv
  <2> QED BY <2>1, <2>2, <2>3 DEF CallFrame
<1>4. CASE Crash(w)
  <2>1. UNCHANGED <<call, dispatchSerial>> /\ alive'[w] = FALSE
    BY <1>4 DEF Crash, TypeInv
  <2>2. PICK n \in 0..Len(toPrimary[w]) : toPrimary'[w] = SubSeq(toPrimary[w], 1, n)
    BY <1>4 DEF Crash, TypeInv
  <2>3. toPrimary[w] \in Seq(ReqMsg)
    BY Channels
  <2>4. Has(SubSeq(toPrimary[w], 1, n), Requests(c)) => Has(toPrimary[w], Requests(c))
    BY <2>2, <2>3, ChannelPrefix
  <2>5. Out(w, c)' => Out(w, c)
    BY <2>2, <2>4 DEF Out, Requests
  <2>6. Queued(w, c)' = Queued(w, c)
    BY <2>1 DEF Queued, JobsOf, Has
  <2> QED BY <2>1, <2>5, <2>6 DEF CallFrame
<1>5. CASE Arrive(w)
  <2> DEFINE s == toPrimary[w]
  <2>1. /\ UNCHANGED <<call, toWorker, alive>> /\ s # << >> /\ s \in Seq(ReqMsg)
        /\ toPrimary'[w] = Tail(s) /\ dispatchSerial \in Seq(JobMsg)
    BY <1>5, Channels DEF Arrive, workerVars, TypeInv
  <2>2. \A M : Has(s, M) <=> Head(s) \in M \/ Has(Tail(s), M)
    BY <2>1, ChannelTail
  <2>3. \/ dispatchSerial' = dispatchSerial
        \/ \E e \in JobMsg : e.msg = Head(s) /\ dispatchSerial' = Append(dispatchSerial, e)
    BY QueueFrame
  <2> HIDE DEF s
  <2>4. Out(w, c)' => Out(w, c)
    BY <2>1, <2>2 DEF Out, Requests, s
  <2>5. Queued(w, c)' => Out(w, c) \/ Queued(w, c)
    <3>1. CASE dispatchSerial' = dispatchSerial
      BY <3>1 DEF Queued, JobsOf, Has
    <3>2. ASSUME NEW e \in JobMsg, e.msg = Head(s), dispatchSerial' = Append(dispatchSerial, e)
          PROVE  Queued(w, c)' => Out(w, c) \/ Queued(w, c)
      <4>1. Has(Append(dispatchSerial, e), JobsOf(w, c)) <=>
               Has(dispatchSerial, JobsOf(w, c)) \/ e \in JobsOf(w, c)
        BY <2>1, ChannelAppend
      <4>2. e \in JobsOf(w, c) => Has(s, Requests(c))
        BY <2>2, <3>2 DEF JobsOf
      <4>3. Queued(w, c)' <=> Has(Append(dispatchSerial, e), JobsOf(w, c))
        BY <3>2 DEF Queued, JobsOf, Requests
      <4> QED BY <4>1, <4>2, <4>3 DEF Queued, Out, s
    <3> QED BY <2>3, <3>1, <3>2
  <2> QED BY <2>1, <2>4, <2>5 DEF CallFrame
<1>6. ASSUME NEW d \in Calls,
             \/ Start(w, d) \/ Timeout(w, d) \/ StartUndo(w, d) \/ Ask(w, d) \/ AskShutdown(w, d)
      PROVE  CallFrame(w, c)
  <2>1. UNCHANGED <<toWorker, dispatchSerial, alive>>
    BY <1>6 DEF Start, Timeout, StartUndo, Ask, AskShutdown
  <2>2. Queued(w, c)' = Queued(w, c)
    BY <2>1 DEF Queued, JobsOf, Has
  <2>3. UNCHANGED toPrimary => Out(w, c)' = Out(w, c)
    BY DEF Out, Requests, Has
  <2>4. d # c /\ Send(w, Request(w, d)) => Out(w, c)' = Out(w, c)
    <3>1. Request(w, d) \in ReqMsg /\ Request(w, d).call = d
      BY RequestType
    <3>2. d # c => Request(w, d) \notin Requests(c)
      BY <3>1 DEF Requests
    <3> QED BY <3>1, <3>2, SendOther
  <2>5. ASSUME UNCHANGED toPrimary \/ d # c,
               \/ call'[w][c] = call[w][c]
               \/ call'[w][c].pc \in {"timeout", "rejected", "resolved"}
                    /\ call'[w][c].kind = call[w][c].kind,
               Out(w, c)' = Out(w, c)
        PROVE  CallFrame(w, c)
    BY <2>1, <2>2, <2>5 DEF CallFrame
  <2>6. CASE Start(w, d)
    <3>1. /\ \A b \in Calls \ {d} : call'[w][b] = call[w][b]
          /\ call'[w][d].pc = "waiting" /\ call'[w][d].kind = call[w][d].kind
      BY <2>6, SetPcValue DEF Start, Pcs
    <3>2. call[w][d].pc = "idle" /\ UNCHANGED toPrimary
      BY <2>6 DEF Start
    <3> QED BY <2>1, <2>2, <2>3, <3>1, <3>2 DEF CallFrame
  <2>7. CASE StartUndo(w, d)
    <3>1. /\ \A b \in Calls \ {d} : call'[w][b] = call[w][b]
          /\ call'[w][d].kind = "decrement"
      BY <2>7, StartUndoValue
    <3>2. call[w][d].kind = "increment" /\ UNCHANGED toPrimary
      BY <2>7 DEF StartUndo
    <3> QED BY <2>1, <2>2, <2>3, <3>1, <3>2 DEF CallFrame
  <2>8. CASE Timeout(w, d)
    <3>1. /\ \A b \in Calls \ {d} : call'[w][b] = call[w][b]
          /\ call'[w][d].pc = "timeout" /\ call'[w][d].kind = call[w][d].kind
      BY <2>8, SetPcValue DEF Timeout, Pcs, Settled
    <3>2. UNCHANGED toPrimary
      BY <2>8 DEF Timeout
    <3> QED BY <2>3, <2>5, <3>1, <3>2
  <2>9. CASE Ask(w, d)
    <3>1. call[w][d].pc \in {"idle", "waiting"}
      BY <2>9 DEF Ask, Runs
    <3>2. CASE SetPc(w, d, "rejected") /\ UNCHANGED toPrimary
      <4>1. /\ \A b \in Calls \ {d} : call'[w][b] = call[w][b]
            /\ call'[w][d].pc = "rejected" /\ call'[w][d].kind = call[w][d].kind
        BY <3>2, SetPcValue DEF Pcs, Settled
      <4> QED BY <2>3, <2>5, <3>2, <4>1
    <3>3. CASE SetPc(w, d, "pending") /\ Send(w, Request(w, d))
      <4>1. /\ \A b \in Calls \ {d} : call'[w][b] = call[w][b]
            /\ call'[w][d].kind = call[w][d].kind /\ call'[w][d].pc = "pending"
        BY <3>3, SetPcValue DEF Pcs
      <4>2. CASE d = c
        BY <3>1, <4>1, <4>2 DEF CallFrame
      <4>3. CASE d # c
        BY <2>4, <2>5, <3>3, <4>1, <4>3
      <4> QED BY <4>2, <4>3
    <3> QED BY <2>9, <3>2, <3>3 DEF Ask
  <2>10. CASE AskShutdown(w, d)
    <3>1. call[w][d].pc \in {"idle", "waiting"} /\ call[w][d].kind = "shutdown"
      BY <2>10 DEF AskShutdown, Runs
    <3>2. CASE deaf[w]
      <4>1. SetPc(w, d, "resolved") /\ UNCHANGED toPrimary
        BY <2>10, <3>2 DEF AskShutdown
      <4>2. /\ \A b \in Calls \ {d} : call'[w][b] = call[w][b]
            /\ call'[w][d].pc = "resolved" /\ call'[w][d].kind = call[w][d].kind
        BY <4>1, SetPcValue DEF Pcs, Settled
      <4> QED BY <2>3, <2>5, <4>1, <4>2
    <3>3. CASE ~deaf[w]
      <4>1. /\ \A b \in Calls : /\ call'[w][b].kind = call[w][b].kind
                                /\ call'[w][b].pc = IF b = d THEN "pending"
                                                    ELSE IF call[w][b].pc = "pending" THEN "rejected"
                                                    ELSE call[w][b].pc
            /\ Send(w, Request(w, d))
        BY <2>10, <3>3, AskShutdownValue
      <4>2. CASE d = c
        BY <3>1, <4>1, <4>2 DEF CallFrame
      <4>3. CASE d # c
        <5>1. Out(w, c)' = Out(w, c)
          BY <2>4, <4>1, <4>3
        <5>2. /\ call'[w][c].kind = call[w][c].kind
              /\ call'[w][c].pc = IF call[w][c].pc = "pending" THEN "rejected" ELSE call[w][c].pc
          BY <4>1, <4>3
        <5> QED BY <2>1, <2>2, <5>1, <5>2 DEF CallFrame
      <4> QED BY <4>2, <4>3
    <3> QED BY <3>2, <3>3
  <2> QED BY <1>6, <2>6, <2>7, <2>8, <2>9, <2>10
<1> QED BY <1>1, <1>2, <1>3, <1>4, <1>5, <1>6 DEF WorkerStep

\* An increment that the primary runs: it finds no store, or it is counted and answered.
LEMMA DispatchIncrement ==
    ASSUME WorkersInv, Dispatch, Head(dispatchSerial).msg.type = "increment"
    PROVE  \E w \in Workers, c \in Calls : \E a \in Answers(c) :
              /\ Queued(w, c) /\ call[w][c].kind = "increment" /\ a.kind = "increment"
              /\ w = Head(dispatchSerial).worker /\ c = Head(dispatchSerial).msg.call
              /\ toWorker'[w] = IF alive[w] /\ ~deaf[w] THEN Append(toWorker[w], a) ELSE toWorker[w]
              /\ \A v \in Workers \ {w} : toWorker'[v] = toWorker[v]
              /\ \/ hits = NoStore /\ a.answer = "missing" /\ UNCHANGED <<hits, counted, faults>>
                 \/ /\ hits # NoStore /\ hits' = hits + 1 /\ counted' = counted \union {<<w, c>>}
                    /\ faults' = faults
                    /\ a.answer = IF hits < Limit THEN "allowed" ELSE "blocked"
<1>0. TypeInv /\ dispatchSerial # << >>
  BY DispatchForm DEF WorkersInv
<1>1. PICK w \in Workers, c \in Calls :
              /\ w = Head(dispatchSerial).worker /\ c = Head(dispatchSerial).msg.call
              /\ Queued(w, c) /\ call[w][c].kind = "increment"
  BY <1>0, HeadJob
<1> DEFINE msg == Head(dispatchSerial).msg
<1>2. HandleMissing(w, msg) \/ HandleIncrement(w, msg)
  BY <1>1 DEF Dispatch
<1>3. msg.call = c /\ msg.type = "increment"
  BY <1>1
<1> HIDE DEF msg
<1>4. ASSUME NEW answer \in {"allowed", "blocked", "missing"}, Reply(w, Answer(msg, answer))
      PROVE  \E a \in Answers(c) :
                /\ a.kind = "increment" /\ a.answer = answer
                /\ toWorker'[w] = IF alive[w] /\ ~deaf[w] THEN Append(toWorker[w], a) ELSE toWorker[w]
                /\ \A v \in Workers \ {w} : toWorker'[v] = toWorker[v]
  <2> DEFINE a == Answer(msg, answer)
  <2>1. a \in AnsMsg /\ a.type = "answer" /\ a.call = c /\ a.kind = "increment" /\ a.answer = answer
    BY <1>3 DEF Answer, AnsMsg
  <2> HIDE DEF a
  <2>2. Reply(w, a)
    BY <1>4 DEF a
  <2>3. /\ toWorker'[w] = IF alive[w] /\ ~deaf[w] THEN Append(toWorker[w], a) ELSE toWorker[w]
        /\ \A v \in Workers \ {w} : toWorker'[v] = toWorker[v]
    BY <1>0, <2>1, <2>2, ReplyValue
  <2> QED BY <2>1, <2>3 DEF Answers
<1>5. CASE HandleMissing(w, msg)
  <2>1. PICK a \in Answers(c) :
                /\ a.kind = "increment" /\ a.answer = "missing"
                /\ toWorker'[w] = IF alive[w] /\ ~deaf[w] THEN Append(toWorker[w], a) ELSE toWorker[w]
                /\ \A v \in Workers \ {w} : toWorker'[v] = toWorker[v]
    BY <1>4, <1>5 DEF HandleMissing
  <2>2. hits = NoStore /\ UNCHANGED <<hits, counted, faults>>
    BY <1>5 DEF HandleMissing
  <2> QED BY <1>1, <2>1, <2>2
<1>6. CASE HandleIncrement(w, msg)
  <2> DEFINE answer == IF hits < Limit THEN "allowed" ELSE "blocked"
  <2>1. answer \in {"allowed", "blocked", "missing"} /\ Reply(w, Answer(msg, answer))
    BY <1>6 DEF HandleIncrement
  <2>2. PICK a \in Answers(c) :
                /\ a.kind = "increment" /\ a.answer = answer
                /\ toWorker'[w] = IF alive[w] /\ ~deaf[w] THEN Append(toWorker[w], a) ELSE toWorker[w]
                /\ \A v \in Workers \ {w} : toWorker'[v] = toWorker[v]
    BY <1>4, <2>1
  <2>3. /\ hits # NoStore /\ hits' = hits + 1 /\ counted' = counted \union {<<w, c>>}
        /\ faults' = faults
    BY <1>3, <1>6 DEF HandleIncrement
  <2> QED BY <1>1, <2>2, <2>3
<1> QED BY <1>2, <1>5, <1>6

\* What running a job leaves to every call.
LEMMA DispatchFrame ==
    ASSUME TypeInv, Dispatch, NEW u \in Workers, NEW d \in Calls
    PROVE  /\ Out(u, d)' = Out(u, d) /\ (Queued(u, d)' => Queued(u, d))
           /\ \A M : Has(toWorker[u], M) => Has(toWorker'[u], M)
           /\ UNCHANGED <<call, alive>>
<1>1. /\ dispatchSerial # << >> /\ dispatchSerial' = Tail(dispatchSerial)
      /\ UNCHANGED <<call, alive, toPrimary>> /\ dispatchSerial \in Seq(JobMsg)
  BY DispatchForm DEF TypeInv
<1>2. Out(u, d)' = Out(u, d)
  BY <1>1 DEF Out, Requests, Has
<1>3. Has(dispatchSerial, JobsOf(u, d)) <=>
         Head(dispatchSerial) \in JobsOf(u, d) \/ Has(Tail(dispatchSerial), JobsOf(u, d))
  BY <1>1, ChannelTail
<1>4. Queued(u, d)' <=> Has(Tail(dispatchSerial), JobsOf(u, d))
  BY <1>1 DEF Queued, JobsOf, Requests
<1>5. ASSUME NEW M, Has(toWorker[u], M) PROVE Has(toWorker'[u], M)
  <2>1. PICK w \in Workers, a \in AnsMsg :
           /\ toWorker'[w] = toWorker[w] \/ toWorker'[w] = Append(toWorker[w], a)
           /\ \A v \in Workers \ {w} : toWorker'[v] = toWorker[v]
    BY DispatchAnswer
  <2>2. toWorker[w] \in Seq(AnsMsg)
    BY Channels
  <2>3. Has(Append(toWorker[w], a), M) <=> Has(toWorker[w], M) \/ a \in M
    BY <2>2, ChannelAppend
  <2>4. CASE u = w
    BY <1>5, <2>1, <2>3, <2>4
  <2>5. CASE u # w
    BY <1>5, <2>1, <2>5
  <2> QED BY <2>4, <2>5
<1> QED BY <1>1, <1>2, <1>3, <1>4, <1>5 DEF Queued

\* A job that runs is in the queue no more.
LEMMA JobGone ==
    ASSUME WorkersInv, Dispatch, NEW w \in Workers, NEW c \in Calls,
           w = Head(dispatchSerial).worker, c = Head(dispatchSerial).msg.call,
           Head(dispatchSerial).msg.type # "init"
    PROVE  ~Queued(w, c)'
<1>1. /\ dispatchSerial # << >> /\ dispatchSerial' = Tail(dispatchSerial)
      /\ dispatchSerial \in Seq(JobMsg) /\ Head(dispatchSerial) \in JobMsg
  BY DispatchForm DEF TypeInv, WorkersInv
<1>2. Head(dispatchSerial) \in JobsOf(w, c)
  BY <1>1 DEF JobsOf, Requests, JobMsg
<1>3. NoneAfter(dispatchSerial, JobsOf(w, c), JobsOf(w, c))
  BY DEF WorkersInv, WorkerInv, FlightInv
<1>4. ~Has(Tail(dispatchSerial), JobsOf(w, c))
  BY <1>1, <1>2, <1>3, ChannelTail
<1>5. Queued(w, c)' <=> Has(Tail(dispatchSerial), JobsOf(w, c))
  BY <1>1 DEF Queued, JobsOf, Requests
<1> QED BY <1>4, <1>5

\* Only an increment that finds the store is added to the counted ones.
LEMMA OthersNotCounted ==
    ASSUME Dispatch, Head(dispatchSerial).msg.type # "increment"
    PROVE  counted' \subseteq counted
BY DEF Dispatch, HandleInit, HandleMissing, HandleDecrement, HandleReset, HandleShutdown

\* A worker does not come back to life.
LEMMA AliveBefore ==
    ASSUME TypeInv, NEW w \in Workers, WorkerStep(w), alive'[w]
    PROVE  alive[w]
<1>1. CASE Construct(w) \/ InitTimeout(w) \/ Receive(w) \/ Arrive(w)
  BY <1>1 DEF Construct, InitTimeout, Receive, Arrive, workerVars
<1>2. CASE Crash(w)
  BY <1>2 DEF Crash
<1>3. ASSUME NEW c \in Calls, Start(w, c) \/ StartUndo(w, c) \/ Ask(w, c) \/ AskShutdown(w, c)
                                 \/ Timeout(w, c)
      PROVE  alive' = alive
  BY <1>3 DEF Start, StartUndo, Ask, AskShutdown, Timeout
<1> QED BY <1>1, <1>2, <1>3 DEF WorkerStep

LEMMA CountedStep ==
    ASSUME WorkersInv, WorkersInv', CountedInv, [Next]_vars
    PROVE  CountedInv'
<1>0. TypeInv /\ TypeInv' /\ \A v \in Workers : WorkerInv(v) /\ WorkerInv(v)'
  BY DEF WorkersInv
<1> SUFFICES ASSUME NEW u \in Workers, NEW d \in Calls, <<u, d>> \in counted'
             PROVE  /\ call'[u][d].kind \in {"increment", "decrement"}
                    /\ call'[u][d].kind = "increment" => Told(u, d)'
  BY DEF CountedInv
<1>1. CASE UNCHANGED vars \/ PrimaryInit \/ Destroy
  <2>1. UNCHANGED <<call, alive, toPrimary, toWorker, dispatchSerial, counted>>
    BY <1>1 DEF vars, PrimaryInit, Destroy, workerVars
  <2> QED BY <2>1 DEF CountedInv, Told, Out, Queued, Requests, JobsOf, Has, GoodAnswers, Answers
<1>2. CASE Dispatch
  <2>0. /\ Out(u, d)' = Out(u, d) /\ (Queued(u, d)' => Queued(u, d))
        /\ \A M : Has(toWorker[u], M) => Has(toWorker'[u], M)
        /\ UNCHANGED <<call, alive>>
    BY <1>0, <1>2, DispatchFrame
  <2>1. CASE <<u, d>> \in counted
    <3>1. Has(toWorker[u], GoodAnswers(d)) => Has(toWorker'[u], GoodAnswers(d))
      BY <2>0
    <3> QED BY <2>0, <2>1, <3>1 DEF CountedInv, Told, GoodAnswers, Answers
  <2>2. CASE <<u, d>> \notin counted
    <3>1. Head(dispatchSerial).msg.type = "increment"
      BY <1>2, <2>2, OthersNotCounted
    <3>2. PICK w \in Workers, c \in Calls : \E a \in Answers(c) :
              /\ Queued(w, c) /\ call[w][c].kind = "increment" /\ a.kind = "increment"
              /\ w = Head(dispatchSerial).worker /\ c = Head(dispatchSerial).msg.call
              /\ toWorker'[w] = IF alive[w] /\ ~deaf[w] THEN Append(toWorker[w], a) ELSE toWorker[w]
              /\ \/ counted' = counted
                 \/ /\ counted' = counted \union {<<w, c>>}
                    /\ a.answer \in {"allowed", "blocked"}
      BY <1>2, <3>1, DispatchIncrement
    <3>3. PICK a \in Answers(c) :
              /\ a.kind = "increment"
              /\ toWorker'[w] = IF alive[w] /\ ~deaf[w] THEN Append(toWorker[w], a) ELSE toWorker[w]
              /\ \/ counted' = counted
                 \/ /\ counted' = counted \union {<<w, c>>}
                    /\ a.answer \in {"allowed", "blocked"}
      BY <3>2
    <3>4. u = w /\ d = c /\ a \in GoodAnswers(c)
      BY <2>2, <3>3 DEF GoodAnswers
    <3>5. ~Queued(w, c)'
      BY <1>2, <3>1, <3>2, JobGone
    <3>6. ~Out(w, c) /\ call[w][c].pc \in Open
      BY <1>0, <3>2 DEF WorkerInv, FlightInv
    <3>7. call[w][c].pc = "pending" => ~deaf[w]
      BY <1>0, DeafSettled
    <3>8. alive[w] /\ call[w][c].pc = "pending" => Has(toWorker'[w], GoodAnswers(c))
      <4>1. toWorker[w] \in Seq(AnsMsg) /\ a \in AnsMsg
        BY <1>0, Channels DEF Answers
      <4>2. Has(Append(toWorker[w], a), GoodAnswers(c))
        BY <3>4, <4>1, ChannelAppend
      <4> QED BY <3>3, <3>7, <4>2
    <3> QED BY <2>0, <3>2, <3>4, <3>5, <3>6, <3>8 DEF Told, Open, GoodAnswers, Answers
  <2> QED BY <2>1, <2>2
<1>3. ASSUME NEW w \in Workers, WorkerStep(w)
      PROVE  /\ call'[u][d].kind \in {"increment", "decrement"}
             /\ call'[u][d].kind = "increment" => Told(u, d)'
  <2>1. <<u, d>> \in counted
    BY <1>0, <1>3, WorkerFrame
  <2>2. /\ call[u][d].kind \in {"increment", "decrement"}
        /\ call[u][d].kind = "increment" => Told(u, d)
    BY <2>1 DEF CountedInv
  <2>3. CASE u = w
    <3>1. CallFrame(u, d)
      BY <1>0, <1>3, <2>3, OwnFrame
    <3>2. call'[u][d].kind \in {"increment", "decrement"}
      BY <2>2, <3>1 DEF CallFrame
    <3>3. ASSUME call'[u][d].kind = "increment"
          PROVE  Told(u, d)'
      <4>1. Told(u, d)
        BY <2>2, <3>1, <3>3 DEF CallFrame
      <4>2. /\ ~Out(u, d)' /\ ~Queued(u, d)' /\ call'[u][d].pc \notin {"idle", "waiting"}
            /\ call'[u][d].pc = "pending" => call[u][d].pc = "pending"
            /\ call'[u][d].pc = "pending" /\ alive'[u] /\ Has(toWorker[u], GoodAnswers(d))
                  => Has(toWorker'[u], GoodAnswers(d))
        BY <3>1, <3>3, <4>1 DEF CallFrame, Told
      <4>3. alive'[u] => alive[u]
        BY <1>0, <1>3, <2>3, AliveBefore
      <4>4. alive'[u] /\ call'[u][d].pc = "pending" => Has(toWorker'[u], GoodAnswers(d))
        BY <4>1, <4>2, <4>3 DEF Told
      <4> QED BY <4>2, <4>4 DEF Told, GoodAnswers, Answers
    <3> QED BY <3>2, <3>3
  <2>4. CASE u # w
    <3>1. call'[u] = call[u] /\ toPrimary'[u] = toPrimary[u] /\ toWorker'[u] = toWorker[u]
            /\ alive'[u] = alive[u]
      BY <1>0, <1>3, <2>4, WorkerFrame
    <3>2. Queued(u, d)' = Queued(u, d)
      <4>1. CASE dispatchSerial' = dispatchSerial
        BY <4>1 DEF Queued, JobsOf, Requests
      <4>2. CASE \E e \in JobMsg : e.worker = w /\ dispatchSerial' = Append(dispatchSerial, e)
        <5>1. \A M \in SUBSET Jobs(u) : Has(dispatchSerial', M) <=> Has(dispatchSerial, M)
          BY <1>0, <2>4, <4>2, OthersAppend
        <5>2. JobsOf(u, d) \in SUBSET Jobs(u)
          BY DEF JobsOf, Jobs
        <5>3. Has(dispatchSerial', JobsOf(u, d)) <=> Has(dispatchSerial, JobsOf(u, d))
          BY <5>1, <5>2
        <5> QED BY <5>3 DEF Queued, JobsOf, Requests, Has
      <4> QED BY <1>0, <1>3, <4>1, <4>2, QueueFrame
    <3>3. Out(u, d)' = Out(u, d)
      BY <3>1 DEF Out, Requests, Has
    <3> QED BY <2>2, <3>1, <3>2, <3>3 DEF Told, GoodAnswers, Answers
  <2> QED BY <2>3, <2>4
<1> QED BY <1>1, <1>2, <1>3 DEF Next

\* The primary never counts a hit whose caller is still listening without an answer on its
\* way, whatever the number of workers, calls, crashes and timeouts.
THEOREM CountedAnswered == Spec => []CountedIsAnswered
<1>1. WorkersInv /\ CountedInv => CountedIsAnswered
  <2> SUFFICES ASSUME WorkersInv, CountedInv, NEW wc \in counted
               PROVE  LET w == wc[1]  c == wc[2] IN
                      \/ ~alive[w] \/ call[w][c].kind = "decrement"
                      \/ call[w][c].pc \in {"allowed", "blocked", "timeout", "rejected"}
                      \/ /\ call[w][c].pc = "pending"
                         /\ \E i \in DOMAIN toWorker[w] :
                               /\ toWorker[w][i].type = "answer" /\ toWorker[w][i].call = c
                               /\ toWorker[w][i].kind = "increment"
                               /\ toWorker[w][i].answer \in {"allowed", "blocked"}
    BY DEF CountedIsAnswered
  <2>1. PICK w \in Workers, c \in Calls : wc = <<w, c>>
    BY DEF WorkersInv, TypeInv
  <2>2. /\ call[w][c].kind \in {"increment", "decrement"}
        /\ call[w][c].kind = "increment" => Told(w, c)
    BY <2>1 DEF CountedInv
  <2>3. call[w][c].pc \in Pcs /\ toWorker[w] \in Seq(AnsMsg)
    BY DEF WorkersInv, TypeInv, CallType
  <2>4. call[w][c].kind = "increment" => call[w][c].pc # "resolved"
    BY DEF WorkersInv, WorkerInv, CallInv
  <2>5. CASE call[w][c].kind = "increment" /\ alive[w] /\ call[w][c].pc = "pending"
    <3>1. PICK i \in 1..Len(toWorker[w]) : toWorker[w][i] \in GoodAnswers(c)
      BY <2>2, <2>5 DEF Told, Has
    <3>2. i \in DOMAIN toWorker[w]
      BY <2>3
    <3> QED BY <2>1, <2>5, <3>1, <3>2 DEF GoodAnswers, Answers
  <2>6. CASE call[w][c].kind = "increment" /\ call[w][c].pc # "pending"
    <3>1. call[w][c].pc \in {"allowed", "blocked", "timeout", "rejected"}
      BY <2>2, <2>3, <2>4, <2>6 DEF Told, Pcs, Settled
    <3> QED BY <2>1, <3>1
  <2> QED BY <2>1, <2>2, <2>5, <2>6
<1>2. Init => WorkersInv /\ CountedInv
  BY WorkersInvInit DEF Init, CountedInv
<1>3. WorkersInv /\ CountedInv /\ [Next]_vars => (WorkersInv /\ CountedInv)'
  BY WorkersInvStep, CountedStep
<1> QED BY <1>1, <1>2, <1>3, PTL DEF Spec

-----------------------------------------------------------------------------
(* The workers together are held to the limit                              *)

\* The counted increments that were admitted, the caller having been told or not.
Promised == {wc \in counted :
    /\ call[wc[1]][wc[2]].kind = "increment"
    /\ \/ call[wc[1]][wc[2]].pc = "allowed"
       \/ Has(toWorker[wc[1]], AllowedAnswers(wc[2]))}

\* Without a fault the store's count is the number of the counted increments.
CountKept == /\ hits = NoStore => counted = {}
             /\ hits # NoStore => hits = Cardinality(counted)

AdmitInv == /\ IsFiniteSet(counted)
            /\ faults = {} => CountKept /\ Cardinality(Promised) <= Limit

LEMMA PromisedMember ==
    ASSUME TypeInv, NEW w \in Workers, NEW c \in Calls
    PROVE  <<w, c>> \in Promised <=>
             /\ <<w, c>> \in counted /\ call[w][c].kind = "increment"
             /\ call[w][c].pc = "allowed" \/ Has(toWorker[w], AllowedAnswers(c))
BY DEF Promised

LEMMA SmallerPromise ==
    ASSUME IsFiniteSet(counted), Promised' \subseteq Promised, Cardinality(Promised) <= Limit
    PROVE  Cardinality(Promised') <= Limit
<1> DEFINE P == Promised
           Q == Promised'
<1>1. P \subseteq counted
  BY DEF Promised
<1> HIDE DEF P, Q
<1>2. IsFiniteSet(P)
  BY <1>1, FS_Subset
<1>3. Q \subseteq P
  BY DEF P, Q
<1>4. IsFiniteSet(Q) /\ Cardinality(Q) <= Cardinality(P)
  BY <1>2, <1>3, FS_Subset
<1>5. Cardinality(P) \in Nat /\ Cardinality(Q) \in Nat /\ Limit \in Nat
  BY <1>2, <1>4, FS_CardinalityType, ClusterAssumption
<1>6. Cardinality(P) <= Limit
  BY DEF P
<1>7. Cardinality(Q) <= Limit
  BY <1>4, <1>5, <1>6
<1> QED BY <1>7 DEF Q

\* Nothing is promised but by an increment that finds room.
LEMMA PromiseFrame ==
    ASSUME WorkersInv, WorkersInv', CountedInv, [Next]_vars, counted' \subseteq counted
    PROVE  Promised' \subseteq Promised
<1>0. TypeInv /\ TypeInv' /\ \A v \in Workers : WorkerInv(v) /\ WorkerInv(v)'
  BY DEF WorkersInv
<1> SUFFICES ASSUME NEW wc \in Promised' PROVE wc \in Promised
  OBVIOUS
<1>a. wc \in counted' /\ wc \in counted
  BY DEF Promised
<1>b. PICK u \in Workers, d \in Calls : wc = <<u, d>>
  BY <1>0, <1>a DEF TypeInv
<1>c. /\ call'[u][d].kind = "increment"
      /\ call'[u][d].pc = "allowed" \/ Has(toWorker'[u], AllowedAnswers(d))
  <2>1. wc[1] = u /\ wc[2] = d
    BY <1>b
  <2> QED BY <2>1 DEF Promised, AllowedAnswers, Answers
<1> SUFFICES /\ call[u][d].kind = "increment"
             /\ call[u][d].pc = "allowed" \/ Has(toWorker[u], AllowedAnswers(d))
  BY <1>0, <1>a, <1>b, PromisedMember
<1>1. CASE UNCHANGED vars \/ PrimaryInit \/ Destroy
  <2>1. UNCHANGED <<call, toWorker>>
    BY <1>1 DEF vars, PrimaryInit, Destroy, workerVars
  <2> QED BY <1>c, <2>1
<1>2. CASE Dispatch
  <2>1. PICK w \in Workers, a \in AnsMsg :
              /\ w = Head(dispatchSerial).worker
              /\ a.type = "answer" =>
                    /\ a.call = Head(dispatchSerial).msg.call /\ a.kind = Head(dispatchSerial).msg.type
              /\ toWorker'[w] = toWorker[w] \/ toWorker'[w] = Append(toWorker[w], a)
              /\ \A v \in Workers \ {w} : toWorker'[v] = toWorker[v]
    BY <1>0, <1>2, DispatchAnswer
  <2>2. call' = call
    BY <1>0, <1>2, DispatchForm
  <2>3. CASE Head(dispatchSerial).msg.type # "increment"
    <3>1. a \notin AllowedAnswers(d)
      BY <2>1, <2>3 DEF AllowedAnswers, Answers
    <3>2. toWorker[w] \in Seq(AnsMsg)
      BY <1>0, Channels
    <3>3. Has(Append(toWorker[w], a), AllowedAnswers(d)) <=> Has(toWorker[w], AllowedAnswers(d))
      BY <3>1, <3>2, ChannelAppend
    <3>4. Has(toWorker'[u], AllowedAnswers(d)) => Has(toWorker[u], AllowedAnswers(d))
      BY <2>1, <3>3
    <3> QED BY <1>c, <2>2, <3>4
  <2>4. CASE Head(dispatchSerial).msg.type = "increment"
    <3>1. PICK v \in Workers, c \in Calls : \E b \in Answers(c) :
              /\ Queued(v, c) /\ call[v][c].kind = "increment"
              /\ toWorker'[v] = toWorker[v] \/ toWorker'[v] = Append(toWorker[v], b)
              /\ \A x \in Workers \ {v} : toWorker'[x] = toWorker[x]
              /\ \/ b.answer = "missing"
                 \/ counted' = counted \union {<<v, c>>}
      BY <1>2, <2>4, DispatchIncrement
    <3>2. PICK b \in Answers(c) :
              /\ toWorker'[v] = toWorker[v] \/ toWorker'[v] = Append(toWorker[v], b)
              /\ b.answer = "missing" \/ counted' = counted \union {<<v, c>>}
      BY <3>1
    <3>3. <<v, c>> \notin counted
      BY <3>1 DEF CountedInv, Told
    <3>4. b.answer = "missing"
      BY <3>2, <3>3
    <3>5. toWorker[v] \in Seq(AnsMsg) /\ b \in AnsMsg /\ b \notin AllowedAnswers(d)
      BY <1>0, <3>4, Channels DEF Answers, AllowedAnswers
    <3>6. Has(Append(toWorker[v], b), AllowedAnswers(d)) <=> Has(toWorker[v], AllowedAnswers(d))
      BY <3>5, ChannelAppend
    <3>7. Has(toWorker'[u], AllowedAnswers(d)) => Has(toWorker[u], AllowedAnswers(d))
      BY <3>1, <3>2, <3>6
    <3> QED BY <1>c, <2>2, <3>7
  <2> QED BY <2>3, <2>4
<1>3. ASSUME NEW w \in Workers, WorkerStep(w)
      PROVE  /\ call[u][d].kind = "increment"
             /\ call[u][d].pc = "allowed" \/ Has(toWorker[u], AllowedAnswers(d))
  <2>1. CASE u = w
    <3>1. CallFrame(u, d)
      BY <1>0, <1>3, <2>1, OwnFrame
    <3>2. Has(toWorker'[u], AllowedAnswers(d)) => Has(toWorker[u], AllowedAnswers(d))
      BY <1>0, <1>3, <2>1, TakesOut
    <3> QED BY <1>c, <3>1, <3>2 DEF CallFrame
  <2>2. CASE u # w
    <3>1. call'[u] = call[u] /\ toWorker'[u] = toWorker[u]
      BY <1>0, <1>3, <2>2, WorkerFrame
    <3> QED BY <1>c, <3>1
  <2> QED BY <2>1, <2>2
<1> QED BY <1>1, <1>2, <1>3 DEF Next

\* An increment that is counted.
LEMMA IncrementAdmits ==
    ASSUME WorkersInv, WorkersInv', CountedInv, AdmitInv, Dispatch,
           Head(dispatchSerial).msg.type = "increment"
    PROVE  AdmitInv'
<1>0. TypeInv /\ TypeInv' /\ \A v \in Workers : WorkerInv(v) /\ WorkerInv(v)'
  BY DEF WorkersInv
<1>1. PICK w \in Workers, c \in Calls : \E a \in Answers(c) :
              /\ Queued(w, c) /\ call[w][c].kind = "increment" /\ a.kind = "increment"
              /\ toWorker'[w] = toWorker[w] \/ toWorker'[w] = Append(toWorker[w], a)
              /\ \A v \in Workers \ {w} : toWorker'[v] = toWorker[v]
              /\ \/ UNCHANGED <<hits, counted, faults>>
                 \/ /\ hits # NoStore /\ hits' = hits + 1 /\ counted' = counted \union {<<w, c>>}
                    /\ faults' = faults
                    /\ a.answer = IF hits < Limit THEN "allowed" ELSE "blocked"
  BY DispatchIncrement
<1>2. PICK a \in Answers(c) :
              /\ toWorker'[w] = toWorker[w] \/ toWorker'[w] = Append(toWorker[w], a)
              /\ \/ UNCHANGED <<hits, counted, faults>>
                 \/ /\ hits # NoStore /\ hits' = hits + 1 /\ counted' = counted \union {<<w, c>>}
                    /\ faults' = faults
                    /\ a.answer = IF hits < Limit THEN "allowed" ELSE "blocked"
  BY <1>1
<1>3. /\ <<w, c>> \notin counted /\ ~Back(w, c) /\ call[w][c].pc # "allowed"
  <2>1. <<w, c>> \notin counted
    BY <1>1 DEF CountedInv, Told
  <2>2. FlightInv(w, c)
    BY <1>0 DEF WorkerInv
  <2> QED BY <1>1, <2>1, <2>2 DEF FlightInv, Open
<1>4. call' = call /\ [Next]_vars
  BY <1>0, DispatchForm DEF Next
<1>5. CASE UNCHANGED <<hits, counted, faults>>
  <2>1. Promised' \subseteq Promised
    BY <1>4, <1>5, PromiseFrame
  <2> QED BY <1>5, <2>1, SmallerPromise DEF AdmitInv, CountKept
<1>6. CASE /\ hits # NoStore /\ hits' = hits + 1 /\ counted' = counted \union {<<w, c>>}
           /\ faults' = faults /\ a.answer = IF hits < Limit THEN "allowed" ELSE "blocked"
  <2>0. IsFiniteSet(counted)
    BY DEF AdmitInv
  <2>1. IsFiniteSet(counted') /\ Cardinality(counted') = Cardinality(counted) + 1
    <3> DEFINE x == <<w, c>>
               C == counted
    <3>1. x \notin C /\ IsFiniteSet(C) /\ counted' = C \union {x}
      BY <1>3, <1>6, <2>0
    <3> HIDE DEF x, C
    <3>2. IsFiniteSet(C \union {x}) /\ Cardinality(C \union {x}) = Cardinality(C) + 1
      BY <3>1, FS_AddElement
    <3> QED BY <3>1, <3>2 DEF C
  <2>2. ASSUME faults = {} PROVE CountKept'
    <3>1. hits = Cardinality(counted) /\ hits \in Nat /\ hits' # NoStore
      BY <1>0, <1>6, <2>2 DEF AdmitInv, CountKept, TypeInv, NoStore
    <3> QED BY <1>6, <2>1, <3>1 DEF CountKept
  <2>3. ASSUME faults = {}, hits < Limit PROVE Cardinality(Promised') <= Limit
    <3> DEFINE Q == Promised'
               C == counted'
    <3>1. Q \subseteq C
      BY DEF Promised
    <3>2. hits = Cardinality(counted) /\ hits \in Nat
      BY <1>0, <1>6, <2>3 DEF AdmitInv, CountKept, TypeInv, NoStore
    <3>3. Cardinality(C) <= Limit /\ Limit \in Nat /\ Cardinality(C) \in Nat
      BY <2>1, <2>3, <3>2, ClusterAssumption
    <3>4. IsFiniteSet(C)
      BY <2>1
    <3> HIDE DEF Q, C
    <3>5. IsFiniteSet(Q) /\ Cardinality(Q) <= Cardinality(C)
      BY <3>1, <3>4, FS_Subset
    <3>6. Cardinality(Q) \in Nat
      BY <3>5, FS_CardinalityType
    <3>7. Cardinality(Q) <= Limit
      BY <3>3, <3>5, <3>6
    <3> QED BY <3>7 DEF Q
  <2>4. ASSUME faults = {}, ~(hits < Limit) PROVE Cardinality(Promised') <= Limit
    <3>1. a.answer = "blocked" /\ toWorker[w] \in Seq(AnsMsg) /\ a \in AnsMsg
      BY <1>0, <1>6, <2>4, Channels DEF Answers
    <3>2. ASSUME NEW u \in Workers, NEW d \in Calls,
                 Has(toWorker'[u], AllowedAnswers(d))
          PROVE  Has(toWorker[u], AllowedAnswers(d))
      <4>1. a \notin AllowedAnswers(d)
        BY <3>1 DEF AllowedAnswers
      <4>2. Has(Append(toWorker[w], a), AllowedAnswers(d)) <=> Has(toWorker[w], AllowedAnswers(d))
        BY <3>1, <4>1, ChannelAppend
      <4> QED BY <1>1, <1>2, <3>2, <4>2
    <3>3. Promised' \subseteq Promised
      <4> SUFFICES ASSUME NEW wc \in Promised' PROVE wc \in Promised
        OBVIOUS
      <4>1. wc \in counted'
        BY DEF Promised
      <4>2. PICK u \in Workers, d \in Calls : wc = <<u, d>>
        BY <1>0, <4>1 DEF TypeInv
      <4>3. /\ call[u][d].kind = "increment"
            /\ call[u][d].pc = "allowed" \/ Has(toWorker'[u], AllowedAnswers(d))
        <5>1. wc[1] = u /\ wc[2] = d
          BY <4>2
        <5> QED BY <1>4, <5>1 DEF Promised, AllowedAnswers, Answers
      <4>4. call[u][d].pc = "allowed" \/ Has(toWorker[u], AllowedAnswers(d))
        BY <3>2, <4>3
      <4>5. <<u, d>> # <<w, c>>
        <5>1. ~Has(toWorker[w], AllowedAnswers(c))
          BY <1>3 DEF Back, Has, AllowedAnswers
        <5> QED BY <1>3, <4>4, <5>1
      <4>6. <<u, d>> \in counted
        BY <1>6, <4>1, <4>2, <4>5
      <4> QED BY <1>0, <4>2, <4>3, <4>4, <4>6, PromisedMember
    <3>4. Cardinality(Promised) <= Limit
      BY <2>4 DEF AdmitInv
    <3> QED BY <2>0, <3>3, <3>4, SmallerPromise
  <2> QED BY <1>6, <2>1, <2>2, <2>3, <2>4 DEF AdmitInv
<1> QED BY <1>2, <1>5, <1>6

\* The other jobs, and destroy().
LEMMA OthersKeepCount ==
    ASSUME TypeInv, AdmitInv,
           (Dispatch /\ Head(dispatchSerial).msg.type # "increment") \/ Destroy
    PROVE  /\ counted' \subseteq counted /\ (faults' = {} => faults = {})
           /\ faults' = {} => CountKept'
<1>0. hits \in Nat \cup {NoStore} /\ NoStore \notin Nat /\ IsFiniteSet(counted)
  BY DEF TypeInv, NoStore, AdmitInv
<1>1. CASE Destroy
  BY <1>0, <1>1 DEF Destroy, CountKept
<1>2. CASE Dispatch /\ Head(dispatchSerial).msg.type # "increment"
  <2> DEFINE w == Head(dispatchSerial).worker
             msg == Head(dispatchSerial).msg
             x == <<w, msg.call>>
  <2>0. /\ \/ HandleInit(w) \/ HandleMissing(w, msg) \/ HandleDecrement(w, msg)
           \/ HandleReset(w, msg) \/ HandleShutdown(w, msg)
    BY <1>2 DEF Dispatch
  <2> HIDE DEF w, msg
  <2>1. CASE HandleInit(w)
    <3>1. counted' = counted /\ faults' = faults
      BY <2>1 DEF HandleInit
    <3>2. hits' = hits \/ (hits = NoStore /\ hits' = 0)
      BY <2>1 DEF HandleInit
    <3>3. ASSUME faults' = {} PROVE CountKept'
      <4>1. CountKept
        BY <3>1, <3>3 DEF AdmitInv
      <4>2. CASE hits' = hits
        BY <3>1, <4>1, <4>2 DEF CountKept
      <4>3. CASE hits = NoStore /\ hits' = 0
        BY <1>0, <3>1, <4>1, <4>3, FS_EmptySet DEF CountKept
      <4> QED BY <3>2, <4>2, <4>3
    <3> QED BY <3>1, <3>3
  <2>2. CASE HandleMissing(w, msg)
    BY <2>2 DEF HandleMissing, AdmitInv, CountKept
  <2>3. CASE HandleDecrement(w, msg)
    <3>1. /\ hits # NoStore /\ hits' = (IF hits > 0 THEN hits - 1 ELSE 0)
          /\ counted' = counted \ {x}
          /\ faults' = IF hits > 0 /\ x \notin counted
                       THEN faults \union {"staleUndo"} ELSE faults
      BY <2>3 DEF HandleDecrement
    <3> HIDE DEF x
    <3>2. hits \in Nat /\ hits' \in Nat
      BY <1>0, <3>1
    <3>3. faults' = {} => faults = {}
      BY <3>1
    <3>4. ASSUME faults' = {} PROVE hits' = Cardinality(counted')
      <4>1. hits = Cardinality(counted)
        BY <3>1, <3>3, <3>4 DEF AdmitInv, CountKept
      <4>2. CASE hits > 0
        <5>1. x \in counted
          BY <3>1, <3>4, <4>2
        <5> DEFINE C == counted
        <5>2. IsFiniteSet(C) /\ x \in C
          BY <1>0, <5>1
        <5> HIDE DEF C
        <5>3. Cardinality(C \ {x}) = Cardinality(C) - 1
          BY <5>2, FS_RemoveElement
        <5>4. Cardinality(counted') = Cardinality(counted) - 1
          BY <3>1, <5>3 DEF C
        <5> QED BY <3>1, <4>1, <4>2, <5>4
      <4>3. CASE ~(hits > 0)
        <5>1. hits = 0
          BY <3>2, <4>3
        <5>2. counted = {}
          BY <1>0, <4>1, <5>1, FS_EmptySet
        <5>3. counted' = {} /\ hits' = 0
          BY <3>1, <5>1, <5>2
        <5> QED BY <5>3, FS_EmptySet
      <4> QED BY <4>2, <4>3
    <3> QED BY <1>0, <3>1, <3>2, <3>3, <3>4 DEF CountKept
  <2>4. CASE HandleReset(w, msg)
    BY <1>0, <2>4, FS_EmptySet DEF HandleReset, CountKept
  <2>5. CASE HandleShutdown(w, msg)
    BY <1>0, <2>5 DEF HandleShutdown, CountKept
  <2> QED BY <2>0, <2>1, <2>2, <2>3, <2>4, <2>5
<1> QED BY <1>1, <1>2

LEMMA AdmitStep ==
    ASSUME WorkersInv, WorkersInv', CountedInv, AdmitInv, [Next]_vars
    PROVE  AdmitInv'
<1>0. TypeInv /\ IsFiniteSet(counted)
  BY DEF WorkersInv, AdmitInv
<1>1. ASSUME counted' \subseteq counted, faults' = {} => faults = {} /\ CountKept' PROVE AdmitInv'
  <2>1. Promised' \subseteq Promised
    BY <1>1, PromiseFrame
  <2>2. IsFiniteSet(counted')
    BY <1>0, <1>1, FS_Subset
  <2>3. faults' = {} => Cardinality(Promised') <= Limit
    BY <1>0, <1>1, <2>1, SmallerPromise DEF AdmitInv
  <2> QED BY <1>1, <2>2, <2>3 DEF AdmitInv
<1>2. CASE UNCHANGED <<hits, counted, faults>>
  BY <1>1, <1>2 DEF AdmitInv, CountKept
<1>3. CASE (Dispatch /\ Head(dispatchSerial).msg.type # "increment") \/ Destroy
  BY <1>0, <1>1, <1>3, OthersKeepCount
<1>4. CASE Dispatch /\ Head(dispatchSerial).msg.type = "increment"
  BY <1>4, IncrementAdmits
<1>5. CASE UNCHANGED vars \/ PrimaryInit
  BY <1>2, <1>5 DEF vars, PrimaryInit
<1>6. ASSUME NEW w \in Workers, WorkerStep(w) PROVE AdmitInv'
  BY <1>0, <1>2, <1>6, WorkerFrame
<1> QED BY <1>3, <1>4, <1>5, <1>6 DEF Next

LEMMA AdmitInit == Init => AdmitInv
<1> SUFFICES ASSUME Init PROVE AdmitInv
  OBVIOUS
<1>1. counted = {} /\ hits = NoStore
  BY DEF Init
<1>2. Promised = {}
  BY <1>1 DEF Promised
<1> QED BY <1>1, <1>2, FS_EmptySet, ClusterAssumption DEF AdmitInv, CountKept

\* Any number of workers together admit at most Limit increments since the last reset(), as
\* long as no shutdown() or destroy() has dropped counted hits and no decrement() has undone
\* a hit that a reset() had cleared before.
THEOREM ClusterAdmission == Spec => []AdmissionBounded
<1>1. WorkersInv /\ AdmitInv => AdmissionBounded
  <2> SUFFICES ASSUME WorkersInv, AdmitInv, faults = {}
               PROVE  Cardinality({wc \in counted :
                         call[wc[1]][wc[2]] = [kind |-> "increment", pc |-> "allowed"]}) <= Limit
    BY DEF AdmissionBounded
  <2> DEFINE A == {wc \in counted : call[wc[1]][wc[2]] = [kind |-> "increment", pc |-> "allowed"]}
             P == Promised
  <2>1. A \subseteq P /\ P \subseteq counted
    BY DEF Promised
  <2>2. IsFiniteSet(counted) /\ Cardinality(P) <= Limit
    BY DEF AdmitInv
  <2> HIDE DEF A, P
  <2>3. IsFiniteSet(P)
    BY <2>1, <2>2, FS_Subset
  <2>4. IsFiniteSet(A) /\ Cardinality(A) <= Cardinality(P)
    BY <2>1, <2>3, FS_Subset
  <2>5. Cardinality(A) \in Nat /\ Cardinality(P) \in Nat /\ Limit \in Nat
    BY <2>3, <2>4, FS_CardinalityType, ClusterAssumption
  <2>6. Cardinality(A) <= Limit
    BY <2>2, <2>4, <2>5
  <2> QED BY <2>6 DEF A
<1>2. Init => WorkersInv /\ CountedInv /\ AdmitInv
  BY WorkersInvInit, AdmitInit DEF Init, CountedInv
<1>3. WorkersInv /\ CountedInv /\ AdmitInv /\ [Next]_vars => (WorkersInv /\ CountedInv /\ AdmitInv)'
  BY WorkersInvStep, CountedStep, AdmitStep
<1> QED BY <1>1, <1>2, <1>3, PTL DEF Spec
=============================================================================
