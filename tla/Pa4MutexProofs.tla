--------------------------- MODULE Pa4MutexProofs ---------------------------
(***************************************************************************)
(* Proofs about Pa4Mutex, for every number of workers, every pipe capacity, *)
(* every number of iterations and whichever nodes die, in this order:       *)
(*   TypeOK      the types;                                                 *)
(*   MutexInv    the critical section is granted to one worker at a time in *)
(*               the order of the claims;                                   *)
(*   BarrierInv  the barriers, and the parent's report;                     *)
(*   SilentInv   without --mutexl nobody asks for the critical section;     *)
(*   WaysInv     the frames on every way: the pipes stay short, nothing is  *)
(*               left unread, and undisturbed nobody fails;                 *)
(* and last that the mutex implements the abstract critical section.        *)
(***************************************************************************)
EXTENDS Pa4Mutex, SequenceTheorems, TLAPS

-----------------------------------------------------------------------------
(* The head and the tail of a pipe, and a frame appended to it.             *)

LEMMA TailOfPipe ==
  ASSUME NEW s \in Seq(Frame), s # <<>>
  PROVE  /\ 1 \in DOMAIN s
         /\ Head(s) = s[1] /\ Head(s) \in Frame
         /\ Tail(s) \in Seq(Frame)
         /\ \A i \in DOMAIN Tail(s) :
              i \in Int /\ i + 1 \in DOMAIN s /\ Tail(s)[i] = s[i + 1]
         /\ \A i \in DOMAIN s : i \in Int /\ (i # 1 => i - 1 \in DOMAIN Tail(s))
  BY HeadTailProperties

LEMMA AppendToPipe ==
  ASSUME NEW s \in Seq(Frame), NEW m \in Frame
  PROVE  /\ Append(s, m) \in Seq(Frame)
         /\ DOMAIN s \subseteq DOMAIN Append(s, m)
         /\ Len(s) + 1 \in DOMAIN Append(s, m)
         /\ Append(s, m)[Len(s) + 1] = m
         /\ \A i \in DOMAIN s : i \in Int /\ i < Len(s) + 1 /\ Append(s, m)[i] = s[i]
         /\ \A i \in DOMAIN Append(s, m) : i \in Int /\ (i \in DOMAIN s \/ i = Len(s) + 1)
  BY AppendProperties

LEMMA ClockFacts ==
  /\ MaxClock \in Nat
  /\ \A t \in Timestamp : t \in Nat /\ (CanSend(t) => ClockSend(t) \in Timestamp /\ t < ClockSend(t))
  /\ \A t, r \in Timestamp : CanReceive(t, r) =>
       /\ ClockReceive(t, r) \in Timestamp
       /\ t < ClockReceive(t, r) /\ r < ClockReceive(t, r)
  BY MaxClockAssumption
     DEF Timestamp, CanSend, ClockSend, CanReceive, ClockReceive

LEMMA NodeFacts ==
  /\ PARENT_ID \in Node /\ PARENT_ID \notin Worker
  /\ Worker \subseteq Node /\ Node \subseteq Nat
  /\ \A p \in Node : p # PARENT_ID => p \in Worker
  BY ProcessesAssumption DEF PARENT_ID, Node, Worker

-----------------------------------------------------------------------------
(* Types. *)

LEMMA TypeInit == Init => TypeOK
  <1> SUFFICES ASSUME Init PROVE TypeOK
    OBVIOUS
  <1>1. channel \in [Node -> [Node -> Seq(Frame)]]
    BY EmptySeq DEF Init
  <1>2. clock \in [Node -> Timestamp] /\ requested_at \in [Node -> [Node -> Timestamp]]
    BY MaxClockAssumption DEF Init, Timestamp
  <1>3. pc \in [Node -> State]
    BY DEF Init, NothingForked, State, Lifecycle
  <1>4. pc[PARENT_ID] = "boot"
    BY NodeFacts DEF Init, NothingForked
  <1> QED
    BY <1>1, <1>2, <1>3, <1>4 DEF Init, TypeOK

(* A step that only moves one node to another of its states. *)
LEMMA TypeGoto ==
  ASSUME TypeOK, NEW p \in Node, NEW state \in State, Goto(p, state),
         p = PARENT_ID => state \notin {"unborn", "work", "waiting", "inside"},
         UNCHANGED <<clock, channel, outbox, started, done, cs>>,
         iteration' \in [Node -> Nat]
  PROVE  TypeOK'
  BY NodeFacts DEF TypeOK, Goto, cs

LEMMA TypeFatal ==
  ASSUME TypeOK, NEW p \in Node, Fatal(p)
  PROVE  TypeOK'
  <1> DEFINE state == IF p = PARENT_ID THEN "stopping" ELSE "failed"
  <1>1. /\ state \in State
        /\ p = PARENT_ID => state \notin {"unborn", "work", "waiting", "inside"}
    BY DEF State, Lifecycle, Over
  <1>2. Goto(p, state) /\ UNCHANGED <<clock, channel, outbox, started, done, cs, iteration>>
    BY DEF Fatal, Fail
  <1>3. iteration' \in [Node -> Nat]
    BY <1>2 DEF TypeOK
  <1> HIDE DEF state
  <1> QED
    BY <1>1, <1>2, <1>3, TypeGoto

LEMMA TypeToWrite ==
  ASSUME NEW type \in MessageType, NEW targets \in SUBSET Node
  PROVE  ToWrite(type, targets) \in {Idle} \cup [type : MessageType, to : SUBSET Node]
  BY DEF ToWrite

LEMMA TypeMulticast ==
  ASSUME TypeOK, NEW p \in Node, NEW type \in MessageType, NEW targets \in SUBSET Node,
         Multicast(p, type, targets)
  PROVE  /\ clock' \in [Node -> Timestamp]
         /\ outbox' \in [Node -> {Idle} \cup [type : MessageType, to : SUBSET Node]]
  BY ClockFacts, TypeToWrite DEF TypeOK, Multicast

(* What p finds at the head of a pipe it may read. *)
LEMMA TypeTakes ==
  ASSUME TypeOK, NEW p \in Node, NEW q \in Node, NEW type, Takes(p, q, type)
  PROVE  /\ channel' \in [Node -> [Node -> Seq(Frame)]]
         /\ Head(channel[q][p]) \in Frame
         /\ Head(channel[q][p]).time \in Timestamp
         /\ ClockReceive(clock[p], Head(channel[q][p]).time) \in Timestamp
  <1>1. channel[q][p] \in Seq(Frame) /\ channel[q][p] # <<>>
    BY DEF TypeOK, Takes
  <1>2. Tail(channel[q][p]) \in Seq(Frame) /\ Head(channel[q][p]) \in Frame
    BY <1>1, TailOfPipe
  <1>3. channel' \in [Node -> [Node -> Seq(Frame)]]
    BY <1>2 DEF TypeOK, Takes
  <1>4. Head(channel[q][p]).time \in Timestamp
    BY <1>2 DEF Frame
  <1>5. CanReceive(clock[p], Head(channel[q][p]).time) /\ clock[p] \in Timestamp
    BY DEF TypeOK, Takes, Accepts
  <1> QED
    BY <1>2, <1>3, <1>4, <1>5, ClockFacts

LEMMA TypeWrite ==
  ASSUME TypeOK, NEW p \in Node, NEW q \in Node, WriteFrame(p, q)
  PROVE  TypeOK'
  <1>1. outbox[p] \in [type : MessageType, to : SUBSET Node]
    BY DEF WriteFrame, NextTarget, TypeOK, Idle
  <1>2. [type |-> outbox[p].type, time |-> clock[p]] \in Frame
    BY <1>1 DEF TypeOK, Frame
  <1>3. channel' \in [Node -> [Node -> Seq(Frame)]]
    BY <1>2, AppendToPipe DEF TypeOK, WriteFrame
  <1>4. outbox' \in [Node -> {Idle} \cup [type : MessageType, to : SUBSET Node]]
    BY <1>1, TypeToWrite DEF TypeOK, WriteFrame
  <1> QED
    BY <1>3, <1>4 DEF WriteFrame, TypeOK, barriers, cs

LEMMA TypeDispatch ==
  ASSUME TypeOK, NEW p \in Node, NEW q \in Node \ {p}, Dispatch(p, q)
  PROVE  TypeOK'
  <1>1. CASE ReceiveStarted(p, q)
    BY <1>1, TypeTakes DEF ReceiveStarted, Ticks, TypeOK, cs
  <1>2. CASE ReceiveDone(p, q)
    BY <1>2, TypeTakes DEF ReceiveDone, Ticks, TypeOK, cs
  <1>3. CASE ReceiveRequest(p, q)
    <2> DEFINE sent == Head(channel[q][p]).time
    <2>1. /\ channel' \in [Node -> [Node -> Seq(Frame)]]
          /\ sent \in Timestamp /\ ClockReceive(clock[p], sent) \in Timestamp
          /\ CanSend(ClockReceive(clock[p], sent))
          /\ q \in Worker
      BY <1>3, TypeTakes, NodeFacts DEF ReceiveRequest, Takes, Accepts, CsType
    <2>2. ClockSend(ClockReceive(clock[p], sent)) \in Timestamp
      BY <2>1, ClockFacts
    <2>3. clock' \in [Node -> Timestamp]
      BY <1>3, <2>2 DEF ReceiveRequest, TypeOK
    <2>4. requested_at' \in [Node -> [Node -> Timestamp]]
      BY <1>3, <2>1 DEF ReceiveRequest, TypeOK
    <2>5. queued' \in [Node -> SUBSET Worker]
      BY <1>3, <2>1 DEF ReceiveRequest, TypeOK
    <2>6. outbox' \in [Node -> {Idle} \cup [type : MessageType, to : SUBSET Node]]
      <3>1. "CS_REPLY" \in MessageType /\ {q} \in SUBSET Node
        BY DEF MessageType, CsType
      <3>2. ToWrite("CS_REPLY", {q}) \in {Idle} \cup [type : MessageType, to : SUBSET Node]
        BY <3>1, TypeToWrite
      <3> QED
        BY <1>3, <3>2 DEF ReceiveRequest, TypeOK
    <2> QED
      BY <1>3, <2>1, <2>3, <2>4, <2>5, <2>6 DEF ReceiveRequest, TypeOK, barriers
  <1>4. CASE ReceiveReply(p, q)
    <2>1. q \in Worker
      BY <1>4, NodeFacts DEF ReceiveReply, Takes, Accepts, CsType
    <2> QED
      BY <1>4, <2>1, TypeTakes DEF ReceiveReply, Ticks, TypeOK, barriers
  <1>5. CASE ReceiveRelease(p, q)
    BY <1>5, TypeTakes DEF ReceiveRelease, Ticks, TypeOK, barriers
  <1>6. CASE RejectFrame(p, q)
    BY <1>6, TypeFatal DEF RejectFrame
  <1> QED
    BY <1>1, <1>2, <1>3, <1>4, <1>5, <1>6 DEF Dispatch

LEMMA TypeNode ==
  ASSUME TypeOK, NEW p \in Node, NodeNext(p)
  PROVE  TypeOK'
  <1> USE DEF barriers, cs
  <1>1. /\ {"STARTED", "DONE", "CS_REQUEST", "CS_RELEASE"} \subseteq MessageType
        /\ Node \ {p} \in SUBSET Node /\ Peers(p) \in SUBSET Node
    BY NodeFacts DEF MessageType, CsType, Peers
  <1>2. pc[p] \in {"work", "waiting", "inside"} => p \in Worker /\ p # PARENT_ID
    BY NodeFacts DEF TypeOK
  <1>3. CASE AnnounceStarted(p)
    <2>1. Multicast(p, "STARTED", Node \ {p}) /\ p # PARENT_ID
      BY <1>3, NodeFacts DEF AnnounceStarted
    <2>2. /\ clock' \in [Node -> Timestamp]
          /\ outbox' \in [Node -> {Idle} \cup [type : MessageType, to : SUBSET Node]]
      BY <1>1, <2>1, TypeMulticast
    <2>3. pc' \in [Node -> State] /\ pc'[PARENT_ID] = pc[PARENT_ID]
      BY <1>3, <2>1 DEF AnnounceStarted, Goto, TypeOK, State
    <2> QED
      BY <1>3, <2>2, <2>3 DEF AnnounceStarted, TypeOK
  <1>4. CASE PassStarted(p)
    BY <1>4, NodeFacts DEF PassStarted, Goto, TypeOK, State
  <1>5. CASE RequestCs(p)
    <2>1. Multicast(p, "CS_REQUEST", Peers(p)) /\ pc[p] = "work"
      BY <1>5 DEF RequestCs, AtWork
    <2>2. /\ clock' \in [Node -> Timestamp]
          /\ outbox' \in [Node -> {Idle} \cup [type : MessageType, to : SUBSET Node]]
      BY <1>1, <2>1, TypeMulticast
    <2>3. ClockSend(clock[p]) \in Timestamp
      BY <2>1, ClockFacts DEF Multicast, TypeOK
    <2>4. requested_at' \in [Node -> [Node -> Timestamp]]
      BY <1>5, <2>3 DEF RequestCs, TypeOK
    <2>5. queued' \in [Node -> SUBSET Worker] /\ replied' \in [Node -> SUBSET Worker]
      BY <1>2, <1>5, <2>1 DEF RequestCs, TypeOK
    <2>6. iteration' \in [Node -> Nat]
      BY <1>5 DEF RequestCs, TypeOK
    <2>7. pc' \in [Node -> State] /\ pc'[PARENT_ID] = pc[PARENT_ID]
      BY <1>2, <1>5, <2>1 DEF RequestCs, Goto, TypeOK, State
    <2> QED
      BY <1>5, <2>2, <2>4, <2>5, <2>6, <2>7 DEF RequestCs, TypeOK
  <1>6. CASE PrintOnly(p)
    BY <1>6 DEF PrintOnly, TypeOK
  <1>7. CASE AnnounceDone(p)
    <2>1. Multicast(p, "DONE", Node \ {p}) /\ pc[p] = "work"
      BY <1>7 DEF AnnounceDone, AtWork
    <2>2. /\ clock' \in [Node -> Timestamp]
          /\ outbox' \in [Node -> {Idle} \cup [type : MessageType, to : SUBSET Node]]
      BY <1>1, <2>1, TypeMulticast
    <2>3. pc' \in [Node -> State] /\ pc'[PARENT_ID] = pc[PARENT_ID]
      BY <1>2, <1>7, <2>1 DEF AnnounceDone, Goto, TypeOK, State
    <2> QED
      BY <1>7, <2>2, <2>3 DEF AnnounceDone, TypeOK
  <1>8. CASE EnterCs(p)
    BY <1>2, <1>8 DEF EnterCs, Goto, TypeOK, State
  <1>9. CASE ReleaseCs(p)
    <2>1. Multicast(p, "CS_RELEASE", Peers(p)) /\ pc[p] = "inside"
      BY <1>9 DEF ReleaseCs
    <2>2. /\ clock' \in [Node -> Timestamp]
          /\ outbox' \in [Node -> {Idle} \cup [type : MessageType, to : SUBSET Node]]
      BY <1>1, <2>1, TypeMulticast
    <2>3. pc' \in [Node -> State] /\ pc'[PARENT_ID] = pc[PARENT_ID]
      BY <1>2, <1>9, <2>1 DEF ReleaseCs, Goto, TypeOK, State
    <2> QED
      BY <1>9, <2>2, <2>3 DEF ReleaseCs, TypeOK
  <1>10. CASE PassDone(p)
    BY <1>10 DEF PassDone, Goto, TypeOK, State, Lifecycle, Over
  <1>11. CASE SendOverflow(p)
    BY <1>11, TypeFatal DEF SendOverflow
  <1>12. CASE \E q \in Node \ {p} : WriteFrame(p, q) \/ BrokenPipe(p, q)
    BY <1>12, TypeWrite, TypeFatal DEF BrokenPipe
  <1>13. CASE \E q \in Node \ {p} : Dispatch(p, q)
    BY <1>13, TypeDispatch
  <1>14. CASE PeersClosed(p)
    BY <1>14, TypeFatal DEF PeersClosed
  <1> QED
    BY <1>3, <1>4, <1>5, <1>6, <1>7, <1>8, <1>9, <1>10, <1>11, <1>12, <1>13, <1>14
       DEF NodeNext

LEMMA TypeStep == TypeOK /\ [Next]_vars => TypeOK'
  <1> SUFFICES ASSUME TypeOK, [Next]_vars PROVE TypeOK'
    OBVIOUS
  <1> USE DEF barriers, cs
  <1>1. CASE \E p \in Node : NodeNext(p)
    BY <1>1, TypeNode
  <1>2. CASE Supervision \/ Signals
    <2>1. \E n \in Node, state \in {"starting", "boot", "aborting", "exited", "failed", "killed"} :
            Goto(n, state)
      BY <1>2, NodeFacts
         DEF Supervision, Signals, Supervise, AllForked, Fork, ForkFails, StopWorker, Reap, Kill
    <2>2. UNCHANGED <<clock, channel, outbox, started, done, cs, iteration>>
      BY <1>2 DEF Supervision, Signals
    <2>3. {"starting", "boot", "aborting", "exited", "failed", "killed"}
            \subseteq State \ {"unborn", "work", "waiting", "inside"}
      BY DEF State, Lifecycle, Over
    <2>4. iteration' \in [Node -> Nat]
      BY <2>2 DEF TypeOK
    <2> QED
      BY <2>1, <2>2, <2>3, <2>4, TypeGoto
  <1>3. CASE UNCHANGED vars
    BY <1>3 DEF vars, TypeOK
  <1> QED
    BY <1>1, <1>2, <1>3 DEF Next

(* Every variable keeps its type, whatever the constants; in particular no  *)
(* clock passes MaxClock (clock_send and clock_receive refuse in time).     *)
THEOREM TypeCorrect == Spec => []TypeOK
  <1> QED
    BY TypeInit, TypeStep, PTL DEF Spec

-----------------------------------------------------------------------------
(* The order of grants.  How a step touches the pair of a claimant p and a  *)
(* peer q: it leaves the pair alone, takes a frame out of one of its pipes, *)
(* adds one, or opens or withdraws the claim.                               *)

SameClaim(p) == (Claims(p)' <=> Claims(p)) /\ Own(p)' = Own(p)
SameReplied(p, q) == (q \in replied[p])' <=> q \in replied[p]
SameTable(p, q) ==
  /\ (p \in queued[q])' <=> p \in queued[q]
  /\ requested_at'[q][p] = requested_at[q][p]
SameSending(p, q, type) == Sending(p, q, type)' <=> Sending(p, q, type)

(* All that PairOk(p, q) reads except the two pipes and q's clock. *)
SamePair(p, q) ==
  /\ SameClaim(p) /\ SameReplied(p, q) /\ SameTable(p, q)
  /\ SameSending(p, q, "CS_REQUEST") /\ SameSending(q, p, "CS_REPLY")

Later(q) == clock'[q] \in Nat /\ clock[q] <= clock'[q]
SamePipe(p, q) == channel'[p][q] = channel[p][q]
Popped(p, q) == channel[p][q] # <<>> /\ channel'[p][q] = Tail(channel[p][q])
Appended(p, q, m) == m \in Frame /\ channel'[p][q] = Append(channel[p][q], m)

LEMMA PairTypes ==
  ASSUME TypeOK, NEW p \in Worker, NEW q \in Worker
  PROVE  /\ channel[p][q] \in Seq(Frame)
         /\ clock[p] \in Nat /\ Own(p) \in Nat
         /\ \A i \in DOMAIN channel[p][q] :
              i \in Int /\ channel[p][q][i] \in Frame /\ channel[p][q][i].time \in Nat
  <1>1. p \in Node /\ q \in Node
    BY NodeFacts
  <1>2. channel[p][q] \in Seq(Frame) /\ clock[p] \in Timestamp /\ Own(p) \in Timestamp
    BY <1>1 DEF TypeOK, Own
  <1>3. \A i \in DOMAIN channel[p][q] : i \in Int /\ channel[p][q][i] \in Frame
    BY <1>2, LenProperties, ElementOfSeq
  <1> QED
    BY <1>2, <1>3, ClockFacts DEF Frame

LEMMA PairKept ==
  ASSUME TypeOK, NEW p \in Worker, NEW q \in Worker, PairOk(p, q),
         SamePair(p, q), Later(q), SamePipe(p, q), SamePipe(q, p)
  PROVE  PairOk(p, q)'
  BY PairTypes DEF PairOk, RequestOk, ReplyOk, SamePair, SameClaim, SameReplied, SameTable,
     SameSending, UnderWay, InPipe, Held, SamePipe, Later

(* What is left of a pipe moves up by one. *)
LEMMA PoppedPipe ==
  ASSUME TypeOK, NEW p \in Worker, NEW q \in Worker, Popped(p, q)
  PROVE  /\ 1 \in DOMAIN channel[p][q] /\ Head(channel[p][q]) = channel[p][q][1]
         /\ \A i \in DOMAIN channel'[p][q] :
              /\ i \in Int /\ 1 < i + 1 /\ i + 1 \in DOMAIN channel[p][q]
              /\ channel'[p][q][i] = channel[p][q][i + 1]
         /\ \A i \in DOMAIN channel[p][q] :
              i \in Int /\ (i # 1 => i - 1 \in DOMAIN channel'[p][q])
  <1> PICK s : s = channel[p][q]
    OBVIOUS
  <1>1. s \in Seq(Frame) /\ s # <<>> /\ channel'[p][q] = Tail(s)
    BY PairTypes DEF Popped
  <1>2. /\ 1 \in DOMAIN s /\ Head(s) = s[1]
        /\ \A i \in DOMAIN Tail(s) :
             i \in Int /\ i + 1 \in DOMAIN s /\ Tail(s)[i] = s[i + 1]
        /\ \A i \in DOMAIN s : i \in Int /\ (i # 1 => i - 1 \in DOMAIN Tail(s))
    BY <1>1, TailOfPipe
  <1>3. \A i \in DOMAIN Tail(s) : 1 < i + 1
    <2>1. Tail(s) \in Seq(Frame)
      BY <1>1, TailOfPipe
    <2>2. \A i \in DOMAIN Tail(s) : i \in Nat /\ 1 <= i
      BY <2>1, LenProperties
    <2> QED
      BY <2>2
  <1> QED
    BY <1>1, <1>2, <1>3

(* A frame leaves p's pipe to q that is neither a request nor a release. *)
LEMMA PairPopRequests ==
  ASSUME TypeOK, NEW p \in Worker, NEW q \in Worker, PairOk(p, q),
         SamePair(p, q), Later(q), Popped(p, q), SamePipe(q, p),
         Head(channel[p][q]).type \notin {"CS_REQUEST", "CS_RELEASE"}
  PROVE  PairOk(p, q)'
  <1>1. /\ \A i \in DOMAIN channel'[p][q] :
              i \in Int /\ i + 1 \in DOMAIN channel[p][q]
              /\ channel'[p][q][i] = channel[p][q][i + 1]
        /\ \A i \in DOMAIN channel[p][q] :
              /\ i \in Int
              /\ channel[p][q][i].type \in {"CS_REQUEST", "CS_RELEASE"}
                   => i - 1 \in DOMAIN channel'[p][q]
    BY PoppedPipe
  <1>2. /\ InPipe(p, q, "CS_REQUEST")' <=> InPipe(p, q, "CS_REQUEST")
        /\ InPipe(p, q, "CS_RELEASE")' <=> InPipe(p, q, "CS_RELEASE")
    BY <1>1 DEF InPipe
  <1>3. UnderWay(q, p, "CS_REPLY")' <=> UnderWay(q, p, "CS_REPLY")
    BY DEF UnderWay, InPipe, SamePair, SameSending, SamePipe
  <1>4. Held(p, q) => Held(p, q)'
    BY <1>2, PairTypes DEF Held, SamePair, SameClaim, SameTable, Later
  <1>5. RequestOk(p, q)'
    BY <1>1, <1>2, <1>3, <1>4
       DEF PairOk, RequestOk, UnderWay, SamePair, SameClaim, SameReplied, SameSending
  <1>6. ReplyOk(p, q)'
    BY <1>3, <1>4
       DEF PairOk, ReplyOk, SamePair, SameClaim, SameReplied, SameSending, SamePipe
  <1> QED
    BY <1>5, <1>6 DEF PairOk

(* A frame leaves q's pipe to p that is not a reply. *)
LEMMA PairPopReplies ==
  ASSUME TypeOK, NEW p \in Worker, NEW q \in Worker, PairOk(p, q),
         SamePair(p, q), Later(q), Popped(q, p), SamePipe(p, q),
         Head(channel[q][p]).type # "CS_REPLY"
  PROVE  PairOk(p, q)'
  <1>1. /\ \A i \in DOMAIN channel'[q][p] :
              i \in Int /\ i + 1 \in DOMAIN channel[q][p]
              /\ channel'[q][p][i] = channel[q][p][i + 1]
        /\ \A i \in DOMAIN channel[q][p] :
              /\ i \in Int
              /\ channel[q][p][i].type = "CS_REPLY" => i - 1 \in DOMAIN channel'[q][p]
    BY PoppedPipe
  <1>2. InPipe(q, p, "CS_REPLY")' <=> InPipe(q, p, "CS_REPLY")
    BY <1>1 DEF InPipe
  <1>3. Held(p, q) => Held(p, q)'
    BY PairTypes DEF Held, SamePair, SameClaim, SameTable, Later, InPipe, SamePipe
  <1>4. UnderWay(p, q, "CS_REQUEST")' <=> UnderWay(p, q, "CS_REQUEST")
    BY DEF UnderWay, InPipe, SamePair, SameSending, SamePipe
  <1>5. RequestOk(p, q)'
    BY <1>2, <1>3, <1>4
       DEF PairOk, RequestOk, UnderWay, SamePair, SameClaim, SameReplied, SameSending, SamePipe
  <1>6. ReplyOk(p, q)'
    BY <1>1, <1>2, <1>3
       DEF PairOk, ReplyOk, UnderWay, SamePair, SameClaim, SameReplied, SameSending
  <1> QED
    BY <1>5, <1>6 DEF PairOk

(* q takes p's request into its table and starts to answer it. *)
LEMMA PairRequestTaken ==
  ASSUME TypeOK, NEW p \in Worker, NEW q \in Worker, PairOk(p, q),
         SameClaim(p), SameReplied(p, q), SameSending(p, q, "CS_REQUEST"),
         Popped(p, q), SamePipe(q, p), Head(channel[p][q]).type = "CS_REQUEST",
         (p \in queued[q])', requested_at'[q][p] = Head(channel[p][q]).time,
         Sending(q, p, "CS_REPLY")', Later(q), Head(channel[p][q]).time < clock'[q]
  PROVE  PairOk(p, q)'
  <1>1. /\ 1 \in DOMAIN channel[p][q] /\ Head(channel[p][q]) = channel[p][q][1]
        /\ \A i \in DOMAIN channel'[p][q] :
              i \in Int /\ i + 1 \in DOMAIN channel[p][q]
              /\ channel'[p][q][i] = channel[p][q][i + 1]
        /\ \A i \in DOMAIN channel[p][q] : i \in Int
        /\ \A i \in DOMAIN channel'[p][q] : 1 < i + 1
    BY PoppedPipe
  <1>2. UnderWay(p, q, "CS_REQUEST")
    BY <1>1 DEF UnderWay, InPipe
  <1>3. /\ Claims(p) /\ q \notin replied[p] /\ ~UnderWay(q, p, "CS_REPLY")
        /\ Head(channel[p][q]).time = Own(p)
        /\ ~Sending(p, q, "CS_REQUEST")
    BY <1>1, <1>2 DEF PairOk, RequestOk
  <1>4. \A i \in DOMAIN channel'[p][q] :
          channel'[p][q][i].type \notin {"CS_REQUEST", "CS_RELEASE"}
    BY <1>1 DEF PairOk, RequestOk
  <1>5. Held(p, q)'
    BY <1>3, <1>4 DEF Held, InPipe, SameClaim
  <1>6. ~UnderWay(p, q, "CS_REQUEST")'
    BY <1>3, <1>4 DEF UnderWay, InPipe, SameSending
  <1>7. \A i \in DOMAIN channel'[q][p] : channel'[q][p][i].type # "CS_REPLY"
    BY <1>3 DEF UnderWay, InPipe, SamePipe
  <1>8. RequestOk(p, q)'
    BY <1>4, <1>5, <1>6 DEF RequestOk
  <1>9. ReplyOk(p, q)'
    BY <1>3, <1>5, <1>7 DEF ReplyOk, SameClaim, SameReplied
  <1> QED
    BY <1>8, <1>9 DEF PairOk

(* p takes q's reply. *)
LEMMA PairReplyTaken ==
  ASSUME TypeOK, NEW p \in Worker, NEW q \in Worker, PairOk(p, q),
         SameClaim(p), SameTable(p, q), Later(q),
         SameSending(p, q, "CS_REQUEST"), SameSending(q, p, "CS_REPLY"),
         SamePipe(p, q), Popped(q, p), Head(channel[q][p]).type = "CS_REPLY",
         (q \in replied[p])'
  PROVE  PairOk(p, q)'
  <1>1. /\ 1 \in DOMAIN channel[q][p] /\ Head(channel[q][p]) = channel[q][p][1]
        /\ \A i \in DOMAIN channel'[q][p] :
              i \in Int /\ i + 1 \in DOMAIN channel[q][p]
              /\ channel'[q][p][i] = channel[q][p][i + 1]
        /\ \A i \in DOMAIN channel'[q][p] : 1 < i + 1
    BY PoppedPipe
  <1>2. UnderWay(q, p, "CS_REPLY") /\ InPipe(q, p, "CS_REPLY")
    BY <1>1 DEF UnderWay, InPipe
  <1>3. Claims(p) /\ Held(p, q)
    BY <1>2 DEF PairOk, ReplyOk
  <1>4. ~UnderWay(p, q, "CS_REQUEST")
    BY <1>2 DEF PairOk, RequestOk
  <1>5. \A i \in DOMAIN channel'[q][p] :
          channel'[q][p][i].type # "CS_REPLY" /\ Own(p) < channel'[q][p][i].time
    BY <1>1 DEF PairOk, ReplyOk
  <1>6. ~Sending(q, p, "CS_REPLY")
    BY <1>1 DEF PairOk, ReplyOk
  <1>7. Held(p, q)'
    BY <1>3, PairTypes DEF Held, SameClaim, SameTable, Later, InPipe, SamePipe
  <1>8. ~UnderWay(p, q, "CS_REQUEST")'
    BY <1>4 DEF UnderWay, InPipe, SameSending, SamePipe
  <1>9. ~UnderWay(q, p, "CS_REPLY")'
    BY <1>5, <1>6 DEF UnderWay, InPipe, SameSending
  <1>10. RequestOk(p, q)'
    BY <1>7, <1>8 DEF RequestOk, UnderWay, InPipe
  <1>11. ReplyOk(p, q)'
    BY <1>3, <1>5, <1>7, <1>9 DEF ReplyOk, UnderWay, InPipe, SameClaim
  <1> QED
    BY <1>10, <1>11 DEF PairOk

(* q takes p's release: the claim in its table was not p's present one. *)
LEMMA PairReleaseTaken ==
  ASSUME TypeOK, NEW p \in Worker, NEW q \in Worker, PairOk(p, q),
         SameClaim(p), SameReplied(p, q), Later(q),
         SameSending(p, q, "CS_REQUEST"), SameSending(q, p, "CS_REPLY"),
         SamePipe(q, p), Popped(p, q), Head(channel[p][q]).type = "CS_RELEASE"
  PROVE  PairOk(p, q)'
  <1>1. /\ 1 \in DOMAIN channel[p][q] /\ Head(channel[p][q]) = channel[p][q][1]
        /\ \A i \in DOMAIN channel'[p][q] :
              i \in Int /\ i + 1 \in DOMAIN channel[p][q]
              /\ channel'[p][q][i] = channel[p][q][i + 1]
        /\ \A i \in DOMAIN channel[p][q] :
              /\ i \in Int
              /\ channel[p][q][i].type = "CS_REQUEST" => i - 1 \in DOMAIN channel'[p][q]
    BY PoppedPipe
  <1>2. ~Held(p, q)
    BY <1>1 DEF Held, InPipe
  <1>3. ~UnderWay(q, p, "CS_REPLY") /\ (Claims(p) => q \notin replied[p])
    BY <1>2 DEF PairOk, ReplyOk
  <1>4. ~UnderWay(q, p, "CS_REPLY")'
    BY <1>3 DEF UnderWay, InPipe, SameSending, SamePipe
  <1>5. InPipe(p, q, "CS_REQUEST")' <=> InPipe(p, q, "CS_REQUEST")
    BY <1>1 DEF InPipe
  <1>6. RequestOk(p, q)'
    BY <1>1, <1>2, <1>4, <1>5
       DEF PairOk, RequestOk, UnderWay, SameClaim, SameReplied, SameSending
  <1>7. ReplyOk(p, q)'
    BY <1>3, <1>4 DEF ReplyOk, UnderWay, InPipe, SameClaim, SameReplied
  <1> QED
    BY <1>6, <1>7 DEF PairOk

(* p writes a frame to q. *)
LEMMA PairAppendRequests ==
  ASSUME TypeOK, NEW p \in Worker, NEW q \in Worker, PairOk(p, q),
         NEW m \in Frame, Appended(p, q, m), SamePipe(q, p), Later(q),
         SameClaim(p), SameReplied(p, q), SameTable(p, q),
         SameSending(q, p, "CS_REPLY"),
         m.type = "CS_REQUEST" => Sending(p, q, "CS_REQUEST") /\ m.time = Own(p),
         Sending(p, q, "CS_REQUEST")' <=>
           Sending(p, q, "CS_REQUEST") /\ m.type # "CS_REQUEST",
         m.type = "CS_RELEASE" => ~Claims(p) /\ ~Sending(p, q, "CS_REQUEST")
  PROVE  PairOk(p, q)'
  <1> DEFINE last == Len(channel[p][q]) + 1
  <1>1. /\ last \in DOMAIN channel'[p][q] /\ channel'[p][q][last] = m
        /\ \A i \in DOMAIN channel[p][q] :
             /\ i \in Int /\ i < last /\ i \in DOMAIN channel'[p][q]
             /\ channel'[p][q][i] = channel[p][q][i]
        /\ \A i \in DOMAIN channel'[p][q] :
             i \in Int /\ (i \in DOMAIN channel[p][q] \/ i = last)
        /\ last \in Int
    BY PairTypes, AppendToPipe, LenProperties DEF Appended
  <1> HIDE DEF last
  <1>2. \A type : InPipe(p, q, type)' <=> InPipe(p, q, type) \/ m.type = type
    BY <1>1 DEF InPipe
  <1>3. UnderWay(p, q, "CS_REQUEST")' <=> UnderWay(p, q, "CS_REQUEST")
    BY <1>2 DEF UnderWay
  <1>4. Held(p, q) /\ Claims(p) => Held(p, q)'
    BY <1>2, PairTypes DEF Held, SameClaim, SameTable, Later
  <1>5. UnderWay(q, p, "CS_REPLY")' <=> UnderWay(q, p, "CS_REPLY")
    BY DEF UnderWay, InPipe, SameSending, SamePipe
  <1>6. ASSUME NEW i \in DOMAIN channel'[p][q], channel'[p][q][i].type = "CS_REQUEST"
        PROVE  /\ channel'[p][q][i].time = Own(p)'
               /\ ~Sending(p, q, "CS_REQUEST")'
               /\ \A j \in DOMAIN channel'[p][q] :
                    i < j => channel'[p][q][j].type \notin {"CS_REQUEST", "CS_RELEASE"}
    <2>1. CASE i = last
      BY <1>1, <1>6, <2>1 DEF SameClaim
    <2>2. CASE i \in DOMAIN channel[p][q]
      <3>1. channel[p][q][i].type = "CS_REQUEST" /\ InPipe(p, q, "CS_REQUEST")
        BY <1>1, <1>6, <2>2 DEF InPipe
      <3>2. Claims(p) /\ ~Sending(p, q, "CS_REQUEST")
        BY <2>2, <3>1 DEF PairOk, RequestOk, UnderWay
      <3>3. m.type \notin {"CS_REQUEST", "CS_RELEASE"}
        BY <3>2
      <3> QED
        BY <1>1, <2>2, <3>1, <3>2, <3>3 DEF PairOk, RequestOk, SameClaim
    <2> QED
      BY <1>1, <2>1, <2>2
  <1>7. RequestOk(p, q)'
    BY <1>3, <1>4, <1>5, <1>6 DEF PairOk, RequestOk, SameClaim, SameReplied
  <1>8. ReplyOk(p, q)'
    BY <1>4, <1>5 DEF PairOk, ReplyOk, SameClaim, SameReplied, SameSending, SamePipe
  <1> QED
    BY <1>7, <1>8 DEF PairOk

(* q writes a frame to p, stamped with its clock. *)
LEMMA PairAppendReplies ==
  ASSUME TypeOK, NEW p \in Worker, NEW q \in Worker, PairOk(p, q),
         NEW m \in Frame, Appended(q, p, m), SamePipe(p, q), Later(q),
         SameClaim(p), SameReplied(p, q), SameTable(p, q),
         SameSending(p, q, "CS_REQUEST"),
         m.time = clock[q],
         m.type = "CS_REPLY" => Sending(q, p, "CS_REPLY"),
         Sending(q, p, "CS_REPLY")' <=> Sending(q, p, "CS_REPLY") /\ m.type # "CS_REPLY"
  PROVE  PairOk(p, q)'
  <1> DEFINE last == Len(channel[q][p]) + 1
  <1>1. /\ last \in DOMAIN channel'[q][p] /\ channel'[q][p][last] = m
        /\ \A i \in DOMAIN channel[q][p] :
             /\ i \in Int /\ i < last /\ i \in DOMAIN channel'[q][p]
             /\ channel'[q][p][i] = channel[q][p][i]
        /\ \A i \in DOMAIN channel'[q][p] :
             i \in Int /\ (i \in DOMAIN channel[q][p] \/ i = last)
        /\ last \in Int
    BY PairTypes, AppendToPipe, LenProperties DEF Appended
  <1> HIDE DEF last
  <1>2. InPipe(q, p, "CS_REPLY")' <=> InPipe(q, p, "CS_REPLY") \/ m.type = "CS_REPLY"
    BY <1>1 DEF InPipe
  <1>3. UnderWay(q, p, "CS_REPLY")' <=> UnderWay(q, p, "CS_REPLY")
    BY <1>2 DEF UnderWay
  <1>4. Held(p, q) => Held(p, q)'
    BY PairTypes DEF Held, SameClaim, SameTable, Later, InPipe, SamePipe
  <1>5. UnderWay(p, q, "CS_REQUEST")' <=> UnderWay(p, q, "CS_REQUEST")
    BY DEF UnderWay, InPipe, SameSending, SamePipe
  <1>6. ASSUME NEW i \in DOMAIN channel'[q][p], channel'[q][p][i].type = "CS_REPLY"
        PROVE  /\ ~Sending(q, p, "CS_REPLY")'
               /\ \A j \in DOMAIN channel'[q][p] :
                    /\ i < j => channel'[q][p][j].type # "CS_REPLY"
                    /\ i <= j => Own(p)' < channel'[q][p][j].time
    <2>1. UnderWay(q, p, "CS_REPLY")
      BY <1>3, <1>6 DEF UnderWay, InPipe
    <2>2. Own(p) < m.time /\ Own(p)' = Own(p)
      BY <2>1 DEF PairOk, ReplyOk, Held, SameClaim
    <2>3. CASE i = last
      BY <1>1, <1>6, <2>2, <2>3
    <2>4. CASE i \in DOMAIN channel[q][p]
      BY <1>1, <1>6, <2>2, <2>4 DEF PairOk, ReplyOk
    <2> QED
      BY <1>1, <2>3, <2>4
  <1>7. RequestOk(p, q)'
    BY <1>3, <1>4, <1>5
       DEF PairOk, RequestOk, SameClaim, SameReplied, SameSending, SamePipe
  <1>8. Claims(p)' /\ (q \in replied[p])' =>
          \A j \in DOMAIN channel'[q][p] : Own(p)' < channel'[q][p][j].time
    BY <1>1 DEF PairOk, ReplyOk, Held, SameClaim, SameReplied
  <1>9. ReplyOk(p, q)'
    BY <1>3, <1>4, <1>6, <1>8 DEF PairOk, ReplyOk, SameClaim, SameReplied
  <1> QED
    BY <1>7, <1>9 DEF PairOk

(* p opens a claim. *)
LEMMA PairClaimed ==
  ASSUME TypeOK, NEW p \in Worker, NEW q \in Worker, PairOk(p, q),
         ~Claims(p), Claims(p)', Sending(p, q, "CS_REQUEST")',
         ~(q \in replied[p])', SameSending(q, p, "CS_REPLY"),
         SamePipe(p, q), SamePipe(q, p)
  PROVE  PairOk(p, q)'
  <1>1. ~UnderWay(q, p, "CS_REPLY") /\ ~InPipe(p, q, "CS_REQUEST")
    BY DEF PairOk, RequestOk, ReplyOk, UnderWay
  <1>2. ~UnderWay(q, p, "CS_REPLY")' /\ ~InPipe(p, q, "CS_REQUEST")'
    BY <1>1 DEF UnderWay, InPipe, SameSending, SamePipe
  <1>3. RequestOk(p, q)'
    BY <1>2 DEF RequestOk, UnderWay, InPipe
  <1>4. ReplyOk(p, q)'
    BY <1>2 DEF ReplyOk, UnderWay, InPipe
  <1> QED
    BY <1>3, <1>4 DEF PairOk

(* p withdraws a claim that q has answered. *)
LEMMA PairWithdrawn ==
  ASSUME TypeOK, NEW p \in Worker, NEW q \in Worker, PairOk(p, q),
         Claims(p), q \in replied[p], ~Claims(p)', ~Sending(p, q, "CS_REQUEST")',
         SameSending(q, p, "CS_REPLY"), SamePipe(p, q), SamePipe(q, p)
  PROVE  PairOk(p, q)'
  <1>1. ~UnderWay(q, p, "CS_REPLY") /\ ~InPipe(p, q, "CS_REQUEST")
    BY DEF PairOk, RequestOk, ReplyOk, UnderWay
  <1>2. ~UnderWay(q, p, "CS_REPLY")' /\ ~InPipe(p, q, "CS_REQUEST")'
    BY <1>1 DEF UnderWay, InPipe, SameSending, SamePipe
  <1>3. RequestOk(p, q)'
    BY <1>2 DEF RequestOk, UnderWay, InPipe
  <1>4. ReplyOk(p, q)'
    BY <1>2 DEF ReplyOk, UnderWay, InPipe
  <1> QED
    BY <1>3, <1>4 DEF PairOk

(* Whoever is inside comes before every claim there is. *)
LEMMA InvImpliesOrder == MutexInv => GrantsInOrder
  <1> SUFFICES ASSUME MutexInv, NEW p \in Worker, NEW q \in Worker,
                      pc[p] = "inside", q # p, Claims(q)
               PROVE  Earlier(Own(p), p, Own(q), q)
    BY DEF GrantsInOrder
  <1>1. TypeOK /\ ClaimOk(p) /\ ClaimOk(q) /\ PairOk(p, q) /\ PairOk(q, p)
    BY DEF MutexInv
  <1>2. FirstAndConfirmed(p) /\ Claims(p)
    BY <1>1 DEF ClaimOk, Requesting
  <1>3. q \in Peers(p) /\ p \in Nat /\ q \in Nat
    BY NodeFacts DEF Peers
  <1>4. q \in replied[p]
    BY <1>2, <1>3 DEF FirstAndConfirmed
  <1>5. /\ Held(p, q)
        /\ \A j \in DOMAIN channel[q][p] : Own(p) < channel[q][p][j].time
    BY <1>1, <1>2, <1>4 DEF PairOk, ReplyOk
  <1>6. Own(p) \in Nat /\ Own(q) \in Nat
    BY <1>1, PairTypes
  <1>7. CASE Sending(q, p, "CS_REQUEST")
    <2>1. Own(q) = clock[q]
      BY <1>1, <1>7 DEF ClaimOk, Sending, Writing
    <2> QED
      BY <1>5, <2>1 DEF Held, Earlier
  <1>8. CASE InPipe(q, p, "CS_REQUEST")
    BY <1>1, <1>5, <1>8 DEF InPipe, PairOk, RequestOk, Earlier
  <1>9. CASE Held(q, p)
    <2>1. ~Earlier(Own(q), q, Own(p), p)
      BY <1>2, <1>3, <1>9 DEF Held, FirstAndConfirmed, Own
    <2> QED
      BY <1>3, <1>6, <2>1 DEF Earlier
  <1> QED
    BY <1>1, <1>7, <1>8, <1>9 DEF PairOk, RequestOk, UnderWay

-----------------------------------------------------------------------------
(* What the parts of an action do to the variables of the pairs.            *)

OthersKeep(n) ==
  \A x \in Node \ {n} :
    /\ outbox'[x] = outbox[x] /\ clock'[x] = clock[x]
    /\ queued'[x] = queued[x] /\ replied'[x] = replied[x]
    /\ requested_at'[x] = requested_at[x]

LEMMA MulticastFacts ==
  ASSUME TypeOK, NEW n \in Node, NEW type, NEW targets, ~Writing(n),
         Multicast(n, type, targets)
  PROVE  /\ \A x, t : ~Sending(n, x, t)
         /\ \A x, t : Sending(n, x, t)' <=> x \in targets /\ t = type
         /\ \A x \in Node \ {n} : outbox'[x] = outbox[x] /\ clock'[x] = clock[x]
         /\ clock'[n] = ClockSend(clock[n]) /\ clock'[n] \in Nat /\ clock[n] < clock'[n]
  <1>1. \A x, t : ~Sending(n, x, t)
    BY DEF Sending, Writing
  <1>2. /\ outbox'[n] = ToWrite(type, targets)
        /\ \A x \in Node \ {n} : outbox'[x] = outbox[x] /\ clock'[x] = clock[x]
        /\ clock'[n] = ClockSend(clock[n])
    BY DEF Multicast, TypeOK
  <1>3. \A x, t : Sending(n, x, t)' <=> x \in targets /\ t = type
    <2> SUFFICES ASSUME NEW x, NEW t
                 PROVE  x \in outbox'[n].to /\ outbox'[n].type = t
                          <=> x \in targets /\ t = type
      BY DEF Sending
    <2> QED
      BY <1>2 DEF ToWrite, Idle
  <1>4. clock'[n] \in Nat /\ clock[n] < clock'[n]
    BY <1>2, ClockFacts DEF Multicast, TypeOK
  <1> QED
    BY <1>1, <1>2, <1>3, <1>4

LEMMA TakesFacts ==
  ASSUME TypeOK, NEW n \in Node, NEW m \in Node, n # m, NEW type, Takes(n, m, type)
  PROVE  /\ ~Writing(n) /\ \A x, t : ~Sending(n, x, t)
         /\ Popped(m, n) /\ Head(channel[m][n]).type = type
         /\ \A x, y \in Node : x # m \/ y # n => SamePipe(x, y)
         /\ LET sent == Head(channel[m][n]).time IN
              /\ ClockReceive(clock[n], sent) \in Nat
              /\ clock[n] < ClockReceive(clock[n], sent)
              /\ sent < ClockReceive(clock[n], sent)
  <1>1. ~Writing(n) /\ channel[m][n] # <<>> /\ Head(channel[m][n]).type = type
    BY DEF Takes, Dispatching
  <1>2. /\ channel'[m][n] = Tail(channel[m][n])
        /\ \A x, y \in Node : x # m \/ y # n => channel'[x][y] = channel[x][y]
    BY DEF Takes, TypeOK
  <1>3. \A x, t : ~Sending(n, x, t)
    BY <1>1 DEF Sending, Writing
  <1>4. /\ Head(channel[m][n]).time \in Timestamp
        /\ ClockReceive(clock[n], Head(channel[m][n]).time) \in Timestamp
    BY TypeTakes
  <1>5. CanReceive(clock[n], Head(channel[m][n]).time) /\ clock[n] \in Timestamp
    BY DEF Takes, Accepts, TypeOK
  <1> QED
    BY <1>1, <1>2, <1>3, <1>4, <1>5, ClockFacts DEF Popped, SamePipe

LEMMA TicksFacts ==
  ASSUME TypeOK, NEW n \in Node, NEW m \in Node, n # m, NEW type, Takes(n, m, type),
         Ticks(n, Head(channel[m][n]).time), NEW q \in Worker
  PROVE  Later(q)
  <1> DEFINE received == ClockReceive(clock[n], Head(channel[m][n]).time)
  <1>1. received \in Nat /\ clock[n] < received
    BY TakesFacts
  <1>2. clock' = [clock EXCEPT ![n] = received]
    BY DEF Ticks
  <1> HIDE DEF received
  <1>3. clock[q] \in Nat /\ clock[n] \in Nat /\ q \in Node
    BY NodeFacts, ClockFacts DEF TypeOK
  <1>4. clock'[q] = IF q = n THEN received ELSE clock[q]
    BY <1>2, <1>3 DEF TypeOK
  <1> QED
    BY <1>1, <1>3, <1>4 DEF Later

LEMMA WriteFacts ==
  ASSUME TypeOK, NEW n \in Node, NEW m \in Node, WriteFrame(n, m)
  PROVE  LET f == [type |-> outbox[n].type, time |-> clock[n]] IN
         /\ f \in Frame /\ Appended(n, m, f)
         /\ Sending(n, m, outbox[n].type) /\ Writing(n)
         /\ \A x, y \in Node : x # n \/ y # m => SamePipe(x, y)
         /\ \A x, t : Sending(n, x, t)' <=> Sending(n, x, t) /\ x # m
         /\ \A x \in Node \ {n} : outbox'[x] = outbox[x]
         /\ UNCHANGED <<clock, cs>>
  <1>1. m \in outbox[n].to /\ outbox[n] \in [type : MessageType, to : SUBSET Node]
    BY DEF WriteFrame, NextTarget, TypeOK, Idle
  <1>2. [type |-> outbox[n].type, time |-> clock[n]] \in Frame
    BY <1>1 DEF TypeOK, Frame
  <1>3. /\ channel'[n][m] = Append(channel[n][m], [type |-> outbox[n].type, time |-> clock[n]])
        /\ \A x, y \in Node : x # n \/ y # m => channel'[x][y] = channel[x][y]
    BY DEF WriteFrame, TypeOK
  <1>4. /\ outbox'[n] = ToWrite(outbox[n].type, outbox[n].to \ {m})
        /\ \A x \in Node \ {n} : outbox'[x] = outbox[x]
        /\ UNCHANGED <<clock, cs>>
    BY DEF WriteFrame, TypeOK
  <1>5. \A x, t : Sending(n, x, t)' <=> Sending(n, x, t) /\ x # m
    <2> SUFFICES ASSUME NEW x, NEW t
                 PROVE  x \in outbox'[n].to /\ outbox'[n].type = t
                          <=> x \in outbox[n].to /\ outbox[n].type = t /\ x # m
      BY DEF Sending
    <2> QED
      BY <1>4 DEF ToWrite, Idle
  <1> QED
    BY <1>1, <1>2, <1>3, <1>4, <1>5 DEF Appended, SamePipe, Sending, Writing

(* A step that leaves clocks, pipes, writes and tables alone. *)
LEMMA QuietPair ==
  ASSUME TypeOK, NEW p \in Worker, NEW q \in Worker, PairOk(p, q),
         UNCHANGED <<clock, channel, outbox, cs>>
  PROVE  PairOk(p, q)'
  <1>1. Later(q)
    BY PairTypes DEF Later
  <1>2. SamePipe(p, q) /\ SamePipe(q, p)
    BY DEF SamePipe
  <1>3. SamePair(p, q)
    BY DEF SamePair, SameClaim, SameReplied, SameTable, SameSending, Claims, Own, Sending, cs
  <1> QED
    BY <1>1, <1>2, <1>3, PairKept

(* A pair that the acting node is no part of. *)
LEMMA OtherPair ==
  ASSUME TypeOK, NEW p \in Worker, NEW q \in Worker, PairOk(p, q), NEW n \in Node,
         n # p, n # q, OthersKeep(n), SamePipe(p, q), SamePipe(q, p)
  PROVE  PairOk(p, q)'
  <1>1. p \in Node \ {n} /\ q \in Node \ {n}
    BY NodeFacts
  <1>2. Later(q)
    BY <1>1, PairTypes DEF Later, OthersKeep
  <1>3. SamePair(p, q)
    BY <1>1 DEF OthersKeep, SamePair, SameClaim, SameReplied, SameTable, SameSending,
                Claims, Own, Sending
  <1> QED
    BY <1>2, <1>3, PairKept

-----------------------------------------------------------------------------
(* Every action keeps every pair. *)

LEMMA InvParts ==
  ASSUME MutexInv
  PROVE  /\ TypeOK
         /\ \A p \in Worker : ClaimOk(p)
         /\ \A p, q \in Worker : p # q => PairOk(p, q)
  BY DEF MutexInv

(* STARTED, DONE: a multicast that is no request, no reply and no release. *)
LEMMA PairAnnounce ==
  ASSUME MutexInv, NEW n \in Node, NEW p \in Worker, NEW q \in Worker, p # q,
         NEW type \in {"STARTED", "DONE"}, NEW targets, ~Writing(n),
         Multicast(n, type, targets), UNCHANGED <<channel, cs>>
  PROVE  PairOk(p, q)'
  <1>1. TypeOK /\ PairOk(p, q) /\ p \in Node /\ q \in Node
    BY InvParts, NodeFacts
  <1>2. SamePipe(p, q) /\ SamePipe(q, p)
    BY DEF SamePipe
  <1>3. /\ \A x, t : ~Sending(n, x, t)
        /\ \A x, t : Sending(n, x, t)' <=> x \in targets /\ t = type
        /\ \A x \in Node \ {n} : outbox'[x] = outbox[x]
    BY <1>1, MulticastFacts
  <1>4. \A x \in Node : \A y :
          SameSending(x, y, "CS_REQUEST") /\ SameSending(x, y, "CS_REPLY")
    <2> SUFFICES ASSUME NEW x \in Node, NEW y
                 PROVE  SameSending(x, y, "CS_REQUEST") /\ SameSending(x, y, "CS_REPLY")
      OBVIOUS
    <2>1. CASE x = n
      BY <1>3, <2>1 DEF SameSending
    <2>2. CASE x # n
      BY <1>3, <2>2 DEF SameSending, Sending
    <2> QED
      BY <2>1, <2>2
  <1>5. SamePair(p, q)
    BY <1>1, <1>4 DEF SamePair, SameClaim, SameReplied, SameTable, Claims, Own, cs
  <1>6. Later(q)
    BY <1>1, PairTypes, MulticastFacts DEF Later
  <1> QED
    BY <1>1, <1>2, <1>5, <1>6, PairKept

LEMMA PairRequest ==
  ASSUME MutexInv, NEW n \in Node, NEW p \in Worker, NEW q \in Worker, p # q,
         RequestCs(n)
  PROVE  PairOk(p, q)'
  <1>1. /\ TypeOK /\ PairOk(p, q) /\ p \in Node /\ q \in Node /\ ClaimOk(n)
        /\ n \in Worker
    BY InvParts, NodeFacts DEF RequestCs, AtWork, TypeOK
  <1>2. /\ ~Writing(n) /\ ~Claims(n)
        /\ Multicast(n, "CS_REQUEST", Peers(n))
    BY <1>1 DEF RequestCs, AtWork, ClaimOk
  <1>3. SamePipe(p, q) /\ SamePipe(q, p)
    BY DEF RequestCs, SamePipe
  <1>4. /\ replied'[n] = {} /\ queued'[n] = queued[n] \cup {n}
        /\ \A x \in Node : requested_at'[n][x] = IF x = n THEN ClockSend(clock[n])
                                                         ELSE requested_at[n][x]
        /\ OthersKeep(n)
    <2>1. replied'[n] = {} /\ queued'[n] = queued[n] \cup {n}
      BY <1>1 DEF RequestCs, TypeOK
    <2>2. \A x \in Node : requested_at'[n][x] = IF x = n THEN ClockSend(clock[n])
                                                         ELSE requested_at[n][x]
      BY <1>1 DEF RequestCs, TypeOK
    <2>3. \A x \in Node \ {n} : /\ queued'[x] = queued[x] /\ replied'[x] = replied[x]
                               /\ requested_at'[x] = requested_at[x]
      BY <1>1 DEF RequestCs, TypeOK
    <2> QED
      BY <1>1, <1>2, <2>1, <2>2, <2>3, MulticastFacts DEF OthersKeep
  <1>5. CASE n = p
    <2>1. Claims(p)' /\ ~(q \in replied[p])'
      BY <1>4, <1>5 DEF Claims
    <2>2. Sending(p, q, "CS_REQUEST")'
      BY <1>1, <1>2, <1>5, MulticastFacts DEF Peers
    <2>3. SameSending(q, p, "CS_REPLY")
      BY <1>1, <1>4, <1>5 DEF SameSending, Sending, OthersKeep
    <2> QED
      BY <1>1, <1>2, <1>3, <1>5, <2>1, <2>2, <2>3, PairClaimed
  <1>6. CASE n = q
    <2>1. SameSending(q, p, "CS_REPLY")
      BY <1>1, <1>2, <1>6, MulticastFacts DEF SameSending
    <2>2. SameSending(p, q, "CS_REQUEST") /\ SameClaim(p) /\ SameReplied(p, q)
      BY <1>1, <1>4, <1>6
         DEF OthersKeep, SameSending, SameClaim, SameReplied, Sending, Claims, Own
    <2>3. SameTable(p, q)
      BY <1>1, <1>4, <1>6 DEF SameTable
    <2>4. Later(q)
      BY <1>1, <1>2, <1>6, PairTypes, MulticastFacts DEF Later
    <2> QED
      BY <1>1, <1>3, <2>1, <2>2, <2>3, <2>4, PairKept DEF SamePair
  <1> QED
    BY <1>1, <1>3, <1>4, <1>5, <1>6, OtherPair

LEMMA PairRelease ==
  ASSUME MutexInv, NEW n \in Node, NEW p \in Worker, NEW q \in Worker, p # q,
         ReleaseCs(n)
  PROVE  PairOk(p, q)'
  <1>1. /\ TypeOK /\ PairOk(p, q) /\ p \in Node /\ q \in Node /\ ClaimOk(n)
        /\ n \in Worker
    BY InvParts, NodeFacts DEF ReleaseCs, TypeOK
  <1>2. /\ ~Writing(n) /\ Claims(n) /\ FirstAndConfirmed(n)
        /\ Multicast(n, "CS_RELEASE", Peers(n))
    BY <1>1 DEF ReleaseCs, ClaimOk, Requesting
  <1>3. SamePipe(p, q) /\ SamePipe(q, p)
    BY DEF ReleaseCs, SamePipe
  <1>4. /\ queued'[n] = queued[n] \ {n}
        /\ UNCHANGED <<replied, requested_at>>
        /\ OthersKeep(n)
    <2>1. queued' = [queued EXCEPT ![n] = @ \ {n}] /\ UNCHANGED <<replied, requested_at>>
      BY DEF ReleaseCs
    <2>2. queued \in [Node -> SUBSET Worker]
      BY <1>1 DEF TypeOK
    <2>3. \A x \in Node \ {n} : outbox'[x] = outbox[x] /\ clock'[x] = clock[x]
      BY <1>1, <1>2, MulticastFacts
    <2> QED
      BY <2>1, <2>2, <2>3 DEF OthersKeep
  <1>5. CASE n = p
    <2>1. q \in replied[p]
      BY <1>2, <1>5 DEF FirstAndConfirmed, Peers
    <2>2. ~Claims(p)' /\ ~Sending(p, q, "CS_REQUEST")'
      BY <1>1, <1>2, <1>4, <1>5, MulticastFacts DEF Claims
    <2>3. SameSending(q, p, "CS_REPLY")
      BY <1>1, <1>4, <1>5 DEF SameSending, Sending, OthersKeep
    <2> QED
      BY <1>1, <1>2, <1>3, <1>5, <2>1, <2>2, <2>3, PairWithdrawn
  <1>6. CASE n = q
    <2>1. SameSending(q, p, "CS_REPLY")
      BY <1>1, <1>2, <1>6, MulticastFacts DEF SameSending
    <2>2. SameSending(p, q, "CS_REQUEST") /\ SameClaim(p) /\ SameReplied(p, q)
      BY <1>1, <1>4, <1>6
         DEF OthersKeep, SameSending, SameClaim, SameReplied, Sending, Claims, Own
    <2>3. SameTable(p, q)
      BY <1>1, <1>4, <1>6 DEF SameTable
    <2>4. Later(q)
      BY <1>1, <1>2, <1>6, PairTypes, MulticastFacts DEF Later
    <2> QED
      BY <1>1, <1>3, <2>1, <2>2, <2>3, <2>4, PairKept DEF SamePair
  <1> QED
    BY <1>1, <1>3, <1>4, <1>5, <1>6, OtherPair

LEMMA PairWrite ==
  ASSUME MutexInv, NEW n \in Node, NEW p \in Worker, NEW q \in Worker, p # q,
         NEW m \in Node, n # m, WriteFrame(n, m)
  PROVE  PairOk(p, q)'
  <1>1. TypeOK /\ PairOk(p, q) /\ p \in Node /\ q \in Node /\ ClaimOk(p)
    BY InvParts, NodeFacts
  <1> DEFINE f == [type |-> outbox[n].type, time |-> clock[n]]
  <1>2. /\ f \in Frame /\ Appended(n, m, f)
        /\ Sending(n, m, f.type) /\ Writing(n)
        /\ \A x, y \in Node : x # n \/ y # m => SamePipe(x, y)
        /\ \A x, t : Sending(n, x, t)' <=> Sending(n, x, t) /\ x # m
        /\ \A x \in Node \ {n} : outbox'[x] = outbox[x]
        /\ UNCHANGED <<clock, cs>>
    BY <1>1, WriteFacts
  <1>3. f.type = outbox[n].type /\ f.time = clock[n]
    OBVIOUS
  <1> HIDE DEF f
  <1>4. SameClaim(p) /\ SameReplied(p, q) /\ SameTable(p, q) /\ Later(q)
    BY <1>1, <1>2, PairTypes DEF SameClaim, SameReplied, SameTable, Later, Claims, Own, cs
  <1>5. CASE n = p /\ m = q
    <2>1. SameSending(q, p, "CS_REPLY") /\ SamePipe(q, p)
      BY <1>1, <1>2, <1>5 DEF SameSending, Sending
    <2>2. f.type = "CS_REQUEST" => Sending(p, q, "CS_REQUEST") /\ f.time = Own(p)
      BY <1>1, <1>2, <1>3, <1>5 DEF ClaimOk
    <2>3. Sending(p, q, "CS_REQUEST")' <=>
            Sending(p, q, "CS_REQUEST") /\ f.type # "CS_REQUEST"
      BY <1>2, <1>3, <1>5 DEF Sending
    <2>4. f.type = "CS_RELEASE" => ~Claims(p) /\ ~Sending(p, q, "CS_REQUEST")
      BY <1>1, <1>2, <1>3, <1>5 DEF ClaimOk, Sending
    <2> QED
      BY <1>1, <1>2, <1>4, <1>5, <2>1, <2>2, <2>3, <2>4, PairAppendRequests
  <1>6. CASE n = q /\ m = p
    <2>1. SameSending(p, q, "CS_REQUEST") /\ SamePipe(p, q)
      BY <1>1, <1>2, <1>6 DEF SameSending, Sending
    <2>2. f.type = "CS_REPLY" => Sending(q, p, "CS_REPLY")
      BY <1>2, <1>6
    <2>3. Sending(q, p, "CS_REPLY")' <=> Sending(q, p, "CS_REPLY") /\ f.type # "CS_REPLY"
      BY <1>2, <1>3, <1>6 DEF Sending
    <2> QED
      BY <1>1, <1>2, <1>3, <1>4, <1>6, <2>1, <2>2, <2>3, PairAppendReplies
  <1>7. CASE ~(n = p /\ m = q) /\ ~(n = q /\ m = p)
    <2>1. SameSending(p, q, "CS_REQUEST") /\ SameSending(q, p, "CS_REPLY")
      BY <1>1, <1>2, <1>7 DEF SameSending, Sending
    <2>2. SamePipe(p, q) /\ SamePipe(q, p)
      BY <1>1, <1>2, <1>7
    <2> QED
      BY <1>1, <1>4, <2>1, <2>2, PairKept DEF SamePair
  <1> QED
    BY <1>5, <1>6, <1>7

(* STARTED, DONE: a frame is read that concerns no claim. *)
LEMMA PairReceivePlain ==
  ASSUME MutexInv, NEW n \in Node, NEW p \in Worker, NEW q \in Worker, p # q,
         NEW m \in Node, n # m, NEW type \in {"STARTED", "DONE"}, Takes(n, m, type),
         Ticks(n, Head(channel[m][n]).time), UNCHANGED <<outbox, cs>>
  PROVE  PairOk(p, q)'
  <1>1. TypeOK /\ PairOk(p, q) /\ p \in Node /\ q \in Node
    BY InvParts, NodeFacts
  <1>2. /\ Popped(m, n) /\ Head(channel[m][n]).type = type
        /\ \A x, y \in Node : x # m \/ y # n => SamePipe(x, y)
    BY <1>1, TakesFacts
  <1>3. SamePair(p, q)
    BY DEF SamePair, SameClaim, SameReplied, SameTable, SameSending, Sending, Claims, Own, cs
  <1>4. Later(q)
    BY <1>1, TicksFacts
  <1>5. CASE m = p /\ n = q
    BY <1>1, <1>2, <1>3, <1>4, <1>5, PairPopRequests
  <1>6. CASE m = q /\ n = p
    BY <1>1, <1>2, <1>3, <1>4, <1>6, PairPopReplies
  <1>7. CASE ~(m = p /\ n = q) /\ ~(m = q /\ n = p)
    BY <1>1, <1>2, <1>3, <1>4, <1>7, PairKept
  <1> QED
    BY <1>5, <1>6, <1>7

LEMMA PairReceiveRequest ==
  ASSUME MutexInv, NEW n \in Node, NEW p \in Worker, NEW q \in Worker, p # q,
         NEW m \in Node, n # m, ReceiveRequest(n, m)
  PROVE  PairOk(p, q)'
  <1> DEFINE sent == Head(channel[m][n]).time
             received == ClockReceive(clock[n], sent)
  <1>1. /\ TypeOK /\ PairOk(p, q) /\ p \in Node /\ q \in Node
        /\ Takes(n, m, "CS_REQUEST")
    BY InvParts, NodeFacts DEF ReceiveRequest
  <1>2. /\ \A x, t : ~Sending(n, x, t)
        /\ Popped(m, n) /\ Head(channel[m][n]).type = "CS_REQUEST"
        /\ \A x, y \in Node : x # m \/ y # n => SamePipe(x, y)
        /\ received \in Nat /\ clock[n] < received /\ sent < received
        /\ sent \in Nat
    BY <1>1, TakesFacts, TypeTakes, ClockFacts
  <1> HIDE DEF sent
  <1>3. /\ clock'[n] = received + 1
        /\ clock'[n] \in Nat /\ clock[n] <= clock'[n] /\ sent < clock'[n]
    <2>1. clock[n] \in Nat
      BY <1>1, ClockFacts DEF TypeOK
    <2>2. clock'[n] = received + 1
      BY <1>1 DEF ReceiveRequest, TypeOK, ClockSend, sent
    <2> HIDE DEF received
    <2> QED
      BY <1>2, <2>1, <2>2
  <1> HIDE DEF received
  <1>4. \A x, t : Sending(n, x, t)' <=> x = m /\ t = "CS_REPLY"
    <2>1. outbox'[n] = [type |-> "CS_REPLY", to |-> {m}]
      BY <1>1 DEF ReceiveRequest, TypeOK, ToWrite
    <2> QED
      BY <2>1 DEF Sending
  <1>5. /\ queued'[n] = queued[n] \cup {m}
        /\ requested_at'[n] = [requested_at[n] EXCEPT ![m] = sent]
        /\ \A x \in Node : requested_at'[n][x] = IF x = m THEN sent ELSE requested_at[n][x]
        /\ replied' = replied
    BY <1>1 DEF ReceiveRequest, TypeOK, sent
  <1>6. OthersKeep(n)
    BY <1>1 DEF ReceiveRequest, TypeOK, OthersKeep
  <1>7. CASE n = q
    <2>1. SameClaim(p) /\ SameReplied(p, q) /\ SameSending(p, q, "CS_REQUEST")
      BY <1>1, <1>6, <1>7
         DEF OthersKeep, SameClaim, SameReplied, SameSending, Claims, Own, Sending
    <2>2. Later(q)
      BY <1>3, <1>7 DEF Later
    <2>3. CASE m = p
      <3>1. (p \in queued[q])' /\ requested_at'[q][p] = Head(channel[p][q]).time
        BY <1>1, <1>5, <1>7, <2>3 DEF sent
      <3>2. Sending(q, p, "CS_REPLY")' /\ Head(channel[p][q]).time < clock'[q]
        BY <1>3, <1>4, <1>7, <2>3 DEF sent
      <3>3. SamePipe(q, p)
        BY <1>1, <1>2, <1>7, <2>3
      <3> QED
        BY <1>1, <1>2, <1>7, <2>1, <2>2, <2>3, <3>1, <3>2, <3>3, PairRequestTaken
    <2>4. CASE m # p
      <3>1. SameTable(p, q)
        <4>1. queued'[q] = queued[q] \cup {m}
          BY <1>5, <1>7
        <4>2. p \in queued'[q] <=> p \in queued[q]
          BY <2>4, <4>1
        <4>3. requested_at'[q][p] = requested_at[q][p]
          BY <1>1, <1>5, <1>7, <2>4
        <4> QED
          BY <4>2, <4>3 DEF SameTable
      <3>2. SameSending(q, p, "CS_REPLY")
        BY <1>2, <1>4, <1>7, <2>4 DEF SameSending
      <3>3. SamePipe(p, q) /\ SamePipe(q, p)
        BY <1>1, <1>2, <1>7, <2>4
      <3> QED
        BY <1>1, <2>1, <2>2, <3>1, <3>2, <3>3, PairKept DEF SamePair
    <2> QED
      BY <2>3, <2>4
  <1>8. CASE n = p
    <2>1. SameClaim(p)
      BY <1>1, <1>5, <1>8 DEF SameClaim, Claims, Own
    <2>2. SameReplied(p, q) /\ SameTable(p, q) /\ SameSending(q, p, "CS_REPLY") /\ Later(q)
      BY <1>1, <1>5, <1>6, <1>8, PairTypes
         DEF OthersKeep, SameReplied, SameTable, SameSending, Sending, Later
    <2>3. SameSending(p, q, "CS_REQUEST")
      BY <1>2, <1>4, <1>8 DEF SameSending
    <2>4. SamePair(p, q) /\ SamePipe(p, q)
      BY <1>1, <1>2, <1>8, <2>1, <2>2, <2>3 DEF SamePair
    <2>5. CASE m = q
      BY <1>1, <1>2, <1>8, <2>2, <2>4, <2>5, PairPopReplies
    <2>6. CASE m # q
      BY <1>1, <1>2, <1>8, <2>2, <2>4, <2>6, PairKept
    <2> QED
      BY <2>5, <2>6
  <1>9. CASE n # p /\ n # q
    BY <1>1, <1>2, <1>6, <1>9, OtherPair
  <1> QED
    BY <1>7, <1>8, <1>9

LEMMA PairReceiveReply ==
  ASSUME MutexInv, NEW n \in Node, NEW p \in Worker, NEW q \in Worker, p # q,
         NEW m \in Node, n # m, ReceiveReply(n, m)
  PROVE  PairOk(p, q)'
  <1>1. /\ TypeOK /\ PairOk(p, q) /\ p \in Node /\ q \in Node
        /\ Takes(n, m, "CS_REPLY")
    BY InvParts, NodeFacts DEF ReceiveReply
  <1>2. /\ Popped(m, n) /\ Head(channel[m][n]).type = "CS_REPLY"
        /\ \A x, y \in Node : x # m \/ y # n => SamePipe(x, y)
    BY <1>1, TakesFacts
  <1>3. Later(q)
    BY <1>1, TicksFacts DEF ReceiveReply
  <1>4. /\ SameClaim(p) /\ SameTable(p, q)
        /\ SameSending(p, q, "CS_REQUEST") /\ SameSending(q, p, "CS_REPLY")
    BY DEF ReceiveReply, SameClaim, SameTable, SameSending, Claims, Own, Sending
  <1>5. \A x \in Node : replied'[x] = IF x = n THEN replied[x] \cup {m} ELSE replied[x]
    BY <1>1 DEF ReceiveReply, TypeOK
  <1>6. CASE n = p /\ m = q
    <2>1. (q \in replied[p])' /\ SamePipe(p, q)
      BY <1>1, <1>2, <1>5, <1>6
    <2> QED
      BY <1>1, <1>2, <1>3, <1>4, <1>6, <2>1, PairReplyTaken
  <1>7. CASE n = q /\ m = p
    <2>1. SameReplied(p, q) /\ SamePipe(q, p)
      BY <1>1, <1>2, <1>5, <1>7 DEF SameReplied
    <2> QED
      BY <1>1, <1>2, <1>3, <1>4, <1>7, <2>1, PairPopRequests DEF SamePair
  <1>8. CASE ~(n = p /\ m = q) /\ ~(n = q /\ m = p)
    <2>1. SameReplied(p, q) /\ SamePipe(p, q) /\ SamePipe(q, p)
      BY <1>1, <1>2, <1>5, <1>8 DEF SameReplied
    <2> QED
      BY <1>1, <1>3, <1>4, <2>1, PairKept DEF SamePair
  <1> QED
    BY <1>6, <1>7, <1>8

LEMMA PairReceiveRelease ==
  ASSUME MutexInv, NEW n \in Node, NEW p \in Worker, NEW q \in Worker, p # q,
         NEW m \in Node, n # m, ReceiveRelease(n, m)
  PROVE  PairOk(p, q)'
  <1>1. /\ TypeOK /\ PairOk(p, q) /\ p \in Node /\ q \in Node
        /\ Takes(n, m, "CS_RELEASE")
    BY InvParts, NodeFacts DEF ReceiveRelease
  <1>2. /\ Popped(m, n) /\ Head(channel[m][n]).type = "CS_RELEASE"
        /\ \A x, y \in Node : x # m \/ y # n => SamePipe(x, y)
    BY <1>1, TakesFacts
  <1>3. Later(q)
    BY <1>1, TicksFacts DEF ReceiveRelease
  <1>4. /\ SameReplied(p, q)
        /\ SameSending(p, q, "CS_REQUEST") /\ SameSending(q, p, "CS_REPLY")
    BY DEF ReceiveRelease, SameReplied, SameSending, Sending
  <1>5. /\ \A x \in Node : queued'[x] = IF x = n THEN queued[x] \ {m} ELSE queued[x]
        /\ requested_at' = requested_at
    BY <1>1 DEF ReceiveRelease, TypeOK
  <1>6. SameClaim(p)
    BY <1>1, <1>5 DEF SameClaim, Claims, Own
  <1>7. CASE n = q /\ m = p
    <2>1. SamePipe(q, p)
      BY <1>1, <1>2, <1>7
    <2> QED
      BY <1>1, <1>2, <1>3, <1>4, <1>6, <1>7, <2>1, PairReleaseTaken
  <1>8. CASE ~(n = q /\ m = p)
    <2>1. SamePair(p, q) /\ SamePipe(p, q)
      BY <1>1, <1>2, <1>4, <1>5, <1>6, <1>8 DEF SameTable, SamePair
    <2>2. CASE n = p /\ m = q
      BY <1>1, <1>2, <1>3, <2>1, <2>2, PairPopReplies
    <2>3. CASE ~(n = p /\ m = q)
      BY <1>1, <1>2, <1>3, <2>1, <2>3, PairKept
    <2> QED
      BY <2>2, <2>3
  <1> QED
    BY <1>7, <1>8

LEMMA PairNode ==
  ASSUME MutexInv, NEW n \in Node, NEW p \in Worker, NEW q \in Worker, p # q, NodeNext(n)
  PROVE  PairOk(p, q)'
  <1> USE DEF cs
  <1>1. TypeOK /\ PairOk(p, q) /\ (\A x \in Worker : ClaimOk(x))
    BY InvParts
  <1>2. UNCHANGED <<clock, channel, outbox, cs>> => PairOk(p, q)'
    BY <1>1, QuietPair
  <1>3. CASE AnnounceStarted(n)
    <2>1. n \in Worker /\ ~Writing(n)
      BY <1>1, <1>3, NodeFacts DEF AnnounceStarted, TypeOK, ClaimOk
    <2> QED
      BY <1>3, <2>1, PairAnnounce DEF AnnounceStarted
  <1>4. CASE AnnounceDone(n)
    BY <1>4, PairAnnounce DEF AnnounceDone, AtWork
  <1>5. CASE RequestCs(n)
    BY <1>5, PairRequest
  <1>6. CASE ReleaseCs(n)
    BY <1>6, PairRelease
  <1>7. CASE \/ PassStarted(n) \/ PrintOnly(n) \/ EnterCs(n) \/ PassDone(n)
             \/ SendOverflow(n) \/ PeersClosed(n)
             \/ \E m \in Node \ {n} : BrokenPipe(n, m) \/ RejectFrame(n, m)
    BY <1>2, <1>7 DEF PassStarted, PrintOnly, EnterCs, PassDone, SendOverflow, PeersClosed,
                      BrokenPipe, RejectFrame, Fatal, Fail
  <1>8. CASE \E m \in Node \ {n} : WriteFrame(n, m)
    BY <1>8, PairWrite
  <1>9. ASSUME NEW m \in Node \ {n}, ReceiveStarted(n, m) \/ ReceiveDone(n, m)
        PROVE  PairOk(p, q)'
    BY <1>9, PairReceivePlain DEF ReceiveStarted, ReceiveDone
  <1>10. ASSUME NEW m \in Node \ {n},
                ReceiveRequest(n, m) \/ ReceiveReply(n, m) \/ ReceiveRelease(n, m)
         PROVE  PairOk(p, q)'
    BY <1>10, PairReceiveRequest, PairReceiveReply, PairReceiveRelease
  <1> QED
    BY <1>3, <1>4, <1>5, <1>6, <1>7, <1>8, <1>9, <1>10 DEF NodeNext, Dispatch

-----------------------------------------------------------------------------
(* Every action keeps what a claim says of its worker. *)

ClaimKeeps(p) ==
  /\ outbox'[p] = outbox[p] /\ clock'[p] = clock[p] /\ queued'[p] = queued[p]
  /\ replied'[p] = replied[p] /\ requested_at'[p] = requested_at[p]

LEMMA ClaimKept ==
  ASSUME NEW p \in Worker, ClaimOk(p), ClaimKeeps(p),
         \/ pc'[p] = pc[p]
         \/ pc'[p] \in {"failed", "killed"}
         \/ pc[p] = "unborn" /\ pc'[p] = "boot"
  PROVE  ClaimOk(p)'
  BY DEF ClaimOk, ClaimKeeps, Claims, Own, Requesting, Writing, FirstAndConfirmed

LEMMA ClaimOther ==
  ASSUME TypeOK, NEW n \in Node, NEW p \in Worker, n # p, NodeNext(n)
  PROVE  ClaimKeeps(p) /\ pc'[p] = pc[p]
  <1> USE NodeFacts DEF TypeOK, ClaimKeeps, cs, Goto, Multicast
  <1>1. CASE AnnounceStarted(n) \/ PassStarted(n) \/ PrintOnly(n) \/ AnnounceDone(n)
    BY <1>1 DEF AnnounceStarted, PassStarted, PrintOnly, AnnounceDone
  <1>2. CASE RequestCs(n) \/ EnterCs(n) \/ ReleaseCs(n) \/ PassDone(n)
    BY <1>2 DEF RequestCs, EnterCs, ReleaseCs, PassDone
  <1>3. CASE SendOverflow(n) \/ PeersClosed(n)
    BY <1>3 DEF SendOverflow, PeersClosed, Fatal, Fail
  <1>4. CASE \E m \in Node \ {n} : WriteFrame(n, m) \/ BrokenPipe(n, m) \/ RejectFrame(n, m)
    BY <1>4 DEF WriteFrame, BrokenPipe, RejectFrame, Fatal, Fail
  <1>5. ASSUME NEW m \in Node \ {n},
               ReceiveStarted(n, m) \/ ReceiveDone(n, m) \/ ReceiveReply(n, m)
        PROVE  ClaimKeeps(p) /\ pc'[p] = pc[p]
    BY <1>5 DEF ReceiveStarted, ReceiveDone, ReceiveReply, Ticks
  <1>6. ASSUME NEW m \in Node \ {n}, ReceiveRequest(n, m) \/ ReceiveRelease(n, m)
        PROVE  ClaimKeeps(p) /\ pc'[p] = pc[p]
    BY <1>6 DEF ReceiveRequest, ReceiveRelease, Ticks
  <1> QED
    BY <1>1, <1>2, <1>3, <1>4, <1>5, <1>6 DEF NodeNext, Dispatch

(* A worker without a claim that is not about to claim or enter. *)
LEMMA ClaimAbsent ==
  ASSUME NEW p \in Worker, ~(p \in queued'[p]),
         outbox'[p].to # {} => outbox'[p].type # "CS_REQUEST",
         pc'[p] \notin {"unborn", "boot", "waiting", "inside"}
  PROVE  ClaimOk(p)'
  BY DEF ClaimOk, Claims, Requesting, Writing

LEMMA ClaimSelf ==
  ASSUME MutexInv, NEW p \in Worker, NodeNext(p)
  PROVE  ClaimOk(p)'
  <1> USE DEF cs
  <1>1. TypeOK /\ ClaimOk(p) /\ p \in Node
    BY InvParts, NodeFacts
  <1>2. CASE AnnounceStarted(p) \/ AnnounceDone(p)
    <2>1. ~Claims(p)
      BY <1>1, <1>2 DEF ClaimOk, AnnounceStarted, AnnounceDone, AtWork
    <2>2. outbox'[p].to # {} => outbox'[p].type # "CS_REQUEST"
      BY <1>1, <1>2 DEF AnnounceStarted, AnnounceDone, Multicast, ToWrite, Idle, TypeOK
    <2>3. pc'[p] \in {"starting", "finishing"} /\ queued' = queued
      BY <1>1, <1>2 DEF AnnounceStarted, AnnounceDone, Goto, TypeOK
    <2> QED
      BY <2>1, <2>2, <2>3, ClaimAbsent DEF Claims
  <1>3. CASE PassStarted(p) \/ PassDone(p)
    <2>1. ~Claims(p) /\ outbox[p].to = {}
      BY <1>1, <1>3 DEF ClaimOk, PassStarted, PassDone, Writing
    <2>2. pc'[p] \notin {"unborn", "boot", "waiting", "inside"} /\ queued' = queued /\ outbox' = outbox
      BY <1>1, <1>3 DEF PassStarted, PassDone, Goto, TypeOK
    <2> QED
      BY <2>1, <2>2, ClaimAbsent DEF Claims
  <1>4. CASE RequestCs(p)
    <2>1. pc'[p] = "waiting" /\ p \in queued'[p]
      BY <1>1, <1>4 DEF RequestCs, Goto, TypeOK
    <2>2. /\ outbox'[p].to # {} => outbox'[p].type = "CS_REQUEST"
          /\ clock'[p] = ClockSend(clock[p])
      BY <1>1, <1>4 DEF RequestCs, Multicast, ToWrite, Idle, TypeOK
    <2>3. requested_at'[p][p] = ClockSend(clock[p])
      BY <1>1, <1>4 DEF RequestCs, TypeOK
    <2> QED
      BY <2>1, <2>2, <2>3 DEF ClaimOk, Claims, Own, Requesting, Writing
  <1>5. CASE PrintOnly(p)
    BY <1>1, <1>5, ClaimKept DEF PrintOnly, ClaimKeeps
  <1>6. CASE EnterCs(p)
    <2>1. /\ pc'[p] = "inside" /\ pc[p] = "waiting"
          /\ ~Writing(p) /\ FirstAndConfirmed(p)
          /\ UNCHANGED <<clock, channel, outbox, cs>>
      BY <1>1, <1>6 DEF EnterCs, Goto, TypeOK
    <2> QED
      BY <1>1, <2>1 DEF ClaimOk, Claims, Own, Requesting, Writing, FirstAndConfirmed
  <1>7. CASE ReleaseCs(p)
    <2>1. pc'[p] = "work" /\ p \notin queued'[p]
      BY <1>1, <1>7 DEF ReleaseCs, Goto, TypeOK
    <2>2. outbox'[p].to # {} => outbox'[p].type # "CS_REQUEST"
      BY <1>1, <1>7 DEF ReleaseCs, Multicast, ToWrite, Idle, TypeOK
    <2> QED
      BY <2>1, <2>2, ClaimAbsent
  <1>8. CASE \/ SendOverflow(p) \/ PeersClosed(p)
             \/ \E m \in Node \ {p} : BrokenPipe(p, m) \/ RejectFrame(p, m)
    <2>1. Fatal(p) /\ p # PARENT_ID
      BY <1>8, NodeFacts DEF SendOverflow, PeersClosed, BrokenPipe, RejectFrame
    <2>2. pc'[p] = "failed" /\ ClaimKeeps(p)
      BY <1>1, <2>1 DEF Fatal, Fail, Goto, TypeOK, ClaimKeeps
    <2> QED
      BY <1>1, <2>2, ClaimKept
  <1>9. ASSUME NEW m \in Node \ {p}, WriteFrame(p, m)
        PROVE  ClaimOk(p)'
    <2>1. /\ outbox'[p].to # {} => outbox[p].to # {} /\ outbox'[p].type = outbox[p].type
          /\ outbox[p].to # {}
          /\ UNCHANGED <<pc, clock, cs>>
      BY <1>1, <1>9 DEF WriteFrame, NextTarget, ToWrite, Idle, TypeOK
    <2> QED
      BY <1>1, <2>1 DEF ClaimOk, Claims, Own, Requesting, Writing
  <1>10. ASSUME NEW m \in Node \ {p},
                ReceiveStarted(p, m) \/ ReceiveDone(p, m) \/ ReceiveReply(p, m)
                  \/ ReceiveRelease(p, m)
         PROVE  ClaimOk(p)'
    <2>1. /\ pc' = pc /\ outbox' = outbox /\ outbox[p].to = {}
          /\ pc[p] \in {"starting", "finishing", "waiting"}
      BY <1>10 DEF ReceiveStarted, ReceiveDone, ReceiveReply, ReceiveRelease, Takes,
                   Dispatching, Writing
    <2>2. p \in queued'[p] <=> p \in queued[p]
      BY <1>1, <1>10 DEF ReceiveStarted, ReceiveDone, ReceiveReply, ReceiveRelease, TypeOK
    <2> QED
      BY <1>1, <2>1, <2>2 DEF ClaimOk, Claims, Requesting, Writing
  <1>11. ASSUME NEW m \in Node \ {p}, ReceiveRequest(p, m)
         PROVE  ClaimOk(p)'
    <2>1. /\ pc' = pc /\ outbox'[p].type = "CS_REPLY"
          /\ pc[p] \in {"starting", "finishing", "waiting"}
      BY <1>1, <1>11 DEF ReceiveRequest, Takes, Dispatching, ToWrite, TypeOK
    <2>2. p \in queued'[p] <=> p \in queued[p]
      BY <1>1, <1>11 DEF ReceiveRequest, TypeOK
    <2> QED
      BY <1>1, <2>1, <2>2 DEF ClaimOk, Claims, Requesting, Writing
  <1> QED
    BY <1>2, <1>3, <1>4, <1>5, <1>6, <1>7, <1>8, <1>9, <1>10, <1>11 DEF NodeNext, Dispatch

-----------------------------------------------------------------------------
(* The invariant, and what follows from it. *)

LEMMA InvInit == Init => MutexInv
  <1> SUFFICES ASSUME Init PROVE MutexInv
    OBVIOUS
  <1>1. TypeOK
    BY TypeInit
  <1>2. \A p \in Node : /\ ~Claims(p) /\ ~Writing(p)
                        /\ pc[p] \notin {"waiting", "inside"}
    BY DEF Init, NothingForked, Claims, Writing, Idle
  <1>3. \A p, q \in Node : channel[p][q] = <<>> /\ \A t : ~UnderWay(p, q, t)
    <2>1. \A p, q \in Node : channel[p][q] = <<>> /\ outbox[p].to = {}
      BY DEF Init, Idle
    <2>2. DOMAIN <<>> = {}
      OBVIOUS
    <2> QED
      BY <2>1, <2>2 DEF UnderWay, Sending, InPipe
  <1>4. \A p \in Worker : ClaimOk(p)
    BY <1>2, NodeFacts DEF ClaimOk, Requesting
  <1>5. ASSUME NEW p \in Worker, NEW q \in Worker, p # q
        PROVE  PairOk(p, q)
    <2>1. ~Claims(p) /\ (\A t : ~UnderWay(p, q, t)) /\ (\A t : ~UnderWay(q, p, t))
      BY <1>2, <1>3, NodeFacts
    <2> QED
      BY <2>1 DEF PairOk, RequestOk, ReplyOk, UnderWay, InPipe
  <1> QED
    BY <1>1, <1>4, <1>5 DEF MutexInv

LEMMA InvStep == MutexInv /\ [Next]_vars => MutexInv'
  <1> SUFFICES ASSUME MutexInv, [Next]_vars PROVE MutexInv'
    OBVIOUS
  <1> USE DEF cs, barriers
  <1>1. TypeOK /\ TypeOK'
    BY InvParts, TypeStep
  <1>2. ASSUME NEW n \in Node, NodeNext(n)
        PROVE  /\ \A p \in Worker : ClaimOk(p)'
               /\ \A p, q \in Worker : p # q => PairOk(p, q)'
    <2>1. ASSUME NEW p \in Worker
          PROVE  ClaimOk(p)'
      <3>1. CASE n = p
        BY <1>2, <3>1, ClaimSelf
      <3>2. CASE n # p
        BY <1>1, <1>2, <3>2, InvParts, ClaimOther, ClaimKept
      <3> QED
        BY <3>1, <3>2
    <2> QED
      BY <1>2, <2>1, PairNode
  <1>3. ASSUME Supervision \/ Signals \/ UNCHANGED vars
        PROVE  /\ \A p \in Worker : ClaimOk(p)'
               /\ \A p, q \in Worker : p # q => PairOk(p, q)'
    <2>1. UNCHANGED <<clock, channel, outbox, cs>>
      BY <1>3 DEF Supervision, Signals, vars
    <2>2. ASSUME NEW p \in Worker
          PROVE  \/ pc'[p] = pc[p]
                 \/ pc'[p] \in {"failed", "killed"}
                 \/ pc[p] = "unborn" /\ pc'[p] = "boot"
      BY <1>1, <1>3, NodeFacts
         DEF Supervision, Signals, Supervise, AllForked, Fork, NextToFork, ForkFails,
             StopWorker, Reap, Kill, Goto, TypeOK, vars
    <2>3. ASSUME NEW p \in Worker
          PROVE  ClaimOk(p)'
      BY <2>1, <2>2, InvParts, ClaimKept DEF ClaimKeeps
    <2> QED
      BY <1>1, <2>1, <2>3, InvParts, QuietPair
  <1>4. /\ \A p \in Worker : ClaimOk(p)'
        /\ \A p, q \in Worker : p # q => PairOk(p, q)'
    BY <1>2, <1>3 DEF Next
  <1> QED
    BY <1>1, <1>4 DEF MutexInv

THEOREM InvCorrect == Spec => []MutexInv
  <1> QED
    BY InvInit, InvStep, PTL DEF Spec

(* Lamport's ordering, for every number of workers and whoever dies when:   *)
(* nobody is inside while an earlier claim stands, even one whose request   *)
(* has not arrived (first_and_confirmed, the stamps of clock.c, the FIFO    *)
(* pipes).                                                                  *)
THEOREM GrantsCorrect == Spec => []GrantsInOrder
  <1> QED
    BY InvCorrect, InvImpliesOrder, PTL

(* print() runs in one worker at a time. *)
THEOREM MutexCorrect == Spec => []MutualExclusion
  <1>1. MutexInv => MutualExclusion
    <2> SUFFICES ASSUME MutexInv, NEW p \in Worker, NEW q \in Worker,
                        pc[p] = "inside", pc[q] = "inside", p # q
                 PROVE  FALSE
      BY DEF MutualExclusion
    <2>1. Claims(p) /\ Claims(q)
      BY InvParts DEF ClaimOk, Requesting
    <2>2. Earlier(Own(p), p, Own(q), q) /\ Earlier(Own(q), q, Own(p), p)
      BY <2>1, InvImpliesOrder DEF GrantsInOrder
    <2>3. Own(p) \in Nat /\ Own(q) \in Nat /\ p \in Nat /\ q \in Nat
      BY InvParts, PairTypes, NodeFacts
    <2> QED
      BY <2>2, <2>3 DEF Earlier
  <1> QED
    BY <1>1, InvCorrect, PTL

-----------------------------------------------------------------------------
(* Where a node may go in a step. *)

WorkerMoves(p) ==
  \/ pc'[p] = pc[p]
  \/ pc[p] = "unborn" /\ pc'[p] = "boot" /\ pc[PARENT_ID] = "boot"
  \/ pc[p] = "boot" /\ pc'[p] = "starting"
  \/ pc[p] = "starting" /\ pc'[p] = "work" /\ Peers(p) \subseteq started[p]
  \/ MutexEnabled /\ pc[p] = "work" /\ pc'[p] = "waiting"
  \/ pc[p] = "waiting" /\ pc'[p] = "inside"
  \/ pc[p] = "inside" /\ pc'[p] = "work"
  \/ pc[p] = "work" /\ pc'[p] = "finishing" /\ iteration[p] = Iterations[p]
  \/ pc[p] = "finishing" /\ pc'[p] = "exited" /\ Peers(p) \subseteq done[p]
  \/ pc[p] \notin Over \cup {"unborn"} /\ pc'[p] \in {"failed", "killed"}

ParentMoves ==
  \/ pc'[PARENT_ID] = pc[PARENT_ID]
  \/ /\ pc[PARENT_ID] = "boot" /\ pc'[PARENT_ID] = "starting"
     /\ \A p \in Worker : pc[p] # "unborn"
  \/ pc[PARENT_ID] = "starting" /\ pc'[PARENT_ID] = "finishing" /\ Worker \subseteq started[PARENT_ID]
  \/ pc[PARENT_ID] = "finishing" /\ pc'[PARENT_ID] = "reaping" /\ Worker \subseteq done[PARENT_ID]
  \/ pc[PARENT_ID] \notin Over /\ pc'[PARENT_ID] \in {"stopping", "aborting", "killed"}
  \/ /\ pc[PARENT_ID] \in {"reaping", "stopping", "aborting"}
     /\ pc'[PARENT_ID] \in {"exited", "failed"}
     /\ \A p \in Worker : pc[p] \in Over \cup {"unborn"}
     /\ pc'[PARENT_ID] = "exited" =>
          pc[PARENT_ID] = "reaping" /\ \A p \in Worker : pc[p] = "exited"

Counts(p) ==
  \/ iteration'[p] = iteration[p]
  \/ pc[p] = "work" /\ pc'[p] \in {"work", "waiting"}

Moves ==
  /\ \A p \in Worker : WorkerMoves(p) /\ Counts(p)
  /\ ParentMoves

LEMMA StepMoves == TypeOK /\ [Next]_vars => Moves
<1> SUFFICES ASSUME TypeOK, [Next]_vars PROVE Moves
  OBVIOUS
<1> USE NodeFacts
<1>1. ASSUME NEW n \in Node, Fatal(n), pc[n] \notin Over \cup {"unborn"} PROVE Moves
  BY <1>1 DEF Fatal, Fail, Goto, TypeOK, Moves, WorkerMoves, ParentMoves, Counts, Over
<1>2. ASSUME UNCHANGED <<pc, iteration>> PROVE Moves
  BY <1>2 DEF Moves, WorkerMoves, ParentMoves, Counts
<1>3. ASSUME NEW n \in Node, NodeNext(n) PROVE Moves
  <2>1. CASE AnnounceStarted(n) \/ EnterCs(n) \/ ReleaseCs(n) \/ AnnounceDone(n)
    BY <2>1 DEF AnnounceStarted, EnterCs, ReleaseCs, AnnounceDone, AtWork, Goto, TypeOK,
                Moves, WorkerMoves, ParentMoves, Counts
  <2>2. CASE PassStarted(n) \/ PassDone(n)
    BY <2>2 DEF PassStarted, PassDone, Goto, TypeOK, AllReceived, Peers,
                Moves, WorkerMoves, ParentMoves, Counts
  <2>3. CASE RequestCs(n) \/ PrintOnly(n)
    BY <2>3 DEF RequestCs, PrintOnly, AtWork, Goto, TypeOK,
                Moves, WorkerMoves, ParentMoves, Counts
  <2>4. CASE SendOverflow(n)
    BY <2>4, <1>1 DEF SendOverflow, AtWork, Over
  <2>5. CASE PeersClosed(n)
    BY <2>5, <1>1 DEF PeersClosed, Dispatching, Over
  <2>6. ASSUME NEW q \in Node \ {n}, WriteFrame(n, q) PROVE Moves
    BY <2>6, <1>2 DEF WriteFrame
  <2>7. ASSUME NEW q \in Node \ {n}, BrokenPipe(n, q) PROVE Moves
    BY <2>7, <1>1 DEF BrokenPipe, NextTarget, Closed
  <2>8. ASSUME NEW q \in Node \ {n}, Dispatch(n, q) PROVE Moves
    <3>1. CASE RejectFrame(n, q)
      BY <3>1, <1>1 DEF RejectFrame, Dispatching, Over
    <3>2. CASE ~RejectFrame(n, q)
      BY <3>2, <2>8, <1>2
         DEF Dispatch, ReceiveStarted, ReceiveDone, ReceiveRequest, ReceiveReply, ReceiveRelease
    <3> QED BY <3>1, <3>2
  <2> QED BY <1>3, <2>1, <2>2, <2>3, <2>4, <2>5, <2>6, <2>7, <2>8 DEF NodeNext
<1>4. CASE Supervision
  <2>1. UNCHANGED iteration
    BY <1>4 DEF Supervision
  <2>2. CASE AllForked \/ Reap
    BY <2>1, <2>2 DEF AllForked, Reap, Goto, TypeOK, Over,
                      Moves, WorkerMoves, ParentMoves, Counts
  <2>3. ASSUME NEW p \in Worker, Fork(p) \/ ForkFails(p) \/ StopWorker(p) PROVE Moves
    BY <2>1, <2>3 DEF Fork, ForkFails, StopWorker, NextToFork, Goto, TypeOK, Over,
                      Moves, WorkerMoves, ParentMoves, Counts
  <2> QED BY <1>4, <2>2, <2>3 DEF Supervision, Supervise
<1>5. CASE Signals
  BY <1>5 DEF Signals, Kill, Goto, TypeOK, Over, Moves, WorkerMoves, ParentMoves, Counts
<1>6. CASE UNCHANGED vars
  BY <1>6, <1>2 DEF vars
<1> QED BY <1>3, <1>4, <1>5, <1>6 DEF Next

-----------------------------------------------------------------------------
(* Where a frame comes from in a step. *)

Born(p) == pc[p] \notin {"unborn", "boot"}

(* p has done its iterations and withdrawn its claim. *)
Finished(p) ==
  /\ pc[p] \in {"finishing", "exited", "failed", "killed"}
  /\ iteration[p] = Iterations[p] /\ ~Claims(p)

(* Traces of a frame of p with q: about to be written, in the pipe, received. *)
SomeTrace(p, q) == Writing(p) \/ channel[p][q] # <<>> \/ p \in started[q]
DoneTrace(p, q) ==
  (Writing(p) /\ outbox[p].type = "DONE") \/ InPipe(p, q, "DONE") \/ p \in done[q]

Traces(p, q) ==
  /\ SomeTrace(p, q)' => SomeTrace(p, q) \/ Born(p)'
  /\ DoneTrace(p, q)' => DoneTrace(p, q) \/ (pc[p] = "work" /\ pc'[p] = "finishing")
  /\ Claims(p)' => Claims(p) \/ (pc[p] = "work" /\ pc'[p] = "waiting")

LEMMA TakesShrinks ==
  ASSUME TypeOK, NEW n \in Node, NEW m \in Node, NEW type, Takes(n, m, type)
  PROVE  /\ InPipe(m, n, type) /\ channel[m][n] # <<>>
         /\ \A a, b \in Node : /\ channel'[a][b] # <<>> => channel[a][b] # <<>>
                              /\ \A t : InPipe(a, b, t)' => InPipe(a, b, t)
<1> DEFINE s == channel[m][n]
<1>1. s \in Seq(Frame) /\ s # <<>> /\ Head(s).type = type
  BY DEF TypeOK, Takes
<1> HIDE DEF s
<1>2. /\ 1 \in DOMAIN s /\ s[1].type = type
      /\ \A i \in DOMAIN Tail(s) : i + 1 \in DOMAIN s /\ Tail(s)[i] = s[i + 1]
  BY <1>1, TailOfPipe
<1>3. channel' = [channel EXCEPT ![m][n] = Tail(s)]
  BY DEF Takes, s
<1>4. ASSUME NEW a \in Node, NEW b \in Node
      PROVE  /\ channel'[a][b] # <<>> => channel[a][b] # <<>>
             /\ \A t : InPipe(a, b, t)' => InPipe(a, b, t)
  <2>1. CASE a = m /\ b = n
    <3>1. channel'[a][b] = Tail(s) /\ channel[a][b] = s
      BY <2>1, <1>3 DEF TypeOK, s
    <3> QED BY <3>1, <1>1, <1>2 DEF InPipe
  <2>2. CASE ~(a = m /\ b = n)
    <3>1. channel'[a][b] = channel[a][b]
      BY <2>2, <1>3 DEF TypeOK
    <3> QED BY <3>1 DEF InPipe
  <2> QED BY <2>1, <2>2
<1>5. InPipe(m, n, type) /\ channel[m][n] # <<>>
  BY <1>1, <1>2 DEF InPipe, s
<1> QED BY <1>4, <1>5

LEMMA StepTraces ==
  ASSUME TypeOK, [Next]_vars, NEW p \in Worker, NEW q \in Node
  PROVE  Traces(p, q)
<1> USE NodeFacts
<1>1. ASSUME UNCHANGED <<channel, outbox, started, done, queued>> PROVE Traces(p, q)
  BY <1>1 DEF Traces, SomeTrace, DoneTrace, Writing, InPipe, Claims
<1>2. ASSUME NEW n \in Node, NodeNext(n) PROVE Traces(p, q)
  <2>1. CASE PassStarted(n) \/ PrintOnly(n) \/ EnterCs(n) \/ PassDone(n)
             \/ SendOverflow(n) \/ PeersClosed(n)
    BY <2>1, <1>1 DEF PassStarted, PrintOnly, EnterCs, PassDone, SendOverflow, PeersClosed,
                      Fatal, cs, barriers
  <2>2. CASE AnnounceStarted(n) \/ AnnounceDone(n) \/ RequestCs(n) \/ ReleaseCs(n)
    <3>1. UNCHANGED <<channel, started, done>>
      BY <2>2 DEF AnnounceStarted, AnnounceDone, RequestCs, ReleaseCs, barriers
    <3>2. PICK type \in {"STARTED", "DONE", "CS_REQUEST", "CS_RELEASE"}, to \in SUBSET Node :
            /\ outbox' = [outbox EXCEPT ![n] = ToWrite(type, to)]
            /\ type = "DONE" => AnnounceDone(n)
      BY <2>2 DEF AnnounceStarted, AnnounceDone, RequestCs, ReleaseCs, Multicast, Peers
    <3>3. pc[n] \in {"boot", "work", "inside"} /\ pc'[n] \in {"starting", "finishing", "waiting", "work"}
      BY <2>2 DEF AnnounceStarted, AnnounceDone, RequestCs, ReleaseCs, AtWork, Goto, TypeOK
    <3>4. type = "DONE" => pc[n] = "work" /\ pc'[n] = "finishing"
      BY <3>2 DEF AnnounceDone, AtWork, Goto, TypeOK
    <3>5. Claims(p)' => Claims(p) \/ (pc[p] = "work" /\ pc'[p] = "waiting")
      <4>1. CASE AnnounceStarted(n) \/ AnnounceDone(n)
        BY <4>1 DEF AnnounceStarted, AnnounceDone, Claims, cs
      <4>2. CASE RequestCs(n)
        BY <4>2 DEF RequestCs, AtWork, Goto, TypeOK, Claims
      <4>3. CASE ReleaseCs(n)
        <5>1. queued'[p] \subseteq queued[p]
          BY <4>3 DEF ReleaseCs, TypeOK
        <5> QED BY <5>1 DEF Claims
      <4> QED BY <2>2, <4>1, <4>2, <4>3
    <3>6. outbox'[p] = IF p = n THEN ToWrite(type, to) ELSE outbox[p]
      BY <3>2 DEF TypeOK
    <3> QED
      BY <3>1, <3>3, <3>4, <3>5, <3>6
         DEF Traces, SomeTrace, DoneTrace, Writing, InPipe, Born, ToWrite, Idle
  <2>3. ASSUME NEW m \in Node \ {n}, WriteFrame(n, m) PROVE Traces(p, q)
    <3>1. Writing(n) /\ UNCHANGED <<pc, started, done, queued>>
      BY <2>3 DEF WriteFrame, NextTarget, Writing, cs, barriers
    <3>2. outbox'[p].type = "DONE" \/ Writing(p)' =>
            \/ Writing(p) /\ (Writing(p)' => outbox'[p].type = outbox[p].type)
            \/ outbox'[p] = outbox[p]
      BY <3>1, <2>3 DEF WriteFrame, TypeOK, Writing, ToWrite, Idle
    <3>3. CASE p = n /\ q = m
      <4> DEFINE f == [type |-> outbox[p].type, time |-> clock[p]]
      <4>1. channel'[p][q] = Append(channel[p][q], f) /\ channel[p][q] \in Seq(Frame)
        <5>1. channel' = [channel EXCEPT ![p][q] = Append(@, f)]
          BY <3>3, <2>3 DEF WriteFrame
        <5>2. channel \in [Node -> [Node -> Seq(Frame)]] /\ p \in Node /\ q \in Node
          BY <2>3, <3>3 DEF TypeOK
        <5> HIDE DEF f
        <5> QED
          BY <5>1, <5>2
      <4>2. f \in Frame
        <5>1. /\ outbox[p] \in {Idle} \cup [type : MessageType, to : SUBSET Node]
              /\ clock[p] \in Timestamp /\ outbox[p].to # {}
          BY <3>1, <3>3 DEF TypeOK, Writing
        <5>2. outbox[p].type \in MessageType
          BY <5>1 DEF Idle
        <5> QED
          BY <5>1, <5>2 DEF Frame
      <4> HIDE DEF f
      <4>3. InPipe(p, q, "DONE")' => InPipe(p, q, "DONE") \/ f.type = "DONE"
        <5> PICK s, r : s = channel[p][q] /\ r = channel'[p][q]
          OBVIOUS
        <5>1. s \in Seq(Frame) /\ r = Append(s, f)
          BY <4>1
        <5>2. \A i \in DOMAIN r : (i \in DOMAIN s /\ r[i] = s[i]) \/ r[i] = f
          BY <4>2, <5>1, AppendToPipe
        <5> QED
          BY <5>2 DEF InPipe
      <4>4. f.type = outbox[p].type
        BY DEF f
      <4> QED
        BY <3>1, <3>2, <3>3, <4>3, <4>4 DEF Traces, SomeTrace, DoneTrace, Claims
    <3>4. CASE ~(p = n /\ q = m)
      <4>1. channel'[p][q] = channel[p][q]
        BY <3>4, <2>3 DEF WriteFrame, TypeOK
      <4>2. InPipe(p, q, "DONE")' => InPipe(p, q, "DONE")
        BY <4>1 DEF InPipe
      <4> QED
        BY <3>1, <3>2, <4>1, <4>2 DEF Traces, SomeTrace, DoneTrace, Claims, Writing
    <3> QED BY <3>3, <3>4
  <2>4. ASSUME NEW m \in Node \ {n}, BrokenPipe(n, m) \/ RejectFrame(n, m) PROVE Traces(p, q)
    BY <2>4, <1>1 DEF BrokenPipe, RejectFrame, Fatal, cs
  <2>5. ASSUME NEW m \in Node \ {n}, ReceiveStarted(n, m) PROVE Traces(p, q)
    BY <2>5, TakesShrinks DEF ReceiveStarted, Traces, SomeTrace, DoneTrace, Writing, Claims, TypeOK, cs
  <2>6. ASSUME NEW m \in Node \ {n}, ReceiveDone(n, m) PROVE Traces(p, q)
    BY <2>6, TakesShrinks DEF ReceiveDone, Traces, SomeTrace, DoneTrace, Writing, Claims, TypeOK, cs
  <2>7. ASSUME NEW m \in Node \ {n}, ReceiveReply(n, m) \/ ReceiveRelease(n, m) PROVE Traces(p, q)
    <3>1. \A a, b \in Node : /\ channel'[a][b] # <<>> => channel[a][b] # <<>>
                            /\ \A t : InPipe(a, b, t)' => InPipe(a, b, t)
      BY <2>7, TakesShrinks DEF ReceiveReply, ReceiveRelease
    <3>2. UNCHANGED <<outbox, started, done>> /\ (Claims(p)' => Claims(p))
      <4>1. queued'[p] \subseteq queued[p]
        <5>1. queued' = queued \/ queued' = [queued EXCEPT ![n] = queued[n] \ {m}]
          BY <2>7 DEF ReceiveReply, ReceiveRelease
        <5>2. queued'[p] = queued[p] \/ queued'[p] = queued[p] \ {m}
          BY <5>1 DEF TypeOK
        <5> QED BY <5>2
      <4> QED BY <2>7, <4>1 DEF ReceiveReply, ReceiveRelease, Claims, barriers
    <3> QED BY <3>1, <3>2 DEF Traces, SomeTrace, DoneTrace, Writing
  <2>8. ASSUME NEW m \in Node \ {n}, ReceiveRequest(n, m) PROVE Traces(p, q)
    <3>1. \A a, b \in Node : /\ channel'[a][b] # <<>> => channel[a][b] # <<>>
                            /\ \A t : InPipe(a, b, t)' => InPipe(a, b, t)
      BY <2>8, TakesShrinks DEF ReceiveRequest
    <3>2. UNCHANGED <<pc, started, done>> /\ (Claims(p)' => Claims(p))
      BY <2>8 DEF ReceiveRequest, Claims, TypeOK, barriers
    <3>3. outbox'[p] = outbox[p] \/ (p = n /\ outbox'[p].type # "DONE")
      BY <2>8 DEF ReceiveRequest, TypeOK, ToWrite, Idle
    <3>4. Born(n)'
      BY <2>8, <3>2 DEF ReceiveRequest, Takes, Dispatching, Born
    <3> QED BY <3>1, <3>2, <3>3, <3>4 DEF Traces, SomeTrace, DoneTrace, Writing
  <2> QED BY <1>2, <2>1, <2>2, <2>3, <2>4, <2>5, <2>6, <2>7, <2>8 DEF NodeNext, Dispatch
<1>3. CASE Supervision \/ Signals \/ UNCHANGED vars
  BY <1>3, <1>1 DEF Supervision, Signals, vars, barriers, cs
<1> QED BY <1>2, <1>3 DEF Next

-----------------------------------------------------------------------------
(* The barriers.  Who has left a trace has been born; who has left the trace *)
(* of a DONE has finished, and stays finished: a claim is made only at work. *)

PastStart == {"work", "waiting", "inside", "finishing", "reaping", "exited"}

BarrierInv ==
  \A p \in Worker :
    /\ pc[p] \in {"finishing", "exited"} => iteration[p] = Iterations[p]
    /\ \A q \in Node :
         /\ SomeTrace(p, q) \/ pc[q] \in PastStart => Born(p)
         /\ DoneTrace(p, q) \/ pc[q] \in {"reaping", "exited"} => Finished(p)

LEMMA BarrierInit == Init => BarrierInv
BY NodeFacts DEF Init, BarrierInv, SomeTrace, DoneTrace, Writing, InPipe, Idle,
                 NothingForked, PastStart

LEMMA BarrierStep ==
  ASSUME MutexInv, MutexInv', BarrierInv, [Next]_vars
  PROVE  BarrierInv'
<1> USE NodeFacts
<1>1. TypeOK /\ Moves
  BY StepMoves DEF MutexInv
<1> SUFFICES ASSUME NEW p \in Worker, NEW q \in Node
             PROVE  /\ pc'[p] \in {"finishing", "exited"} => iteration'[p] = Iterations[p]
                    /\ SomeTrace(p, q)' \/ pc'[q] \in PastStart => Born(p)'
                    /\ DoneTrace(p, q)' \/ pc'[q] \in {"reaping", "exited"} => Finished(p)'
  BY DEF BarrierInv
<1>2. Traces(p, q) /\ WorkerMoves(p) /\ Counts(p)
  BY <1>1, StepTraces DEF Moves
<1>3. pc'[p] \in {"finishing", "exited"} => iteration'[p] = Iterations[p]
  BY <1>2 DEF WorkerMoves, Counts, BarrierInv
<1>4. Born(p) => Born(p)'
  BY <1>2 DEF WorkerMoves, Born, Over
<1>5. Finished(p) => Finished(p)'
  BY <1>2 DEF WorkerMoves, Counts, Finished, Traces, Over
(* At work nobody claims, so that a worker finishes without a claim. *)
<1>6. pc[p] \in {"work", "finishing"} /\ pc'[p] \in {"finishing", "exited"} => Finished(p)'
  <2>1. Claims(p)' => pc'[p] \in {"waiting", "inside", "failed", "killed"}
    BY DEF MutexInv, ClaimOk
  <2> QED BY <1>3, <2>1 DEF Finished
<1>7. pc'[q] \in PastStart => Born(p)'
  <2>1. CASE pc[q] \in PastStart
    BY <1>4, <2>1 DEF BarrierInv
  <2>2. CASE p = q
    BY <2>2 DEF PastStart, Born
  <2>3. CASE pc[q] \notin PastStart /\ p # q /\ pc'[q] \in PastStart
    <3>1. p \in started[q]
      BY <1>1, <2>3 DEF Moves, WorkerMoves, ParentMoves, PastStart, Peers, Over
    <3> QED BY <3>1, <1>4 DEF BarrierInv, SomeTrace
  <2> QED BY <2>1, <2>2, <2>3
<1>8. pc'[q] \in {"reaping", "exited"} => Finished(p)'
  <2>1. CASE pc[q] \in {"reaping", "exited"}
    BY <1>5, <2>1 DEF BarrierInv
  <2>2. CASE pc[q] \notin {"reaping", "exited"} /\ pc'[q] \in {"reaping", "exited"}
    <3>1. pc[q] = "finishing" /\ (p = q \/ p \in done[q])
      BY <1>1, <2>2 DEF Moves, WorkerMoves, ParentMoves, Peers
    <3>2. CASE p = q
      BY <2>2, <3>1, <3>2, <1>6, <1>1 DEF Moves, WorkerMoves
    <3>3. CASE p \in done[q]
      BY <3>3, <1>5 DEF BarrierInv, DoneTrace
    <3> QED BY <3>1, <3>2, <3>3
  <2> QED BY <2>1, <2>2
<1>9. SomeTrace(p, q)' => Born(p)'
  BY <1>2, <1>4 DEF Traces, BarrierInv
<1>10. DoneTrace(p, q)' => Finished(p)'
  BY <1>2, <1>5, <1>6 DEF Traces, BarrierInv
<1> QED BY <1>3, <1>7, <1>8, <1>9, <1>10

LEMMA AlwaysBarrier == Spec => [](MutexInv /\ BarrierInv)
<1>1. MutexInv /\ MutexInv' /\ BarrierInv /\ [Next]_vars => BarrierInv'
  BY BarrierStep
<1> QED BY <1>1, BarrierInit, InvCorrect, PTL DEF Spec

(* Both barriers of protocol.c hold, whoever dies and however the frames of   *)
(* the pipes overtake each other: nobody is past the first before all workers *)
(* have announced themselves, nobody past the second before all have done     *)
(* every iteration and withdrawn their claims.                                *)
THEOREM BarriersCorrect == Spec => []BarriersHold
<1>1. BarrierInv => BarriersHold
  BY DEF BarrierInv, BarriersHold, PastStart, Born, Finished
<1> QED BY <1>1, AlwaysBarrier, PTL

-----------------------------------------------------------------------------
(* The parent's report. *)

(* The parent's exit status tells the truth: success only when every worker   *)
(* has done its work and exited with success, and no child outlives a parent  *)
(* that ends by itself (main, fatal, stop_workers).                           *)
THEOREM ReportsCorrect == Spec => []ParentReports
<1>1. Init => ParentReports
  BY NodeFacts DEF Init, NothingForked, ParentReports
<1>2. ASSUME MutexInv, BarrierInv, BarrierInv', ParentReports, [Next]_vars
      PROVE  ParentReports'
  <2>1. Moves
    BY <1>2, StepMoves DEF MutexInv
  <2>2. ASSUME pc'[PARENT_ID] \in {"exited", "failed"}
        PROVE  /\ \A p \in Worker : pc[p] \in Over \cup {"unborn"}
               /\ pc[PARENT_ID] # "boot"
               /\ pc'[PARENT_ID] = "exited" => \A p \in Worker : pc[p] = "exited"
    BY <1>2, <2>1, <2>2 DEF Moves, ParentMoves, ParentReports, Over
  <2>3. ASSUME pc'[PARENT_ID] \in {"exited", "failed"}, NEW p \in Worker
        PROVE  pc'[p] = pc[p]
    BY <2>1, <2>2, <2>3 DEF Moves, WorkerMoves, Over
  <2>4. \A p \in Worker : pc'[p] = "exited" => iteration'[p] = Iterations[p]
    BY <1>2 DEF BarrierInv
  <2> QED BY <2>2, <2>3, <2>4 DEF ParentReports
<1> QED BY <1>1, <1>2, AlwaysBarrier, PTL DEF Spec

-----------------------------------------------------------------------------
(* Silence without --mutexl. *)

SilentInv ==
  /\ SilentWithoutMutex
  /\ ~MutexEnabled => \A p \in Worker : pc[p] \notin {"waiting", "inside"}

LEMMA SilentStep ==
  ASSUME TypeOK, TypeOK', SilentInv, [Next]_vars, ~MutexEnabled
  PROVE  SilentInv'
<1> USE NodeFacts
<1> DEFINE Quiet == /\ \A p \in Node : outbox[p].type \notin CsType /\ queued[p] = {}
                    /\ \A p, q \in Node, t \in CsType : ~InPipe(p, q, t)
<1>1. SilentWithoutMutex <=> Quiet
  BY DEF SilentWithoutMutex, InPipe
<1>2. Quiet
  BY <1>1 DEF SilentInv
<1>3. Moves
  BY StepMoves
<1>4. \A p \in Worker : pc'[p] \notin {"waiting", "inside"}
  BY <1>3 DEF Moves, WorkerMoves, SilentInv
<1>5. ASSUME UNCHANGED <<channel, outbox, queued>> PROVE Quiet'
  <2>1. \A p, q \in Node, t \in CsType : InPipe(p, q, t)' <=> InPipe(p, q, t)
    BY <1>5 DEF InPipe
  <2> QED BY <1>2, <1>5, <2>1
<1>6. ASSUME NEW n \in Node, NodeNext(n) PROVE Quiet'
  <2>1. CASE PassStarted(n) \/ PrintOnly(n) \/ EnterCs(n) \/ PassDone(n)
             \/ SendOverflow(n) \/ PeersClosed(n)
    BY <2>1, <1>5 DEF PassStarted, PrintOnly, EnterCs, PassDone, SendOverflow, PeersClosed,
                      Fatal, cs, barriers
  <2>2. CASE AnnounceStarted(n) \/ AnnounceDone(n)
    <3>1. UNCHANGED <<channel, queued>>
      BY <2>2 DEF AnnounceStarted, AnnounceDone, cs
    <3>2. PICK type \in {"STARTED", "DONE"} :
            outbox' = [outbox EXCEPT ![n] = ToWrite(type, Node \ {n})]
      BY <2>2 DEF AnnounceStarted, AnnounceDone, Multicast
    <3>3. ToWrite(type, Node \ {n}).type \notin CsType
      BY DEF ToWrite, Idle, CsType
    <3>4. \A p \in Node : outbox'[p] = IF p = n THEN ToWrite(type, Node \ {n}) ELSE outbox[p]
      BY <3>2 DEF TypeOK
    <3>5. \A p \in Node : outbox'[p].type \notin CsType
      BY <3>3, <3>4, <1>2
    <3>6. \A p, q \in Node, t \in CsType : InPipe(p, q, t)' <=> InPipe(p, q, t)
      BY <3>1 DEF InPipe
    <3> QED BY <3>1, <3>5, <3>6, <1>2
  <2>3. CASE RequestCs(n) \/ ReleaseCs(n)
    <3>1. n \in Worker
      BY <2>3 DEF RequestCs, ReleaseCs, AtWork, TypeOK
    <3> QED BY <2>3, <3>1 DEF RequestCs, ReleaseCs, SilentInv
  <2>4. ASSUME NEW m \in Node \ {n}, WriteFrame(n, m) PROVE Quiet'
    <3> DEFINE f == [type |-> outbox[n].type, time |-> clock[n]]
    <3>1. f \in Frame /\ f.type \notin CsType
      <4>1. /\ outbox[n] \in {Idle} \cup [type : MessageType, to : SUBSET Node]
            /\ clock[n] \in Timestamp /\ outbox[n].type \notin CsType
        BY <1>2 DEF TypeOK
      <4>2. outbox[n].to # {}
        BY <2>4 DEF WriteFrame, NextTarget
      <4>3. outbox[n].type \in MessageType
        BY <4>1, <4>2 DEF Idle
      <4> QED
        BY <4>1, <4>3 DEF Frame
    <3>2. channel' = [channel EXCEPT ![n][m] = Append(channel[n][m], f)]
      BY <2>4 DEF WriteFrame
    <3> HIDE DEF f
    <3>3. ASSUME NEW p \in Node, NEW q \in Node, NEW t \in CsType PROVE ~InPipe(p, q, t)'
      <4>1. CASE p = n /\ q = m
        <5>1. channel'[p][q] = Append(channel[p][q], f) /\ channel[p][q] \in Seq(Frame)
          BY <3>2, <4>1 DEF TypeOK
        <5>2. \A i \in DOMAIN channel[p][q] : channel[p][q][i].type # t
          BY <1>2 DEF InPipe
        <5> QED BY <3>1, <5>1, <5>2, AppendToPipe DEF InPipe
      <4>2. CASE ~(p = n /\ q = m)
        <5>1. channel'[p][q] = channel[p][q]
          BY <3>2, <4>2 DEF TypeOK
        <5> QED BY <5>1, <1>2 DEF InPipe
      <4> QED BY <4>1, <4>2
    <3>4. \A p \in Node : outbox'[p].type \notin CsType
      BY <2>4, <1>2 DEF WriteFrame, TypeOK, ToWrite, Idle, CsType
    <3> QED BY <2>4, <3>3, <3>4, <1>2 DEF WriteFrame, cs
  <2>5. ASSUME NEW m \in Node \ {n}, BrokenPipe(n, m) \/ RejectFrame(n, m) PROVE Quiet'
    BY <2>5, <1>5 DEF BrokenPipe, RejectFrame, Fatal, cs
  <2>6. ASSUME NEW m \in Node \ {n}, ReceiveStarted(n, m) \/ ReceiveDone(n, m) PROVE Quiet'
    <3>1. \A a, b \in Node, t \in CsType : ~InPipe(a, b, t)'
      BY <2>6, <1>2, TakesShrinks DEF ReceiveStarted, ReceiveDone
    <3>2. UNCHANGED <<outbox, queued>>
      BY <2>6 DEF ReceiveStarted, ReceiveDone, cs
    <3> QED BY <3>1, <3>2, <1>2
  <2>7. ASSUME NEW m \in Node \ {n},
               ReceiveRequest(n, m) \/ ReceiveReply(n, m) \/ ReceiveRelease(n, m)
        PROVE  FALSE
    <3>1. \E t \in CsType : InPipe(m, n, t)
      BY <2>7, TakesShrinks DEF ReceiveRequest, ReceiveReply, ReceiveRelease, CsType
    <3> QED BY <3>1, <1>2
  <2> QED BY <1>6, <2>1, <2>2, <2>3, <2>4, <2>5, <2>6, <2>7 DEF NodeNext, Dispatch
<1>7. ASSUME Supervision \/ Signals \/ UNCHANGED vars PROVE Quiet'
  <2>1. UNCHANGED <<channel, outbox, queued>>
    BY <1>7 DEF Supervision, Signals, vars, cs
  <2> QED BY <2>1, <1>5
<1> HIDE DEF Quiet
<1>8. Quiet'
  BY <1>6, <1>7 DEF Next
<1>9. SilentWithoutMutex'
  BY <1>8 DEF SilentWithoutMutex, InPipe, Quiet
<1> QED BY <1>4, <1>9 DEF SilentInv

(* Without --mutexl mutex.c is never reached: no CS message is sent, in a     *)
(* pipe or recorded, for any number of workers.                               *)
THEOREM SilenceCorrect == Spec => []SilentWithoutMutex
<1>1. Init => SilentInv
  BY NodeFacts DEF Init, SilentInv, SilentWithoutMutex, Idle, CsType, NothingForked
<1>2. ASSUME TypeOK, TypeOK', SilentInv, [Next]_vars PROVE SilentInv'
  <2>1. CASE MutexEnabled
    BY <2>1 DEF SilentInv, SilentWithoutMutex
  <2>2. CASE ~MutexEnabled
    BY <1>2, <2>2, SilentStep
  <2> QED BY <2>1, <2>2
<1>3. SilentInv => SilentWithoutMutex
  BY DEF SilentInv
<1> QED BY <1>1, <1>2, <1>3, TypeCorrect, PTL DEF Spec

-----------------------------------------------------------------------------
(* The frames on their way from one node to another, and in which order they  *)
(* may be.                                                                    *)

(* The frame p is about to write; the frames from p to q, in their order: the *)
(* ones in the pipe and the one to be written; their types.                   *)
Outgoing(p) == [type |-> outbox[p].type, time |-> clock[p]]
Way(p, q) == IF q \in outbox[p].to THEN Append(channel[p][q], Outgoing(p)) ELSE channel[p][q]
Has(w, type) == \E i \in DOMAIN w : w[i].type = type

(* A way has a place for STARTED and later for a RELEASE, one for a REQUEST   *)
(* and later for DONE, and one for a REPLY.                                   *)
Place(type) ==
  IF type \in {"STARTED", "CS_RELEASE"} THEN 1
  ELSE IF type \in {"CS_REQUEST", "DONE"} THEN 2 ELSE 3

(* After an s there may be a t. *)
After(s, t) ==
  /\ Place(s) # Place(t) /\ t # "STARTED"
  /\ s = "DONE" => t = "CS_REPLY"
  /\ s = "CS_REQUEST" => t # "CS_RELEASE"

InOrder(w) == \A i, j \in DOMAIN w : i < j => After(w[i].type, w[j].type)

LEMMA PlaceFacts == \A t : Place(t) \in {1, 2, 3}
  BY DEF Place

LEMMA NothingOnWay ==
  ASSUME NEW w \in Seq(Frame)
  PROVE  /\ w = <<>> => InOrder(w) /\ \A t : ~Has(w, t)
         /\ (\A t \in MessageType : ~Has(w, t)) => w = <<>>
  <1>1. w = <<>> => DOMAIN w = {}
    BY EmptySeq
  <1>2. w # <<>> => \E i \in DOMAIN w : w[i].type \in MessageType
    <2>1. w # <<>> => 1 \in DOMAIN w /\ Head(w) = w[1] /\ Head(w) \in Frame
      BY TailOfPipe
    <2> QED
      BY <2>1 DEF Frame
  <1> QED
    BY <1>1, <1>2 DEF Has, InOrder

LEMMA OneMoreOnWay ==
  ASSUME NEW w \in Seq(Frame), NEW f \in Frame
  PROVE  LET v == Append(w, f) IN
         /\ v \in Seq(Frame)
         /\ \A t : Has(v, t) <=> Has(w, t) \/ t = f.type
         /\ InOrder(w) /\ (\A s \in MessageType : Has(w, s) => After(s, f.type)) => InOrder(v)
  <1> DEFINE v == Append(w, f)
  <1>1. /\ Len(w) \in Nat /\ DOMAIN w = 1..Len(w) /\ DOMAIN v = 1..(Len(w) + 1)
        /\ v[Len(w) + 1] = f /\ \A i \in 1..Len(w) : v[i] = w[i] /\ w[i] \in Frame
    BY AppendProperties
  <1>2. v \in Seq(Frame)
    BY AppendProperties
  <1> HIDE DEF v
  <1>3. \A t : Has(v, t) <=> Has(w, t) \/ t = f.type
    BY <1>1 DEF Has
  <1>4. ASSUME InOrder(w), \A s \in MessageType : Has(w, s) => After(s, f.type) PROVE InOrder(v)
    <2>1. \A i \in DOMAIN w : After(w[i].type, f.type)
      <3>1. \A i \in DOMAIN w : w[i].type \in MessageType
        BY <1>1 DEF Frame
      <3> QED
        BY <1>4, <3>1 DEF Has
    <2>2. ASSUME NEW i \in DOMAIN v, NEW j \in DOMAIN v, i < j PROVE After(v[i].type, v[j].type)
      <3>1. i \in DOMAIN w /\ v[i] = w[i]
        BY <1>1, <2>2
      <3>2. CASE j = Len(w) + 1
        BY <1>1, <2>1, <3>1, <3>2
      <3>3. CASE j # Len(w) + 1
        <4>1. j \in DOMAIN w /\ v[j] = w[j]
          BY <1>1, <3>3
        <4> QED
          BY <1>4, <2>2, <3>1, <4>1 DEF InOrder
      <3> QED
        BY <3>2, <3>3
    <2> QED
      BY <2>2 DEF InOrder
  <1> QED
    BY <1>2, <1>3, <1>4 DEF v

LEMMA FirstOffWay ==
  ASSUME NEW w \in Seq(Frame), w # <<>>, InOrder(w)
  PROVE  LET h == Head(w).type IN
         /\ h \in MessageType /\ Has(w, h)
         /\ Tail(w) \in Seq(Frame) /\ InOrder(Tail(w))
         /\ \A t : Has(Tail(w), t) <=> Has(w, t) /\ t # h
         /\ \A t : Has(w, t) => t = h \/ After(h, t)
  <1> DEFINE v == Tail(w)
             h == Head(w).type
  <1>1. /\ Len(w) \in Nat /\ Len(w) >= 1 /\ DOMAIN w = 1..Len(w) /\ DOMAIN v = 1..(Len(w) - 1)
        /\ w[1].type = h /\ \A i \in 1..(Len(w) - 1) : v[i] = w[i + 1]
    BY HeadTailProperties, EmptySeq, LenProperties
  <1>2. v \in Seq(Frame) /\ h \in MessageType
    BY TailOfPipe DEF Frame
  <1> HIDE DEF v, h
  <1>3. Has(w, h)
    BY <1>1 DEF Has
  <1>4. \A i \in DOMAIN w : i # 1 => After(h, w[i].type) /\ i - 1 \in DOMAIN v /\ v[i - 1] = w[i]
    BY <1>1 DEF InOrder
  <1>5. \A i \in DOMAIN v : i + 1 \in DOMAIN w /\ v[i] = w[i + 1] /\ i + 1 # 1
    BY <1>1
  <1>6. \A t : ~After(t, t)
    BY DEF After
  <1>7. \A t : Has(v, t) <=> Has(w, t) /\ t # h
    <2>1. ASSUME NEW t, Has(v, t) PROVE Has(w, t) /\ t # h
      <3>1. PICK i \in DOMAIN v : v[i].type = t
        BY <2>1 DEF Has
      <3>2. PICK j \in DOMAIN w : j = i + 1
        BY <1>5
      <3>3. After(h, w[j].type) /\ w[j].type = t
        BY <1>4, <1>5, <3>1, <3>2
      <3> QED
        BY <1>6, <3>3 DEF Has
    <2>2. ASSUME NEW t, Has(w, t), t # h PROVE Has(v, t)
      <3>1. PICK i \in DOMAIN w : w[i].type = t
        BY <2>2 DEF Has
      <3>2. i - 1 \in DOMAIN v /\ v[i - 1].type = t
        BY <1>1, <1>4, <2>2, <3>1
      <3> QED
        BY <3>2 DEF Has
    <2> QED
      BY <2>1, <2>2
  <1>8. \A t : Has(w, t) => t = h \/ After(h, t)
    BY <1>1, <1>4 DEF Has
  <1>9. InOrder(v)
    <2> SUFFICES ASSUME NEW i \in DOMAIN v, NEW j \in DOMAIN v, i < j
                 PROVE  After(v[i].type, v[j].type)
      BY DEF InOrder
    <2>1. i + 1 \in DOMAIN w /\ j + 1 \in DOMAIN w /\ i + 1 < j + 1
      BY <1>1, <1>5
    <2> QED
      BY <1>5, <2>1 DEF InOrder
  <1> QED
    BY <1>2, <1>3, <1>7, <1>8, <1>9 DEF v, h

LEMMA WayIsShort ==
  ASSUME NEW w \in Seq(Frame), InOrder(w)
  PROVE  Len(w) <= 3
  <1> SUFFICES ASSUME Len(w) > 3 PROVE FALSE
    BY LenProperties
  <1>1. Len(w) \in Nat /\ DOMAIN w = 1..Len(w)
    BY LenProperties
  <1>2. 1 \in DOMAIN w /\ 2 \in DOMAIN w /\ 3 \in DOMAIN w /\ 4 \in DOMAIN w
    BY <1>1
  <1>3. \A i, j \in DOMAIN w : i < j => Place(w[i].type) # Place(w[j].type)
    BY DEF InOrder, After
  <1>4. /\ Place(w[1].type) # Place(w[2].type) /\ Place(w[1].type) # Place(w[3].type)
        /\ Place(w[1].type) # Place(w[4].type) /\ Place(w[2].type) # Place(w[3].type)
        /\ Place(w[2].type) # Place(w[4].type) /\ Place(w[3].type) # Place(w[4].type)
    BY <1>2, <1>3
  <1> QED
    BY <1>4, PlaceFacts

LEMMA WayType ==
  ASSUME TypeOK, NEW a \in Node, NEW b \in Node
  PROVE  /\ Way(a, b) \in Seq(Frame) /\ channel[a][b] \in Seq(Frame)
         /\ b \in outbox[a].to => Outgoing(a) \in Frame
         /\ \A t : Has(Way(a, b), t) <=> UnderWay(a, b, t)
  <1>1. channel[a][b] \in Seq(Frame)
    BY DEF TypeOK
  <1>2. b \in outbox[a].to => Outgoing(a) \in Frame
    BY DEF TypeOK, Idle, Frame, Outgoing
  <1>3. Way(a, b) \in Seq(Frame)
    BY <1>1, <1>2, AppendProperties DEF Way
  <1>4. CASE b \in outbox[a].to
    <2>1. \A t : Has(Way(a, b), t) <=> Has(channel[a][b], t) \/ t = Outgoing(a).type
      BY <1>1, <1>2, <1>4, OneMoreOnWay DEF Way
    <2> QED
      BY <1>1, <1>2, <1>3, <1>4, <2>1 DEF UnderWay, Sending, InPipe, Has, Outgoing
  <1>5. CASE b \notin outbox[a].to
    BY <1>1, <1>2, <1>3, <1>5 DEF Way, UnderWay, Sending, InPipe, Has
  <1> QED
    BY <1>4, <1>5

(* Ways in a step: n sends f to some, after taking the first frame from m or  *)
(* not.                                                                       *)

Puts(n, f, to) ==
  \A a, b \in Node :
    Way(a, b)' = IF a = n
                 THEN IF b \in to THEN Append(channel'[n][b], f) ELSE channel'[n][b]
                 ELSE IF b \in outbox[a].to THEN Append(channel'[a][b], Outgoing(a))
                      ELSE channel'[a][b]

Sent(n, f, to) ==
  \A a, b \in Node :
    Way(a, b)' = IF a = n /\ b \in to THEN Append(Way(a, b), f) ELSE Way(a, b)

Took(n, m, f, to) ==
  \A a, b \in Node :
    Way(a, b)' = IF a = n /\ b \in to THEN Append(Way(a, b), f)
                 ELSE IF a = m /\ b = n THEN Tail(Way(a, b)) ELSE Way(a, b)

SameWays == \A a, b \in Node : Way(a, b)' = Way(a, b)

LEMMA WaySends ==
  ASSUME TypeOK, NEW n \in Node, NEW t, NEW type, NEW to,
         clock' = [clock EXCEPT ![n] = t],
         outbox' = [outbox EXCEPT ![n] = ToWrite(type, to)]
  PROVE  Puts(n, [type |-> type, time |-> t], to)
  <1> DEFINE f == [type |-> type, time |-> t]
  <1> SUFFICES ASSUME NEW a \in Node, NEW b \in Node
      PROVE  Way(a, b)' =
               IF a = n
               THEN IF b \in to THEN Append(channel'[n][b], f) ELSE channel'[n][b]
               ELSE IF b \in outbox[a].to THEN Append(channel'[a][b], Outgoing(a))
                    ELSE channel'[a][b]
    BY DEF Puts
  <1>1. CASE a # n
    BY <1>1 DEF TypeOK, Way, Outgoing
  <1>2. CASE a = n
    <2>1. outbox'[n] = ToWrite(type, to) /\ clock'[n] = t
      BY DEF TypeOK
    <2> QED
      BY <1>2, <2>1 DEF Way, Outgoing, ToWrite, Idle
  <1> QED
    BY <1>1, <1>2

LEMMA WayTicks ==
  ASSUME TypeOK, NEW n \in Node, ~Writing(n), NEW t, NEW f,
         clock' = [clock EXCEPT ![n] = t], UNCHANGED outbox
  PROVE  Puts(n, f, {})
  <1> SUFFICES ASSUME NEW a \in Node, NEW b \in Node
      PROVE  Way(a, b)' =
               IF a = n THEN channel'[n][b]
               ELSE IF b \in outbox[a].to THEN Append(channel'[a][b], Outgoing(a))
                    ELSE channel'[a][b]
    BY DEF Puts
  <1>1. CASE a # n
    BY <1>1 DEF TypeOK, Way, Outgoing
  <1>2. CASE a = n
    BY <1>2 DEF Writing, Way
  <1> QED
    BY <1>1, <1>2

LEMMA PutsSent ==
  ASSUME NEW n \in Node, NEW f, NEW to, Puts(n, f, to), ~Writing(n), UNCHANGED channel
  PROVE  Sent(n, f, to)
  <1>1. \A b \in Node : Way(n, b) = channel[n][b]
    BY DEF Way, Writing
  <1> QED
    BY <1>1 DEF Puts, Sent, Way

LEMMA PutsTook ==
  ASSUME TypeOK, NEW n \in Node, NEW m \in Node \ {n}, NEW type, Takes(n, m, type),
         NEW f, NEW to, Puts(n, f, to)
  PROVE  /\ Took(n, m, f, to)
         /\ Way(m, n) # <<>> /\ Head(Way(m, n)) = Head(channel[m][n])
  <1> DEFINE s == channel[m][n]
  <1>1. ~Writing(n) /\ s # <<>> /\ channel' = [channel EXCEPT ![m][n] = Tail(s)]
    BY DEF Takes, Dispatching
  <1>2. s \in Seq(Frame)
    BY DEF TypeOK
  <1>3. \A b \in Node : Way(n, b) = channel[n][b]
    BY <1>1 DEF Way, Writing
  <1>4. /\ Way(m, n) # <<>> /\ Head(Way(m, n)) = Head(s)
        /\ Tail(Way(m, n)) = IF n \in outbox[m].to THEN Append(Tail(s), Outgoing(m)) ELSE Tail(s)
    <2>1. Way(m, n) = IF n \in outbox[m].to THEN Append(s, Outgoing(m)) ELSE s
      BY DEF Way
    <2> HIDE DEF s
    <2>2. \A x : /\ Append(s, x) # <<>> /\ Head(Append(s, x)) = Head(s)
                 /\ Tail(Append(s, x)) = Append(Tail(s), x)
      BY <1>1, <1>2
    <2> QED
      BY <1>1, <2>1, <2>2
  <1>5. \A a, b \in Node : channel'[a][b] = IF a = m /\ b = n THEN Tail(s) ELSE channel[a][b]
    BY <1>1 DEF TypeOK
  <1>6. ASSUME NEW a \in Node, NEW b \in Node
        PROVE  Way(a, b)' = IF a = n /\ b \in to THEN Append(Way(a, b), f)
                            ELSE IF a = m /\ b = n THEN Tail(Way(a, b)) ELSE Way(a, b)
    <2>1. Way(a, b)' =
           IF a = n THEN IF b \in to THEN Append(channel'[n][b], f) ELSE channel'[n][b]
           ELSE IF b \in outbox[a].to THEN Append(channel'[a][b], Outgoing(a)) ELSE channel'[a][b]
      BY DEF Puts
    <2>2. CASE a = n
      BY <1>3, <1>5, <2>1, <2>2
    <2>3. CASE a = m /\ b = n
      BY <1>4, <1>5, <2>1, <2>3
    <2>4. CASE a # n /\ ~(a = m /\ b = n)
      <3>1. channel'[a][b] = channel[a][b]
        BY <1>5, <2>4
      <3> QED
        BY <2>1, <2>4, <3>1 DEF Way
    <2> QED
      BY <2>2, <2>3, <2>4
  <1> QED
    BY <1>4, <1>6 DEF Took

LEMMA WritesStay ==
  ASSUME TypeOK, NEW n \in Node, NEW m \in Node, WriteFrame(n, m)
  PROVE  SameWays
  <1>1. /\ m \in outbox[n].to
        /\ channel' = [channel EXCEPT ![n][m] = Append(@, Outgoing(n))]
        /\ outbox' = [outbox EXCEPT ![n] = ToWrite(@.type, @.to \ {m})]
        /\ clock' = clock
    BY DEF WriteFrame, NextTarget, Outgoing
  <1> SUFFICES ASSUME NEW a \in Node, NEW b \in Node PROVE Way(a, b)' = Way(a, b)
    BY DEF SameWays
  <1>2. CASE a # n
    BY <1>1, <1>2 DEF TypeOK, Way, Outgoing
  <1>3. CASE a = n
    <2>1. outbox'[n] = ToWrite(outbox[n].type, outbox[n].to \ {m})
      BY <1>1 DEF TypeOK
    <2>2. channel'[n][b] = IF b = m THEN Append(channel[n][b], Outgoing(n)) ELSE channel[n][b]
      BY <1>1 DEF TypeOK
    <2>3. \/ outbox'[n].to = {} /\ outbox[n].to = {m}
          \/ outbox'[n] = [type |-> outbox[n].type, to |-> outbox[n].to \ {m}]
      BY <1>1, <2>1 DEF ToWrite, Idle
    <2>4. b \in outbox'[n].to =>
            b # m /\ b \in outbox[n].to /\ outbox'[n].type = outbox[n].type
      BY <2>3
    <2>5. outbox'[n].type = outbox[n].type => Outgoing(n)' = Outgoing(n)
      BY <1>1 DEF Outgoing
    <2>6. b \in outbox[n].to /\ b # m => b \in outbox'[n].to
      BY <2>3
    <2> QED
      BY <1>1, <1>3, <2>2, <2>4, <2>5, <2>6 DEF Way
  <1> QED
    BY <1>2, <1>3

-----------------------------------------------------------------------------
(* What q has heard of p says what is still on the way w from p to q, where p *)
(* is at "at" and own is its table, and q has table, begun and ended.         *)

Running == {"starting", "work", "waiting", "inside", "finishing", "exited"}
AtEnd == {"finishing", "exited"}

OnWay(w, p, q, at, own, table, begun, ended) ==
  /\ InOrder(w)
  /\ p \in ended => \A t \in MessageType : Has(w, t) => t = "CS_REPLY"
  /\ p \in table => ~Has(w, "STARTED")
  /\ Has(w, "CS_RELEASE") => p \in table
  /\ p \in table /\ (Has(w, "CS_REQUEST") \/ p \notin own) => Has(w, "CS_RELEASE")
  /\ at \in Running => p \in begun \/ Has(w, "STARTED")
  /\ at \in AtEnd => p \in ended \/ Has(w, "DONE")
  /\ q = PARENT_ID => p \notin table /\ \A t \in CsType : ~Has(w, t)

LEMMA KeptOnWay ==
  ASSUME NEW w, NEW p, NEW q, NEW at, NEW own, NEW table, NEW begun, NEW ended,
         NEW to, NEW owned, NEW tabled, NEW began, NEW finished,
         OnWay(w, p, q, at, own, table, begun, ended),
         to \in Running => at \in Running, to \in AtEnd => at \in AtEnd,
         p \in own => p \in owned \/ q = PARENT_ID,
         p \in tabled <=> p \in table, p \in began <=> p \in begun,
         p \in finished <=> p \in ended
  PROVE  OnWay(w, p, q, to, owned, tabled, began, finished)
  BY DEF OnWay

LEMMA StartedOnWay ==
  ASSUME NEW w \in Seq(Frame), NEW f \in Frame, f.type = "STARTED", w = <<>>,
         NEW p, NEW q, NEW at, NEW own, NEW table, NEW begun, NEW ended,
         OnWay(w, p, q, at, own, table, begun, ended), p \notin own, p \notin ended
  PROVE  OnWay(Append(w, f), p, q, "starting", own, table, begun, ended)
  <1> PICK v : v = Append(w, f)
    OBVIOUS
  <1>1. \A t : ~Has(w, t)
    BY NothingOnWay
  <1>2. \A t : Has(v, t) <=> t = "STARTED"
    BY <1>1, OneMoreOnWay
  <1>3. InOrder(v)
    BY <1>1, OneMoreOnWay DEF OnWay
  <1>4. p \notin table
    BY <1>1 DEF OnWay
  <1> QED
    BY <1>2, <1>3, <1>4 DEF OnWay, Running, AtEnd, CsType

LEMMA RequestOnWay ==
  ASSUME NEW w \in Seq(Frame), NEW f \in Frame, f.type = "CS_REQUEST",
         NEW p, NEW q, NEW at, NEW own, NEW table, NEW begun, NEW ended, NEW owned,
         OnWay(w, p, q, at, own, table, begun, ended),
         at = "work", q # PARENT_ID, p \notin own, p \in owned, p \notin ended,
         ~Has(w, "CS_REQUEST"), ~Has(w, "DONE")
  PROVE  OnWay(Append(w, f), p, q, "waiting", owned, table, begun, ended)
  <1> PICK v : v = Append(w, f)
    OBVIOUS
  <1>1. \A t : Has(v, t) <=> Has(w, t) \/ t = "CS_REQUEST"
    BY OneMoreOnWay
  <1>2. \A s \in MessageType : Has(w, s) => After(s, f.type)
    BY DEF MessageType, CsType, After, Place
  <1>3. InOrder(v)
    BY <1>2, OneMoreOnWay DEF OnWay
  <1> QED
    BY <1>1, <1>3 DEF OnWay, Running, AtEnd

LEMMA ReleaseOnWay ==
  ASSUME NEW w \in Seq(Frame), NEW f \in Frame, f.type = "CS_RELEASE",
         NEW p, NEW q, NEW at, NEW own, NEW table, NEW begun, NEW ended, NEW owned,
         OnWay(w, p, q, at, own, table, begun, ended),
         at = "inside", q # PARENT_ID, p \in table, p \notin ended,
         ~Has(w, "CS_REQUEST"), ~Has(w, "CS_RELEASE"), ~Has(w, "DONE")
  PROVE  OnWay(Append(w, f), p, q, "work", owned, table, begun, ended)
  <1> PICK v : v = Append(w, f)
    OBVIOUS
  <1>1. \A t : Has(v, t) <=> Has(w, t) \/ t = "CS_RELEASE"
    BY OneMoreOnWay
  <1>2. \A s \in MessageType : Has(w, s) => After(s, f.type)
    BY DEF OnWay, MessageType, CsType, After, Place
  <1>3. InOrder(v)
    BY <1>2, OneMoreOnWay DEF OnWay
  <1> QED
    BY <1>1, <1>3 DEF OnWay, Running, AtEnd

LEMMA DoneOnWay ==
  ASSUME NEW w \in Seq(Frame), NEW f \in Frame, f.type = "DONE",
         NEW p, NEW q, NEW at, NEW own, NEW table, NEW begun, NEW ended,
         OnWay(w, p, q, at, own, table, begun, ended),
         at = "work", p \notin ended, ~Has(w, "CS_REQUEST"), ~Has(w, "DONE")
  PROVE  OnWay(Append(w, f), p, q, "finishing", own, table, begun, ended)
  <1> PICK v : v = Append(w, f)
    OBVIOUS
  <1>1. \A t : Has(v, t) <=> Has(w, t) \/ t = "DONE"
    BY OneMoreOnWay
  <1>2. \A s \in MessageType : Has(w, s) => After(s, f.type)
    BY DEF MessageType, CsType, After, Place
  <1>3. InOrder(v)
    BY <1>2, OneMoreOnWay DEF OnWay
  <1> QED
    BY <1>1, <1>3 DEF OnWay, Running, AtEnd, CsType

LEMMA ReplyOnWay ==
  ASSUME NEW w \in Seq(Frame), NEW f \in Frame, f.type = "CS_REPLY",
         NEW p, NEW q, NEW at, NEW own, NEW table, NEW begun, NEW ended, NEW owned,
         OnWay(w, p, q, at, own, table, begun, ended),
         q # PARENT_ID, p \in own => p \in owned, ~Has(w, "CS_REPLY")
  PROVE  OnWay(Append(w, f), p, q, at, owned, table, begun, ended)
  <1> PICK v : v = Append(w, f)
    OBVIOUS
  <1>1. \A t : Has(v, t) <=> Has(w, t) \/ t = "CS_REPLY"
    BY OneMoreOnWay
  <1>2. \A s \in MessageType : Has(w, s) => After(s, f.type)
    BY DEF MessageType, CsType, After, Place
  <1>3. InOrder(v)
    BY <1>2, OneMoreOnWay DEF OnWay
  <1> QED
    BY <1>1, <1>3 DEF OnWay

(* The first frame of a way is taken. *)
LEMMA BarrierOffWay ==
  ASSUME NEW w \in Seq(Frame), w # <<>>, Head(w).type \in {"STARTED", "DONE"},
         NEW p, NEW q, NEW at, NEW own, NEW table, NEW begun, NEW ended, NEW began, NEW finished,
         OnWay(w, p, q, at, own, table, begun, ended),
         p \in began <=> p \in begun \/ Head(w).type = "STARTED",
         p \in finished <=> p \in ended \/ Head(w).type = "DONE"
  PROVE  OnWay(Tail(w), p, q, at, own, table, began, finished)
  <1> PICK v : v = Tail(w)
    OBVIOUS
  <1> PICK h : h = Head(w).type
    OBVIOUS
  <1>1. /\ InOrder(v) /\ Has(w, h)
        /\ \A t : Has(v, t) <=> Has(w, t) /\ t # h
        /\ \A t : Has(w, t) => t = h \/ After(h, t)
    BY FirstOffWay DEF OnWay
  <1>2. h = "DONE" => \A t \in MessageType : Has(v, t) => t = "CS_REPLY"
    BY <1>1 DEF After
  <1>3. h \in {"STARTED", "DONE"}
    OBVIOUS
  <1>4. p \in finished => \A t \in MessageType : Has(v, t) => t = "CS_REPLY"
    BY <1>1, <1>2 DEF OnWay
  <1>5. p \in table /\ (Has(v, "CS_REQUEST") \/ p \notin own) => Has(v, "CS_RELEASE")
    BY <1>1, <1>3 DEF OnWay
  <1> QED
    BY <1>1, <1>3, <1>4, <1>5 DEF OnWay

LEMMA RequestOffWay ==
  ASSUME NEW w \in Seq(Frame), w # <<>>, Head(w).type = "CS_REQUEST",
         NEW p, NEW q, NEW at, NEW own, NEW table, NEW begun, NEW ended, NEW tabled,
         OnWay(w, p, q, at, own, table, begun, ended), p \in own, p \in tabled
  PROVE  OnWay(Tail(w), p, q, at, own, tabled, begun, ended)
  <1> PICK v : v = Tail(w)
    OBVIOUS
  <1>1. /\ InOrder(v) /\ Has(w, "CS_REQUEST")
        /\ \A t : Has(v, t) <=> Has(w, t) /\ t # "CS_REQUEST"
        /\ \A t : Has(w, t) => t = "CS_REQUEST" \/ After("CS_REQUEST", t)
    BY FirstOffWay DEF OnWay
  <1>2. ~Has(v, "STARTED") /\ ~Has(v, "CS_RELEASE") /\ ~Has(v, "CS_REQUEST") /\ ~Has(v, "DONE")
    BY <1>1 DEF After, Place
  <1>3. q # PARENT_ID
    BY <1>1 DEF OnWay, CsType
  <1> QED
    BY <1>1, <1>2, <1>3 DEF OnWay

LEMMA ReplyOffWay ==
  ASSUME NEW w \in Seq(Frame), w # <<>>, Head(w).type = "CS_REPLY",
         NEW p, NEW q, NEW at, NEW own, NEW table, NEW begun, NEW ended,
         OnWay(w, p, q, at, own, table, begun, ended)
  PROVE  OnWay(Tail(w), p, q, at, own, table, begun, ended)
  <1> PICK v : v = Tail(w)
    OBVIOUS
  <1>1. InOrder(v) /\ \A t : Has(v, t) <=> Has(w, t) /\ t # "CS_REPLY"
    BY FirstOffWay DEF OnWay
  <1> QED
    BY <1>1 DEF OnWay

LEMMA ReleaseOffWay ==
  ASSUME NEW w \in Seq(Frame), w # <<>>, Head(w).type = "CS_RELEASE",
         NEW p, NEW q, NEW at, NEW own, NEW table, NEW begun, NEW ended, NEW tabled,
         OnWay(w, p, q, at, own, table, begun, ended), p \notin tabled
  PROVE  OnWay(Tail(w), p, q, at, own, tabled, begun, ended)
  <1> PICK v : v = Tail(w)
    OBVIOUS
  <1>1. InOrder(v) /\ \A t : Has(v, t) <=> Has(w, t) /\ t # "CS_RELEASE"
    BY FirstOffWay DEF OnWay
  <1> QED
    BY <1>1 DEF OnWay

-----------------------------------------------------------------------------
(* The invariant: the parent sends nothing and nobody writes to itself, every *)
(* stamp is in its sender's past, and every way agrees with what was heard.   *)

WayOk(p, q) == OnWay(Way(p, q), p, q, pc[p], queued[p], queued[q], started[q], done[q])
Routes == \A q \in Node : Way(PARENT_ID, q) = <<>> /\ Way(q, q) = <<>>
Past(w, t) == \A i \in DOMAIN w : w[i].time <= t
Stamped == \A p, q \in Node : Past(Way(p, q), clock[p])

WaysInv ==
  /\ \A p \in Worker, q \in Node : p # q => WayOk(p, q)
  /\ Routes /\ Stamped

(* What the other invariants say of a way. *)
LEMMA WayFacts ==
  ASSUME MutexInv, BarrierInv, NEW p \in Worker, NEW q \in Node
  PROVE  /\ ~Born(p) => Way(p, q) = <<>>
         /\ Has(Way(p, q), "DONE") \/ p \in done[q] => Finished(p)
         /\ ~Born(p) \/ pc[p] \in {"work", "inside"} =>
              p \notin done[q] /\ ~Has(Way(p, q), "DONE")
         /\ ~Born(p) \/ pc[p] = "work" => p \notin queued[p]
  <1>1. TypeOK /\ ClaimOk(p) /\ p \in Node
    BY NodeFacts DEF MutexInv
  <1>2. ~Born(p) => Way(p, q) = <<>>
    BY DEF BarrierInv, SomeTrace, Way, Writing
  <1>3. Has(Way(p, q), "DONE") \/ p \in done[q] => Finished(p)
    <2>1. Has(Way(p, q), "DONE") => UnderWay(p, q, "DONE")
      BY <1>1, WayType
    <2>2. UnderWay(p, q, "DONE") => DoneTrace(p, q)
      BY DEF UnderWay, Sending, DoneTrace, Writing
    <2> QED
      BY <2>1, <2>2 DEF BarrierInv, DoneTrace
  <1>4. ~Born(p) \/ pc[p] \in {"work", "inside"} => ~Finished(p)
    BY DEF Born, Finished
  <1>5. ~Born(p) \/ pc[p] = "work" => p \notin queued[p]
    BY <1>1 DEF ClaimOk, Claims, Born
  <1> QED
    BY <1>2, <1>3, <1>4, <1>5

LEMMA ClaimFacts ==
  ASSUME MutexInv, NEW p \in Worker, NEW q \in Worker, p # q
  PROVE  /\ Has(Way(p, q), "CS_REQUEST") => Claims(p) /\ ~Has(Way(q, p), "CS_REPLY")
         /\ Has(Way(q, p), "CS_REPLY") => Claims(p)
         /\ Claims(p) => pc[p] \in {"waiting", "inside", "failed", "killed"}
         /\ pc[p] = "inside" => /\ p \in queued[q]
                                /\ ~Has(Way(p, q), "CS_RELEASE")
                                /\ ~Has(Way(p, q), "CS_REQUEST")
  <1>1. TypeOK /\ ClaimOk(p) /\ RequestOk(p, q) /\ ReplyOk(p, q) /\ p \in Node /\ q \in Node
    BY NodeFacts DEF MutexInv, PairOk
  <1>2. \A t : /\ Has(Way(p, q), t) <=> UnderWay(p, q, t)
               /\ Has(Way(q, p), t) <=> UnderWay(q, p, t)
    BY <1>1, WayType
  <1>3. /\ UnderWay(p, q, "CS_REQUEST") =>
             Claims(p) /\ ~UnderWay(q, p, "CS_REPLY") /\ q \notin replied[p]
        /\ UnderWay(q, p, "CS_REPLY") => Claims(p)
        /\ Claims(p) => pc[p] \in {"waiting", "inside", "failed", "killed"}
    BY <1>1 DEF RequestOk, ReplyOk, ClaimOk
  <1>4. ASSUME pc[p] = "inside"
        PROVE  p \in queued[q] /\ ~UnderWay(p, q, "CS_RELEASE") /\ ~UnderWay(p, q, "CS_REQUEST")
    <2>1. Claims(p) /\ ~Writing(p) /\ FirstAndConfirmed(p)
      BY <1>1, <1>4 DEF ClaimOk, Requesting
    <2>2. q \in replied[p]
      BY <2>1 DEF FirstAndConfirmed, Peers
    <2>3. Held(p, q)
      BY <1>1, <2>1, <2>2 DEF ReplyOk
    <2> QED
      BY <1>3, <2>1, <2>2, <2>3 DEF Held, UnderWay, Sending, Writing
  <1> QED
    BY <1>2, <1>3, <1>4

(* A pair whose way and tables a step leaves alone. *)
Untouched(p, q) ==
  /\ Way(p, q)' = Way(p, q)
  /\ pc'[p] \in Running => pc[p] \in Running
  /\ pc'[p] \in AtEnd => pc[p] \in AtEnd
  /\ p \in queued[p] => p \in queued'[p] \/ q = PARENT_ID
  /\ p \in queued'[q] <=> p \in queued[q]
  /\ p \in started'[q] <=> p \in started[q]
  /\ p \in done'[q] <=> p \in done[q]

LEMMA WayKept ==
  ASSUME NEW p \in Worker, NEW q \in Node, WayOk(p, q), Untouched(p, q)
  PROVE  WayOk(p, q)'
  <1> PICK w, at, own, table, begun, ended :
        /\ w = Way(p, q) /\ at = pc[p] /\ own = queued[p]
        /\ table = queued[q] /\ begun = started[q] /\ ended = done[q]
    OBVIOUS
  <1> PICK to, owned, tabled, began, finished :
        /\ to = pc'[p] /\ owned = queued'[p]
        /\ tabled = queued'[q] /\ began = started'[q] /\ finished = done'[q]
    OBVIOUS
  <1>1. OnWay(w, p, q, at, own, table, begun, ended)
    BY DEF WayOk
  <1>2. OnWay(w, p, q, to, owned, tabled, began, finished)
    BY <1>1, KeptOnWay DEF Untouched
  <1>3. Way(p, q)' = w
    BY DEF Untouched
  <1> QED
    BY <1>2, <1>3 DEF WayOk

(* What sending and taking do to the routes and the stamps. *)
LEMMA PastGrows ==
  ASSUME NEW w \in Seq(Frame), NEW s \in Nat, NEW t \in Nat, s <= t, Past(w, s)
  PROVE  /\ Past(w, t)
         /\ \A f \in Frame : f.time = t => Past(Append(w, f), t)
         /\ w # <<>> => Past(Tail(w), t)
  <1>1. \A i \in DOMAIN w : w[i].time \in Nat
    <2>1. \A i \in DOMAIN w : w[i] \in Frame
      OBVIOUS
    <2>2. \A f \in Frame : f.time \in Nat
      BY ClockFacts DEF Frame
    <2> QED
      BY <2>1, <2>2
  <1>2. \A i \in DOMAIN w : w[i].time <= t
    BY <1>1 DEF Past
  <1>3. ASSUME NEW f \in Frame, f.time = t PROVE Past(Append(w, f), t)
    <2>1. \A i \in DOMAIN Append(w, f) :
            (i \in DOMAIN w /\ Append(w, f)[i] = w[i]) \/ Append(w, f)[i] = f
      BY AppendToPipe
    <2> QED
      BY <1>2, <1>3, <2>1 DEF Past
  <1>4. w # <<>> => Past(Tail(w), t)
    <2>1. w # <<>> => \A i \in DOMAIN Tail(w) : i + 1 \in DOMAIN w /\ Tail(w)[i] = w[i + 1]
      BY TailOfPipe
    <2> QED
      BY <1>2, <2>1 DEF Past
  <1> QED
    BY <1>2, <1>3, <1>4 DEF Past

LEMMA MulticastWays ==
  ASSUME TypeOK, Routes, Stamped, NEW n \in Worker, ~Writing(n), NEW type \in MessageType,
         NEW to, n \notin to, Multicast(n, type, to), UNCHANGED channel
  PROVE  /\ \E f \in Frame : f.type = type /\ Sent(n, f, to)
         /\ Routes' /\ Stamped'
  <1> DEFINE t == ClockSend(clock[n])
             f == [type |-> type, time |-> t]
  <1>1. n \in Node /\ n # PARENT_ID
    BY NodeFacts
  <1>2. CanSend(clock[n]) /\ clock' = [clock EXCEPT ![n] = t]
        /\ outbox' = [outbox EXCEPT ![n] = ToWrite(type, to)]
    BY DEF Multicast
  <1>3. /\ t \in Timestamp /\ t \in Nat /\ clock[n] < t
        /\ \A a \in Node : clock[a] \in Nat
    BY <1>1, <1>2, ClockFacts DEF TypeOK
  <1> HIDE DEF t
  <1>4. Sent(n, f, to)
    BY <1>1, <1>2, WaySends, PutsSent
  <1>5. f \in Frame /\ f.type = type /\ f.time = t
    BY <1>3 DEF Frame
  <1> HIDE DEF f
  <1>6. Routes'
    <2>1. ASSUME NEW a \in Node, NEW b \in Node, a = PARENT_ID \/ a = b
          PROVE  Way(a, b)' = Way(a, b)
      BY <1>1, <1>4, <2>1 DEF Sent
    <2> QED
      BY <2>1, NodeFacts DEF Routes
  <1>7. Stamped'
    <2> SUFFICES ASSUME NEW a \in Node, NEW b \in Node PROVE Past(Way(a, b)', clock'[a])
      BY DEF Stamped
    <2>1. Way(a, b)' = IF a = n /\ b \in to THEN Append(Way(a, b), f) ELSE Way(a, b)
      BY <1>4 DEF Sent
    <2>2. clock'[a] = IF a = n THEN t ELSE clock[a]
      BY <1>2 DEF TypeOK
    <2>3. clock[a] \in Nat /\ clock'[a] \in Nat /\ clock[a] <= clock'[a]
      BY <1>3, <2>2
    <2>4. Past(Way(a, b), clock[a]) /\ Way(a, b) \in Seq(Frame)
      BY WayType DEF Stamped
    <2> QED
      BY <1>5, <2>1, <2>2, <2>3, <2>4, PastGrows
  <1> QED
    BY <1>4, <1>5, <1>6, <1>7

(* A frame taken, and f sent to some or nothing. *)
LEMMA TakenWays ==
  ASSUME TypeOK, Routes, Stamped, NEW n \in Node, NEW m \in Node \ {n}, NEW type,
         Takes(n, m, type), NEW f, NEW to, Puts(n, f, to), NEW t \in Nat,
         clock' = [clock EXCEPT ![n] = t], clock[n] <= t,
         to = {} \/ (n # PARENT_ID /\ n \notin to /\ f \in Frame /\ f.time = t)
  PROVE  /\ Took(n, m, f, to) /\ m \in Worker
         /\ Way(m, n) # <<>> /\ Head(Way(m, n)).type = type
         /\ Routes' /\ Stamped'
  <1>1. /\ Took(n, m, f, to) /\ Way(m, n) # <<>>
        /\ Head(Way(m, n)) = Head(channel[m][n])
    BY PutsTook
  <1>2. Head(Way(m, n)).type = type
    BY <1>1 DEF Takes
  <1>3. m \in Worker
    BY <1>1, NodeFacts DEF Routes
  <1>4. Routes'
    BY <1>1, NodeFacts DEF Routes, Took
  <1>5. Stamped'
    <2> SUFFICES ASSUME NEW a \in Node, NEW b \in Node PROVE Past(Way(a, b)', clock'[a])
      BY DEF Stamped
    <2>1. Way(a, b)' = IF a = n /\ b \in to THEN Append(Way(a, b), f)
                       ELSE IF a = m /\ b = n THEN Tail(Way(a, b)) ELSE Way(a, b)
      BY <1>1 DEF Took
    <2>2. clock'[a] = IF a = n THEN t ELSE clock[a]
      BY DEF TypeOK
    <2>3. clock[a] \in Nat
      BY ClockFacts DEF TypeOK
    <2>4. clock'[a] \in Nat /\ clock[a] <= clock'[a]
      BY <2>2, <2>3
    <2>5. Past(Way(a, b), clock[a]) /\ Way(a, b) \in Seq(Frame)
      BY WayType DEF Stamped
    <2> QED
      BY <1>1, <2>1, <2>2, <2>3, <2>4, <2>5, PastGrows
  <1> QED
    BY <1>1, <1>2, <1>3, <1>4, <1>5

-----------------------------------------------------------------------------
(* Every action keeps every way. *)

LEMMA SameWaysStep ==
  ASSUME TypeOK, WaysInv, SameWays, UNCHANGED <<clock, barriers, cs>>,
         \A p \in Worker : /\ pc'[p] \in Running => pc[p] \in Running
                           /\ pc'[p] \in AtEnd => pc[p] \in AtEnd
  PROVE  WaysInv'
  <1>1. ASSUME NEW p \in Worker, NEW q \in Node, p # q PROVE WayOk(p, q)'
    <2>1. Untouched(p, q)
      BY NodeFacts DEF SameWays, Untouched, barriers, cs
    <2> QED
      BY <1>1, <2>1, WayKept DEF WaysInv
  <1>2. Routes' /\ Stamped'
    <2>1. \A a, b \in Node : Way(a, b)' = Way(a, b) /\ clock'[a] = clock[a]
      BY DEF SameWays
    <2>2. Routes'
      BY <2>1, NodeFacts DEF WaysInv, Routes
    <2>3. Stamped'
      BY <2>1 DEF WaysInv, Stamped
    <2> QED
      BY <2>2, <2>3
  <1> QED
    BY <1>1, <1>2 DEF WaysInv

LEMMA QuietWays ==
  ASSUME TypeOK, WaysInv, UNCHANGED <<clock, channel, outbox, barriers, cs>>,
         \A p \in Worker : /\ pc'[p] \in Running => pc[p] \in Running
                           /\ pc'[p] \in AtEnd => pc[p] \in AtEnd
  PROVE  WaysInv'
  <1>1. SameWays
    BY DEF SameWays, Way, Outgoing
  <1> QED
    BY <1>1, SameWaysStep

(* A worker that announces itself has sent nothing before. *)
LEMMA AnnounceStartedWays ==
  ASSUME MutexInv, BarrierInv, WaysInv, NEW n \in Node, AnnounceStarted(n)
  PROVE  WaysInv'
  <1>1. /\ TypeOK /\ n \in Worker /\ pc[n] = "boot" /\ ~Writing(n) /\ Routes /\ Stamped
        /\ \A p \in Worker, q \in Node : p # q => WayOk(p, q)
    BY DEF AnnounceStarted, MutexInv, ClaimOk, WaysInv
  <1>2. /\ Multicast(n, "STARTED", Node \ {n}) /\ pc' = [pc EXCEPT ![n] = "starting"]
        /\ UNCHANGED <<channel, started, done, queued>>
    BY DEF AnnounceStarted, Goto, barriers, cs
  <1>3. "STARTED" \in MessageType /\ n \notin Node \ {n}
    BY DEF MessageType
  <1>4. /\ \E f \in Frame : f.type = "STARTED" /\ Sent(n, f, Node \ {n})
        /\ Routes' /\ Stamped'
    BY <1>1, <1>2, <1>3, MulticastWays
  <1>5. PICK f \in Frame : f.type = "STARTED" /\ Sent(n, f, Node \ {n})
    BY <1>4
  <1>6. ASSUME NEW p \in Worker, NEW q \in Node, p # q PROVE WayOk(p, q)'
    <2>1. CASE p = n
      <3> PICK w, own, table, begun, ended :
            /\ w = Way(p, q) /\ own = queued[p]
            /\ table = queued[q] /\ begun = started[q] /\ ended = done[q]
        OBVIOUS
      <3>1. /\ w \in Seq(Frame) /\ w = <<>> /\ p \notin own /\ p \notin ended
            /\ OnWay(w, p, q, "boot", own, table, begun, ended)
        BY <1>1, <1>6, <2>1, NodeFacts, WayType, WayFacts DEF Born, WayOk
      <3>2. OnWay(Append(w, f), p, q, "starting", own, table, begun, ended)
        BY <1>5, <3>1, StartedOnWay
      <3>3. Way(p, q)' = Append(w, f)
        BY <1>5, <1>6, <2>1, NodeFacts DEF Sent
      <3>4. pc'[p] = "starting"
        BY <1>2, <2>1, NodeFacts DEF TypeOK, MutexInv
      <3> QED
        BY <1>2, <3>2, <3>3, <3>4 DEF WayOk
    <2>2. CASE p # n
      <3>1. Way(p, q)' = Way(p, q) /\ pc'[p] = pc[p]
        BY <1>1, <1>2, <1>5, <2>2, NodeFacts DEF Sent, TypeOK
      <3>2. Untouched(p, q)
        BY <1>2, <3>1 DEF Untouched
      <3> QED
        BY <1>1, <1>6, <3>2, WayKept
    <2> QED
      BY <2>1, <2>2
  <1> QED
    BY <1>4, <1>6 DEF WaysInv

LEMMA AnnounceDoneWays ==
  ASSUME MutexInv, BarrierInv, WaysInv, NEW n \in Node, AnnounceDone(n)
  PROVE  WaysInv'
  <1>1. /\ TypeOK /\ n \in Worker /\ pc[n] = "work" /\ ~Writing(n) /\ Routes /\ Stamped
        /\ \A p \in Worker, q \in Node : p # q => WayOk(p, q)
    BY NodeFacts DEF AnnounceDone, AtWork, MutexInv, TypeOK, WaysInv
  <1>2. /\ Multicast(n, "DONE", Node \ {n}) /\ pc' = [pc EXCEPT ![n] = "finishing"]
        /\ UNCHANGED <<channel, started, done, queued>>
    BY DEF AnnounceDone, Goto, barriers, cs
  <1>3. "DONE" \in MessageType /\ n \notin Node \ {n}
    BY DEF MessageType
  <1>4. /\ \E f \in Frame : f.type = "DONE" /\ Sent(n, f, Node \ {n})
        /\ Routes' /\ Stamped'
    BY <1>1, <1>2, <1>3, MulticastWays
  <1>5. PICK f \in Frame : f.type = "DONE" /\ Sent(n, f, Node \ {n})
    BY <1>4
  <1>6. ASSUME NEW p \in Worker, NEW q \in Node, p # q PROVE WayOk(p, q)'
    <2>1. CASE p = n
      <3> PICK w, own, table, begun, ended :
            /\ w = Way(p, q) /\ own = queued[p]
            /\ table = queued[q] /\ begun = started[q] /\ ended = done[q]
        OBVIOUS
      <3>1. /\ w \in Seq(Frame) /\ p \notin own /\ p \notin ended /\ ~Has(w, "DONE")
            /\ OnWay(w, p, q, "work", own, table, begun, ended)
        BY <1>1, <1>6, <2>1, NodeFacts, WayType, WayFacts DEF WayOk
      <3>2. ~Has(w, "CS_REQUEST")
        <4>1. CASE q = PARENT_ID
          BY <3>1, <4>1 DEF OnWay, CsType
        <4>2. CASE q # PARENT_ID
          BY <1>1, <1>6, <2>1, <4>2, NodeFacts, ClaimFacts
        <4> QED
          BY <4>1, <4>2
      <3>3. OnWay(Append(w, f), p, q, "finishing", own, table, begun, ended)
        BY <1>5, <3>1, <3>2, DoneOnWay
      <3>4. Way(p, q)' = Append(w, f)
        BY <1>5, <1>6, <2>1, NodeFacts DEF Sent
      <3>5. pc'[p] = "finishing"
        BY <1>2, <2>1, NodeFacts DEF TypeOK, MutexInv
      <3> QED
        BY <1>2, <3>3, <3>4, <3>5 DEF WayOk
    <2>2. CASE p # n
      <3>1. Way(p, q)' = Way(p, q) /\ pc'[p] = pc[p]
        BY <1>1, <1>2, <1>5, <2>2, NodeFacts DEF Sent, TypeOK
      <3>2. Untouched(p, q)
        BY <1>2, <3>1 DEF Untouched
      <3> QED
        BY <1>1, <1>6, <3>2, WayKept
    <2> QED
      BY <2>1, <2>2
  <1> QED
    BY <1>4, <1>6 DEF WaysInv

LEMMA RequestCsWays ==
  ASSUME MutexInv, BarrierInv, WaysInv, NEW n \in Node, RequestCs(n)
  PROVE  WaysInv'
  <1>1. /\ TypeOK /\ n \in Worker /\ pc[n] = "work" /\ ~Writing(n) /\ Routes /\ Stamped
        /\ \A p \in Worker, q \in Node : p # q => WayOk(p, q)
    BY NodeFacts DEF RequestCs, AtWork, MutexInv, TypeOK, WaysInv
  <1>2. /\ Multicast(n, "CS_REQUEST", Peers(n)) /\ pc' = [pc EXCEPT ![n] = "waiting"]
        /\ queued' = [queued EXCEPT ![n] = @ \cup {n}]
        /\ UNCHANGED <<channel, started, done>>
    BY DEF RequestCs, Goto, barriers
  <1>3. "CS_REQUEST" \in MessageType /\ n \notin Peers(n)
    BY DEF MessageType, CsType, Peers
  <1>4. /\ \E f \in Frame : f.type = "CS_REQUEST" /\ Sent(n, f, Peers(n))
        /\ Routes' /\ Stamped'
    BY <1>1, <1>2, <1>3, MulticastWays
  <1>5. PICK f \in Frame : f.type = "CS_REQUEST" /\ Sent(n, f, Peers(n))
    BY <1>4
  <1>6. /\ \A q \in Node \ {n} : queued'[q] = queued[q] /\ pc'[q] = pc[q]
        /\ n \in queued'[n] /\ pc'[n] = "waiting"
    BY <1>1, <1>2, NodeFacts DEF TypeOK
  <1>7. ASSUME NEW p \in Worker, NEW q \in Node, p # q PROVE WayOk(p, q)'
    <2>1. CASE p = n /\ q # PARENT_ID
      <3> PICK w, own, table, begun, ended, owned :
            /\ w = Way(p, q) /\ own = queued[p] /\ owned = queued'[p]
            /\ table = queued[q] /\ begun = started[q] /\ ended = done[q]
        OBVIOUS
      <3>1. /\ w \in Seq(Frame) /\ p \notin own /\ p \notin ended /\ ~Has(w, "DONE")
            /\ OnWay(w, p, q, "work", own, table, begun, ended)
        BY <1>1, <1>7, <2>1, NodeFacts, WayType, WayFacts DEF WayOk
      <3>2. ~Has(w, "CS_REQUEST")
        BY <1>1, <1>7, <2>1, NodeFacts, ClaimFacts
      <3>3. OnWay(Append(w, f), p, q, "waiting", owned, table, begun, ended)
        BY <1>5, <1>6, <2>1, <3>1, <3>2, RequestOnWay
      <3>4. Way(p, q)' = Append(w, f)
        BY <1>5, <1>7, <2>1, NodeFacts DEF Sent, Peers
      <3> QED
        BY <1>2, <1>6, <1>7, <2>1, <3>3, <3>4 DEF WayOk
    <2>2. CASE ~(p = n /\ q # PARENT_ID)
      <3>1. Way(p, q)' = Way(p, q)
        BY <1>5, <1>7, <2>2, NodeFacts DEF Sent, Peers
      <3>2. pc'[p] \in Running => pc[p] \in Running
        BY <1>1, <1>6, NodeFacts DEF Running
      <3>3. pc'[p] \in AtEnd => pc[p] \in AtEnd
        BY <1>6, NodeFacts DEF AtEnd
      <3>4. p \in queued[p] => p \in queued'[p]
        BY <1>6, NodeFacts
      <3>5. p \in queued'[q] <=> p \in queued[q]
        <4>1. queued'[q] = queued[q] \/ (q = n /\ queued'[q] = queued[q] \cup {n})
          BY <1>1, <1>2 DEF TypeOK
        <4> QED
          BY <1>7, <4>1
      <3>6. Untouched(p, q)
        BY <1>2, <3>1, <3>2, <3>3, <3>4, <3>5 DEF Untouched
      <3> QED
        BY <1>1, <1>7, <3>6, WayKept
    <2> QED
      BY <2>1, <2>2
  <1> QED
    BY <1>4, <1>7 DEF WaysInv

(* Whoever is inside has been answered by everybody, so that its request has *)
(* been read and nothing but a reply may still be under way.                 *)
LEMMA ReleaseCsWays ==
  ASSUME MutexInv, BarrierInv, WaysInv, NEW n \in Node, ReleaseCs(n)
  PROVE  WaysInv'
  <1>1. /\ TypeOK /\ n \in Worker /\ pc[n] = "inside" /\ ~Writing(n) /\ Routes /\ Stamped
        /\ \A p \in Worker, q \in Node : p # q => WayOk(p, q)
    BY NodeFacts DEF ReleaseCs, MutexInv, TypeOK, ClaimOk, WaysInv
  <1>2. /\ Multicast(n, "CS_RELEASE", Peers(n)) /\ pc' = [pc EXCEPT ![n] = "work"]
        /\ queued' = [queued EXCEPT ![n] = @ \ {n}]
        /\ UNCHANGED <<channel, started, done>>
    BY DEF ReleaseCs, Goto, barriers
  <1>3. "CS_RELEASE" \in MessageType /\ n \notin Peers(n)
    BY DEF MessageType, CsType, Peers
  <1>4. /\ \E f \in Frame : f.type = "CS_RELEASE" /\ Sent(n, f, Peers(n))
        /\ Routes' /\ Stamped'
    BY <1>1, <1>2, <1>3, MulticastWays
  <1>5. PICK f \in Frame : f.type = "CS_RELEASE" /\ Sent(n, f, Peers(n))
    BY <1>4
  <1>6. /\ \A q \in Node \ {n} : queued'[q] = queued[q] /\ pc'[q] = pc[q]
        /\ pc'[n] = "work"
    BY <1>1, <1>2, NodeFacts DEF TypeOK
  <1>7. ASSUME NEW p \in Worker, NEW q \in Node, p # q PROVE WayOk(p, q)'
    <2>1. CASE p = n /\ q # PARENT_ID
      <3> PICK w, own, table, begun, ended, owned :
            /\ w = Way(p, q) /\ own = queued[p] /\ owned = queued'[p]
            /\ table = queued[q] /\ begun = started[q] /\ ended = done[q]
        OBVIOUS
      <3>1. /\ w \in Seq(Frame) /\ p \notin ended /\ ~Has(w, "DONE")
            /\ OnWay(w, p, q, "inside", own, table, begun, ended)
        BY <1>1, <1>7, <2>1, NodeFacts, WayType, WayFacts DEF WayOk
      <3>2. p \in table /\ ~Has(w, "CS_REQUEST") /\ ~Has(w, "CS_RELEASE")
        BY <1>1, <1>7, <2>1, NodeFacts, ClaimFacts
      <3>3. OnWay(Append(w, f), p, q, "work", owned, table, begun, ended)
        BY <1>5, <2>1, <3>1, <3>2, ReleaseOnWay
      <3>4. Way(p, q)' = Append(w, f)
        BY <1>5, <1>7, <2>1, NodeFacts DEF Sent, Peers
      <3> QED
        BY <1>2, <1>6, <1>7, <2>1, <3>3, <3>4 DEF WayOk
    <2>2. CASE ~(p = n /\ q # PARENT_ID)
      <3>1. Way(p, q)' = Way(p, q)
        BY <1>5, <1>7, <2>2, NodeFacts DEF Sent, Peers
      <3>2. pc'[p] \in Running => pc[p] \in Running
        BY <1>1, <1>6, NodeFacts DEF Running
      <3>3. pc'[p] \in AtEnd => pc[p] \in AtEnd
        BY <1>6, NodeFacts DEF AtEnd
      <3>4. p \in queued[p] => p \in queued'[p] \/ q = PARENT_ID
        BY <1>6, <2>2, NodeFacts
      <3>5. p \in queued'[q] <=> p \in queued[q]
        <4>1. queued'[q] = queued[q] \/ (q = n /\ queued'[q] = queued[q] \ {n})
          BY <1>1, <1>2 DEF TypeOK
        <4> QED
          BY <1>7, <4>1
      <3>6. Untouched(p, q)
        BY <1>2, <3>1, <3>2, <3>3, <3>4, <3>5 DEF Untouched
      <3> QED
        BY <1>1, <1>7, <3>6, WayKept
    <2> QED
      BY <2>1, <2>2
  <1> QED
    BY <1>4, <1>7 DEF WaysInv

(* A frame is taken and nothing sent. *)
LEMMA ReadWays ==
  ASSUME TypeOK, Routes, Stamped, NEW n \in Node, NEW m \in Node \ {n}, NEW type,
         Takes(n, m, type), Ticks(n, Head(channel[m][n]).time), UNCHANGED outbox
  PROVE  /\ m \in Worker /\ Way(m, n) # <<>> /\ Head(Way(m, n)).type = type
         /\ Way(m, n)' = Tail(Way(m, n))
         /\ \A a, b \in Node : ~(a = m /\ b = n) => Way(a, b)' = Way(a, b)
         /\ Routes' /\ Stamped'
  <1> PICK t : t = ClockReceive(clock[n], Head(channel[m][n]).time)
    OBVIOUS
  <1>1. t \in Nat /\ clock[n] <= t /\ ~Writing(n)
    <2>1. clock[n] \in Nat
      BY ClockFacts DEF TypeOK
    <2> QED
      BY <2>1, TakesFacts
  <1>2. clock' = [clock EXCEPT ![n] = t]
    BY DEF Ticks
  <1> PICK f : f = Head(channel[m][n])
    OBVIOUS
  <1>3. Puts(n, f, {})
    BY <1>1, <1>2, WayTicks
  <1>4. /\ Took(n, m, f, {}) /\ m \in Worker
        /\ Way(m, n) # <<>> /\ Head(Way(m, n)).type = type
        /\ Routes' /\ Stamped'
    BY <1>1, <1>2, <1>3, TakenWays
  <1> QED
    BY <1>4, NodeFacts DEF Took

LEMMA ReceiveBarrierWays ==
  ASSUME MutexInv, WaysInv, NEW n \in Node, NEW m \in Node \ {n},
         ReceiveStarted(n, m) \/ ReceiveDone(n, m)
  PROVE  WaysInv'
  <1>1. /\ TypeOK /\ Routes /\ Stamped
        /\ \A p \in Worker, q \in Node : p # q => WayOk(p, q)
    BY DEF MutexInv, WaysInv
  <1>2. PICK type \in {"STARTED", "DONE"} :
          /\ Takes(n, m, type) /\ Ticks(n, Head(channel[m][n]).time)
          /\ UNCHANGED <<pc, outbox, queued>>
          /\ started' = IF type = "STARTED" THEN [started EXCEPT ![n] = @ \cup {m}] ELSE started
          /\ done' = IF type = "DONE" THEN [done EXCEPT ![n] = @ \cup {m}] ELSE done
    BY DEF ReceiveStarted, ReceiveDone, cs
  <1>3. /\ m \in Worker /\ Way(m, n) # <<>> /\ Head(Way(m, n)).type = type
        /\ Way(m, n)' = Tail(Way(m, n))
        /\ \A a, b \in Node : ~(a = m /\ b = n) => Way(a, b)' = Way(a, b)
        /\ Routes' /\ Stamped'
    BY <1>1, <1>2, ReadWays
  <1>4. /\ \A q \in Node : \A x : x \in started'[q] <=>
              x \in started[q] \/ (q = n /\ x = m /\ type = "STARTED")
        /\ \A q \in Node : \A x : x \in done'[q] <=>
              x \in done[q] \/ (q = n /\ x = m /\ type = "DONE")
    BY <1>1, <1>2 DEF TypeOK
  <1>5. ASSUME NEW p \in Worker, NEW q \in Node, p # q PROVE WayOk(p, q)'
    <2>1. CASE p = m /\ q = n
      <3> PICK w, at, own, table, begun, ended, began, finished :
            /\ w = Way(p, q) /\ at = pc[p] /\ own = queued[p] /\ table = queued[q]
            /\ begun = started[q] /\ ended = done[q]
            /\ began = started'[q] /\ finished = done'[q]
        OBVIOUS
      <3>1. /\ w \in Seq(Frame) /\ w # <<>> /\ Head(w).type = type
            /\ OnWay(w, p, q, at, own, table, begun, ended)
        BY <1>1, <1>3, <1>5, <2>1, NodeFacts, WayType DEF WayOk
      <3>2. /\ p \in began <=> p \in begun \/ type = "STARTED"
            /\ p \in finished <=> p \in ended \/ type = "DONE"
        BY <1>4, <2>1
      <3>3. OnWay(Tail(w), p, q, at, own, table, began, finished)
        BY <3>1, <3>2, BarrierOffWay
      <3> QED
        BY <1>2, <1>3, <2>1, <3>3 DEF WayOk
    <2>2. CASE ~(p = m /\ q = n)
      <3>1. Untouched(p, q)
        BY <1>2, <1>3, <1>4, <2>2, NodeFacts DEF Untouched
      <3> QED
        BY <1>1, <1>5, <3>1, WayKept
    <2> QED
      BY <2>1, <2>2
  <1> QED
    BY <1>3, <1>5 DEF WaysInv

LEMMA ReceiveReplyWays ==
  ASSUME MutexInv, WaysInv, NEW n \in Node, NEW m \in Node \ {n}, ReceiveReply(n, m)
  PROVE  WaysInv'
  <1>1. /\ TypeOK /\ Routes /\ Stamped
        /\ \A p \in Worker, q \in Node : p # q => WayOk(p, q)
    BY DEF MutexInv, WaysInv
  <1>2. /\ Takes(n, m, "CS_REPLY") /\ Ticks(n, Head(channel[m][n]).time)
        /\ UNCHANGED <<pc, outbox, queued, started, done>>
    BY DEF ReceiveReply, barriers
  <1>3. /\ m \in Worker /\ Way(m, n) # <<>> /\ Head(Way(m, n)).type = "CS_REPLY"
        /\ Way(m, n)' = Tail(Way(m, n))
        /\ \A a, b \in Node : ~(a = m /\ b = n) => Way(a, b)' = Way(a, b)
        /\ Routes' /\ Stamped'
    BY <1>1, <1>2, ReadWays
  <1>4. ASSUME NEW p \in Worker, NEW q \in Node, p # q PROVE WayOk(p, q)'
    <2>1. CASE p = m /\ q = n
      <3> PICK w, at, own, table, begun, ended :
            /\ w = Way(p, q) /\ at = pc[p] /\ own = queued[p] /\ table = queued[q]
            /\ begun = started[q] /\ ended = done[q]
        OBVIOUS
      <3>1. /\ w \in Seq(Frame) /\ w # <<>> /\ Head(w).type = "CS_REPLY"
            /\ OnWay(w, p, q, at, own, table, begun, ended)
        BY <1>1, <1>3, <1>4, <2>1, NodeFacts, WayType DEF WayOk
      <3>2. OnWay(Tail(w), p, q, at, own, table, begun, ended)
        BY <3>1, ReplyOffWay
      <3> QED
        BY <1>2, <1>3, <2>1, <3>2 DEF WayOk
    <2>2. CASE ~(p = m /\ q = n)
      <3>1. Untouched(p, q)
        BY <1>2, <1>3, <2>2, NodeFacts DEF Untouched
      <3> QED
        BY <1>1, <1>4, <3>1, WayKept
    <2> QED
      BY <2>1, <2>2
  <1> QED
    BY <1>3, <1>4 DEF WaysInv

LEMMA ReceiveReleaseWays ==
  ASSUME MutexInv, WaysInv, NEW n \in Node, NEW m \in Node \ {n}, ReceiveRelease(n, m)
  PROVE  WaysInv'
  <1>1. /\ TypeOK /\ Routes /\ Stamped
        /\ \A p \in Worker, q \in Node : p # q => WayOk(p, q)
    BY DEF MutexInv, WaysInv
  <1>2. /\ Takes(n, m, "CS_RELEASE") /\ Ticks(n, Head(channel[m][n]).time)
        /\ queued' = [queued EXCEPT ![n] = @ \ {m}]
        /\ UNCHANGED <<pc, outbox, started, done>>
    BY DEF ReceiveRelease, barriers
  <1>3. /\ m \in Worker /\ Way(m, n) # <<>> /\ Head(Way(m, n)).type = "CS_RELEASE"
        /\ Way(m, n)' = Tail(Way(m, n))
        /\ \A a, b \in Node : ~(a = m /\ b = n) => Way(a, b)' = Way(a, b)
        /\ Routes' /\ Stamped'
    BY <1>1, <1>2, ReadWays
  <1>4. \A q \in Node : \A x : x \in queued'[q] <=> x \in queued[q] /\ ~(q = n /\ x = m)
    BY <1>1, <1>2 DEF TypeOK
  <1>5. ASSUME NEW p \in Worker, NEW q \in Node, p # q PROVE WayOk(p, q)'
    <2>1. p \in queued'[p] <=> p \in queued[p]
      BY <1>4, NodeFacts
    <2>2. CASE p = m /\ q = n
      <3> PICK w, at, own, table, begun, ended, owned, tabled :
            /\ w = Way(p, q) /\ at = pc[p] /\ own = queued[p] /\ table = queued[q]
            /\ begun = started[q] /\ ended = done[q]
            /\ owned = queued'[p] /\ tabled = queued'[q]
        OBVIOUS
      <3>1. /\ w \in Seq(Frame) /\ w # <<>> /\ Head(w).type = "CS_RELEASE"
            /\ OnWay(w, p, q, at, own, table, begun, ended)
        BY <1>1, <1>3, <1>5, <2>2, NodeFacts, WayType DEF WayOk
      <3>2. p \notin tabled /\ (p \in own => p \in owned)
        BY <1>4, <2>1, <2>2
      <3>3. OnWay(Tail(w), p, q, at, own, tabled, begun, ended)
        BY <3>1, <3>2, ReleaseOffWay
      <3>4. PICK v : v = Tail(w)
        OBVIOUS
      <3>5. OnWay(v, p, q, at, owned, tabled, begun, ended)
        BY <3>2, <3>3, <3>4, KeptOnWay
      <3> QED
        BY <1>2, <1>3, <2>2, <3>4, <3>5 DEF WayOk
    <2>3. CASE ~(p = m /\ q = n)
      <3>1. Untouched(p, q)
        BY <1>2, <1>3, <1>4, <2>1, <2>3, NodeFacts DEF Untouched
      <3> QED
        BY <1>1, <1>5, <3>1, WayKept
    <2> QED
      BY <2>2, <2>3
  <1> QED
    BY <1>3, <1>5 DEF WaysInv

(* The same, for a step that writes one frame to other nodes. *)
MovesClock(n, t) == clock' = [clock EXCEPT ![n] = t] /\ clock[n] <= t

LEMMA AnsweredWays ==
  ASSUME TypeOK, Routes, Stamped, NEW n \in Node, NEW m \in Node \ {n}, NEW type,
         Takes(n, m, type), NEW f \in Frame, NEW to, Puts(n, f, to), NEW t \in Nat, MovesClock(n, t),
         n # PARENT_ID, n \notin to, f.time = t
  PROVE  /\ Took(n, m, f, to) /\ m \in Worker
         /\ Way(m, n) # <<>> /\ Head(Way(m, n)).type = type
         /\ Routes' /\ Stamped'
  <1>1. to = {} \/ (n # PARENT_ID /\ n \notin to /\ f \in Frame /\ f.time = t)
    OBVIOUS
  <1> QED
    BY <1>1, TakenWays DEF MovesClock

(* A request is taken off its way, and its answer put on the way back. *)
LEMMA AnswerWays ==
  ASSUME MutexInv, WaysInv, NEW n \in Node, NEW m \in Node \ {n}, ReceiveRequest(n, m)
  PROVE  /\ n \in Worker /\ m \in Worker
         /\ \E f \in Frame : f.type = "CS_REPLY" /\ Took(n, m, f, {m})
         /\ Way(m, n) # <<>> /\ Head(Way(m, n)).type = "CS_REQUEST"
         /\ Routes' /\ Stamped'
  <1>1. TypeOK /\ Routes /\ Stamped
    BY DEF MutexInv, WaysInv
  <1> PICK sent : sent = Head(channel[m][n]).time
    OBVIOUS
  <1> PICK got : got = ClockReceive(clock[n], sent)
    OBVIOUS
  <1> PICK t : t = ClockSend(got)
    OBVIOUS
  <1>2. /\ Takes(n, m, "CS_REQUEST") /\ clock' = [clock EXCEPT ![n] = t]
        /\ outbox' = [outbox EXCEPT ![n] = ToWrite("CS_REPLY", {m})]
    BY DEF ReceiveRequest
  <1>3. n \in Worker /\ m \in Worker /\ CanSend(got)
    BY <1>2, NodeFacts DEF Takes, Accepts, CsType
  <1>4. /\ t \in Timestamp /\ t \in Nat /\ clock[n] <= t
    <2>1. clock[n] \in Nat /\ got \in Nat /\ clock[n] < got
      BY <1>1, <1>2, TakesFacts, ClockFacts DEF TypeOK
    <2>2. got \in Timestamp
      BY <1>1, <1>2, TypeTakes
    <2>3. t \in Timestamp /\ got < t
      BY <1>3, <2>2, ClockFacts
    <2> QED
      BY <2>1, <2>3, ClockFacts
  <1> PICK f : f = [type |-> "CS_REPLY", time |-> t]
    OBVIOUS
  <1>5. f \in Frame /\ f.type = "CS_REPLY" /\ f.time = t
    BY <1>4 DEF Frame, MessageType, CsType
  <1> PICK to : to = {m}
    OBVIOUS
  <1>6. Puts(n, f, to)
    BY <1>1, <1>2, WaySends
  <1>7. n # PARENT_ID /\ n \notin to
    BY <1>3, NodeFacts
  <1> PICK type : type = "CS_REQUEST"
    OBVIOUS
  <1>8. /\ Took(n, m, f, to) /\ m \in Worker
        /\ Way(m, n) # <<>> /\ Head(Way(m, n)).type = type
        /\ Routes' /\ Stamped'
    <2>1. Takes(n, m, type)
      BY <1>2
    <2>2. MovesClock(n, t)
      BY <1>2, <1>4 DEF MovesClock
    <2> QED
      BY <1>1, <1>4, <1>5, <1>6, <1>7, <2>1, <2>2, AnsweredWays
  <1> QED
    BY <1>3, <1>5, <1>8

(* A request is answered as it is taken: the one way loses its head, the *)
(* other gains a reply.                                                  *)
LEMMA ReceiveRequestWays ==
  ASSUME MutexInv, WaysInv, NEW n \in Node, NEW m \in Node \ {n}, ReceiveRequest(n, m)
  PROVE  WaysInv'
  <1>1. /\ TypeOK /\ Routes /\ Stamped
        /\ \A p \in Worker, q \in Node : p # q => WayOk(p, q)
    BY DEF MutexInv, WaysInv
  <1>2. /\ Takes(n, m, "CS_REQUEST") /\ queued' = [queued EXCEPT ![n] = @ \cup {m}]
        /\ UNCHANGED <<pc, started, done>>
    BY DEF ReceiveRequest, barriers
  <1> PICK to : to = {m}
    OBVIOUS
  <1>3. /\ n \in Worker /\ m \in Worker
        /\ \E g \in Frame : g.type = "CS_REPLY" /\ Took(n, m, g, to)
    BY AnswerWays
  <1> PICK f : f \in Frame /\ f.type = "CS_REPLY" /\ Took(n, m, f, to)
    BY <1>3
  <1>4. /\ Took(n, m, f, to)
        /\ Way(m, n) # <<>> /\ Head(Way(m, n)).type = "CS_REQUEST"
        /\ Routes' /\ Stamped'
    BY AnswerWays
  <1>5. \A q \in Node : \A x : x \in queued'[q] <=> x \in queued[q] \/ (q = n /\ x = m)
    BY <1>1, <1>2 DEF TypeOK
  <1>6. Has(Way(m, n), "CS_REQUEST")
    <2> PICK w : w = Way(m, n)
      OBVIOUS
    <2>1. w \in Seq(Frame) /\ w # <<>> /\ Head(w).type = "CS_REQUEST"
      BY <1>1, <1>4, WayType
    <2>2. WayOk(m, n)
      BY <1>1, <1>3
    <2>3. InOrder(w)
      BY <2>2 DEF WayOk, OnWay
    <2>4. Has(w, "CS_REQUEST")
      BY <2>1, <2>3, FirstOffWay
    <2> QED
      BY <2>4
  <1>7. m \in queued[m] /\ ~Has(Way(n, m), "CS_REPLY")
    BY <1>3, <1>6, ClaimFacts DEF Claims
  <1>8. ASSUME NEW p \in Worker, NEW q \in Node, p # q PROVE WayOk(p, q)'
    <2>1. p \in queued'[p] <=> p \in queued[p]
      BY <1>5, NodeFacts
    <2>2. CASE p = m /\ q = n
      <3> PICK w, at, own, table, begun, ended, owned, tabled :
            /\ w = Way(p, q) /\ at = pc[p] /\ own = queued[p] /\ table = queued[q]
            /\ begun = started[q] /\ ended = done[q]
            /\ owned = queued'[p] /\ tabled = queued'[q]
        OBVIOUS
      <3>1. /\ w \in Seq(Frame) /\ w # <<>> /\ Head(w).type = "CS_REQUEST"
            /\ OnWay(w, p, q, at, own, table, begun, ended)
        BY <1>1, <1>4, <1>8, <2>2, NodeFacts, WayType DEF WayOk
      <3>2. p \in tabled /\ p \in own /\ p \in owned
        BY <1>5, <1>7, <2>1, <2>2
      <3>3. OnWay(Tail(w), p, q, at, own, tabled, begun, ended)
        BY <3>1, <3>2, RequestOffWay
      <3>4. PICK v : v = Tail(w)
        OBVIOUS
      <3>5. OnWay(v, p, q, at, owned, tabled, begun, ended)
        BY <3>2, <3>3, <3>4, KeptOnWay
      <3>6. Way(p, q)' = v
        BY <1>3, <1>4, <1>8, <2>2, <3>4, NodeFacts DEF Took
      <3> QED
        BY <1>2, <2>2, <3>5, <3>6 DEF WayOk
    <2>3. CASE p = n /\ q = m
      <3> PICK w, at, own, table, begun, ended, owned :
            /\ w = Way(p, q) /\ at = pc[p] /\ own = queued[p] /\ table = queued[q]
            /\ begun = started[q] /\ ended = done[q] /\ owned = queued'[p]
        OBVIOUS
      <3>1. /\ w \in Seq(Frame) /\ ~Has(w, "CS_REPLY") /\ q # PARENT_ID
            /\ OnWay(w, p, q, at, own, table, begun, ended)
        BY <1>1, <1>3, <1>7, <1>8, <2>3, NodeFacts, WayType DEF WayOk
      <3>2. p \in own => p \in owned
        BY <2>1
      <3>3. OnWay(Append(w, f), p, q, at, owned, table, begun, ended)
        BY <3>1, <3>2, ReplyOnWay
      <3>4. Way(p, q)' = Append(w, f)
        BY <1>4, <1>8, <2>3 DEF Took
      <3>5. queued'[q] = queued[q]
        BY <1>1, <1>2, <1>8, <2>3 DEF TypeOK
      <3> QED
        BY <1>2, <3>3, <3>4, <3>5 DEF WayOk
    <2>4. CASE ~(p = m /\ q = n) /\ ~(p = n /\ q = m)
      <3>1. Way(p, q)' = Way(p, q)
        BY <1>4, <2>4, NodeFacts DEF Took
      <3>2. Untouched(p, q)
        BY <1>2, <1>5, <2>1, <2>4, <3>1 DEF Untouched
      <3> QED
        BY <1>1, <1>8, <3>2, WayKept
    <2> QED
      BY <2>2, <2>3, <2>4
  <1> QED
    BY <1>4, <1>8 DEF WaysInv

LEMMA WaysInit == Init => WaysInv
  <1> SUFFICES ASSUME Init PROVE WaysInv
    OBVIOUS
  <1>1. \A p, q \in Node : Way(p, q) = <<>>
    BY DEF Init, Way, Idle
  <1>2. /\ \A p \in Node : queued[p] = {} /\ started[p] = {} /\ done[p] = {}
        /\ \A p \in Worker : pc[p] = "unborn"
    BY NodeFacts DEF Init, NothingForked
  <1>3. <<>> \in Seq(Frame)
    BY EmptySeq
  <1>4. ASSUME NEW p \in Worker, NEW q \in Node PROVE WayOk(p, q)
    <2> PICK w : w = Way(p, q)
      OBVIOUS
    <2>1. w \in Seq(Frame) /\ w = <<>>
      BY <1>1, <1>3, NodeFacts
    <2>2. InOrder(w) /\ \A t : ~Has(w, t)
      BY <2>1, NothingOnWay
    <2>3. p \in Node
      BY NodeFacts
    <2> QED
      BY <1>2, <2>2, <2>3 DEF WayOk, OnWay, Running, AtEnd
  <1>5. \A t : Past(<<>>, t)
    BY EmptySeq DEF Past
  <1>6. Stamped
    BY <1>1, <1>5 DEF Stamped
  <1>7. Routes
    BY <1>1, NodeFacts DEF Routes
  <1> QED
    BY <1>4, <1>6, <1>7 DEF WaysInv

(* No worker announces itself or its end in a step. *)
NoNews ==
  \A p \in Worker : /\ pc'[p] \in Running => pc[p] \in Running
                    /\ pc'[p] \in AtEnd => pc[p] \in AtEnd

LEMMA NodeNews ==
  ASSUME TypeOK, NEW n \in Node,
         \/ PassStarted(n) \/ PrintOnly(n) \/ EnterCs(n) \/ PassDone(n)
         \/ SendOverflow(n) \/ PeersClosed(n)
         \/ \E m \in Node \ {n} : BrokenPipe(n, m) \/ RejectFrame(n, m)
  PROVE  NoNews /\ UNCHANGED <<clock, channel, outbox, barriers, cs>>
  <1>1. ASSUME Fatal(n) PROVE NoNews /\ UNCHANGED <<clock, channel, outbox, barriers, cs>>
    <2>1. \A p \in Worker : pc'[p] = pc[p] \/ pc'[p] = "failed"
      BY <1>1, NodeFacts DEF Fatal, Fail, Goto, TypeOK
    <2> QED
      BY <1>1, <2>1 DEF Fatal, NoNews, Running, AtEnd, barriers
  <1>2. CASE Fatal(n)
    BY <1>1, <1>2
  <1>3. CASE PrintOnly(n)
    BY <1>3 DEF PrintOnly, NoNews
  <1>4. CASE PassStarted(n)
    <2>1. \A p \in Worker : pc'[p] = pc[p] \/ (pc[p] = "starting" /\ pc'[p] = "work")
      BY <1>4, NodeFacts DEF PassStarted, Goto, TypeOK
    <2> QED
      BY <1>4, <2>1 DEF PassStarted, NoNews, Running, AtEnd
  <1>5. CASE EnterCs(n)
    <2>1. \A p \in Worker : pc'[p] = pc[p] \/ (pc[p] = "waiting" /\ pc'[p] = "inside")
      BY <1>5, NodeFacts DEF EnterCs, Goto, TypeOK
    <2> QED
      BY <1>5, <2>1 DEF EnterCs, NoNews, Running, AtEnd
  <1>6. CASE PassDone(n)
    <2>1. \A p \in Worker : pc'[p] = pc[p] \/ (pc[p] = "finishing" /\ pc'[p] = "exited")
      BY <1>6, NodeFacts DEF PassDone, Goto, TypeOK
    <2> QED
      BY <1>6, <2>1 DEF PassDone, NoNews, Running, AtEnd
  <1> QED
    BY <1>2, <1>3, <1>4, <1>5, <1>6 DEF SendOverflow, PeersClosed, BrokenPipe, RejectFrame

LEMMA OuterNews ==
  ASSUME TypeOK, Supervision \/ Signals \/ UNCHANGED vars
  PROVE  NoNews /\ UNCHANGED <<clock, channel, outbox, barriers, cs>>
  <1>1. \A p \in Worker : pc'[p] = pc[p] \/ pc'[p] \in {"boot", "killed"}
    <2>1. CASE Supervision
      <3>1. CASE AllForked \/ Reap
        BY <3>1, NodeFacts DEF AllForked, Reap, Goto, TypeOK
      <3>2. ASSUME NEW n \in Worker, Fork(n) \/ ForkFails(n) \/ StopWorker(n)
            PROVE  \A p \in Worker : pc'[p] = pc[p] \/ pc'[p] \in {"boot", "killed"}
        BY <3>2, NodeFacts DEF Fork, ForkFails, StopWorker, Goto, TypeOK
      <3> QED
        BY <2>1, <3>1, <3>2 DEF Supervision, Supervise
    <2>2. CASE Signals
      BY <2>2, NodeFacts DEF Signals, Kill, Goto, TypeOK
    <2>3. CASE UNCHANGED vars
      BY <2>3 DEF vars
    <2> QED
      BY <2>1, <2>2, <2>3
  <1>2. UNCHANGED <<clock, channel, outbox, barriers, cs>>
    BY DEF Supervision, Signals, vars, barriers, cs
  <1> QED
    BY <1>1, <1>2 DEF NoNews, Running, AtEnd

LEMMA WaysStep ==
  ASSUME MutexInv, BarrierInv, WaysInv, [Next]_vars
  PROVE  WaysInv'
  <1>1. TypeOK
    BY DEF MutexInv
  <1>2. ASSUME NoNews, UNCHANGED <<clock, channel, outbox, barriers, cs>> PROVE WaysInv'
    BY <1>1, <1>2, QuietWays DEF NoNews
  <1>3. ASSUME NEW n \in Node, NodeNext(n) PROVE WaysInv'
    <2>1. CASE \/ PassStarted(n) \/ PrintOnly(n) \/ EnterCs(n) \/ PassDone(n)
               \/ SendOverflow(n) \/ PeersClosed(n)
               \/ \E m \in Node \ {n} : BrokenPipe(n, m) \/ RejectFrame(n, m)
      BY <1>1, <1>2, <2>1, NodeNews
    <2>2. CASE AnnounceStarted(n) \/ AnnounceDone(n) \/ RequestCs(n) \/ ReleaseCs(n)
      BY <2>2, AnnounceStartedWays, AnnounceDoneWays, RequestCsWays, ReleaseCsWays
    <2>3. ASSUME NEW m \in Node \ {n}, WriteFrame(n, m) PROVE WaysInv'
      <3>1. SameWays /\ UNCHANGED <<pc, clock, barriers, cs>>
        BY <1>1, <2>3, WritesStay DEF WriteFrame
      <3> QED
        BY <1>1, <3>1, SameWaysStep
    <2>4. ASSUME NEW m \in Node \ {n}, Dispatch(n, m), ~RejectFrame(n, m) PROVE WaysInv'
      BY <2>4, ReceiveBarrierWays, ReceiveRequestWays, ReceiveReplyWays, ReceiveReleaseWays
         DEF Dispatch
    <2> QED
      BY <1>3, <2>1, <2>2, <2>3, <2>4 DEF NodeNext
  <1>4. CASE Supervision \/ Signals \/ UNCHANGED vars
    BY <1>1, <1>2, <1>4, OuterNews
  <1> QED
    BY <1>3, <1>4 DEF Next

-----------------------------------------------------------------------------
(* The ends: who leaves has heard everybody's DONE and has nothing to write. *)

Leaving == {"reaping", "exited"}
EndInv == \A q \in Node : pc[q] \in Leaving => Peers(q) \subseteq done[q] /\ ~Writing(q)

Quits(q) ==
  /\ done[q] \subseteq done'[q]
  /\ pc'[q] \in Leaving =>
       /\ Writing(q)' => Writing(q)
       /\ pc[q] = "finishing" => ~Writing(q)

LEMMA StepQuits ==
  ASSUME TypeOK, [Next]_vars, NEW q \in Node
  PROVE  Quits(q)
  <1>1. ASSUME UNCHANGED <<outbox, done>>, pc[q] = "finishing" => pc'[q] \notin Leaving
        PROVE  Quits(q)
    BY <1>1 DEF Quits, Writing
  <1>2. ASSUME NEW n \in Node, NodeNext(n) PROVE Quits(q)
    <2>1. CASE NoNews /\ UNCHANGED <<outbox, barriers>> /\ ~PassDone(n)
      <3>1. pc[q] = "finishing" => pc'[q] \notin Leaving
        <4>1. ASSUME Fatal(n) PROVE pc'[q] = pc[q] \/ pc'[q] \in {"failed", "stopping"}
          BY <4>1 DEF Fatal, Fail, Goto, TypeOK
        <4>2. CASE Fatal(n)
          BY <4>1, <4>2 DEF Leaving
        <4>3. CASE ~Fatal(n)
          BY <1>2, <2>1, <4>3
             DEF NodeNext, AnnounceStarted, PassStarted, RequestCs, PrintOnly, AnnounceDone,
                 EnterCs, ReleaseCs, SendOverflow, WriteFrame, BrokenPipe, Dispatch,
                 ReceiveStarted, ReceiveDone, ReceiveRequest, ReceiveReply, ReceiveRelease,
                 RejectFrame, PeersClosed, Goto, TypeOK, Leaving
        <4> QED
          BY <4>2, <4>3
      <3> QED
        BY <1>1, <2>1, <3>1 DEF barriers
    <2>2. CASE PassDone(n)
      BY <2>2 DEF PassDone, Quits, Goto, TypeOK, Leaving, barriers, Writing
    <2>3. CASE AnnounceStarted(n) \/ AnnounceDone(n) \/ RequestCs(n) \/ ReleaseCs(n)
      <3>1. /\ UNCHANGED done /\ pc'[n] \in {"starting", "finishing", "waiting", "work"}
            /\ \A x \in Node \ {n} : outbox'[x] = outbox[x] /\ pc'[x] = pc[x]
        BY <2>3 DEF AnnounceStarted, AnnounceDone, RequestCs, ReleaseCs, Multicast, Goto,
                    TypeOK, barriers
      <3> QED
        BY <3>1 DEF Quits, Writing, Leaving
    <2>4. ASSUME NEW m \in Node \ {n}, WriteFrame(n, m) PROVE Quits(q)
      <3>1. UNCHANGED <<pc, done>> /\ (Writing(q)' => Writing(q))
        <4>1. outbox'[q] = outbox[q] \/ (q = n /\ m \in outbox[n].to)
          BY <2>4 DEF WriteFrame, NextTarget, TypeOK
        <4> QED
          BY <2>4, <4>1 DEF WriteFrame, Writing, barriers
      <3> QED
        BY <3>1 DEF Quits, Leaving
    <2>5. ASSUME NEW m \in Node \ {n}, Dispatch(n, m), ~RejectFrame(n, m) PROVE Quits(q)
      <3>1. UNCHANGED pc /\ pc[n] \in {"starting", "finishing", "waiting"}
        BY <2>5 DEF Dispatch, ReceiveStarted, ReceiveDone, ReceiveRequest, ReceiveReply,
                    ReceiveRelease, Takes, Dispatching
      <3>2. done[q] \subseteq done'[q]
        <4>1. done' = done \/ done' = [done EXCEPT ![n] = @ \cup {m}]
          BY <2>5 DEF Dispatch, ReceiveStarted, ReceiveDone, ReceiveRequest, ReceiveReply,
                      ReceiveRelease, barriers
        <4>2. CASE done' = done
          BY <4>2
        <4>3. CASE done' = [done EXCEPT ![n] = @ \cup {m}]
          BY <4>3 DEF TypeOK
        <4> QED
          BY <4>1, <4>2, <4>3
      <3>3. q # n => outbox'[q] = outbox[q]
        BY <2>5 DEF Dispatch, ReceiveStarted, ReceiveDone, ReceiveRequest, ReceiveReply,
                    ReceiveRelease, TypeOK
      <3> QED
        BY <3>1, <3>2, <3>3 DEF Quits, Writing, Leaving
    <2>6. CASE \/ PassStarted(n) \/ PrintOnly(n) \/ EnterCs(n)
               \/ SendOverflow(n) \/ PeersClosed(n)
               \/ \E m \in Node \ {n} : BrokenPipe(n, m) \/ RejectFrame(n, m)
      BY <2>1, <2>2, <2>6, NodeNews
    <2> QED
      BY <1>2, <2>2, <2>3, <2>4, <2>5, <2>6 DEF NodeNext
  <1>3. CASE Supervision \/ Signals \/ UNCHANGED vars
    <2>1. pc[q] = "finishing" => pc'[q] \notin Leaving
      <3>1. CASE Supervision
        <4>1. CASE AllForked \/ Reap
          BY <4>1 DEF AllForked, Reap, Goto, TypeOK, Leaving
        <4>2. ASSUME NEW n \in Worker, Fork(n) \/ ForkFails(n) \/ StopWorker(n)
              PROVE  pc[q] = "finishing" => pc'[q] \notin Leaving
          BY <4>2 DEF Fork, ForkFails, StopWorker, Goto, TypeOK, Leaving
        <4> QED
          BY <3>1, <4>1, <4>2 DEF Supervision, Supervise
      <3>2. CASE Signals
        BY <3>2 DEF Signals, Kill, Goto, TypeOK, Leaving
      <3>3. CASE UNCHANGED vars
        BY <3>3 DEF vars, Leaving
      <3> QED
        BY <1>3, <3>1, <3>2, <3>3
    <2>2. UNCHANGED <<outbox, done>>
      BY <1>3 DEF Supervision, Signals, vars, barriers
    <2> QED
      BY <1>1, <2>1, <2>2
  <1> QED
    BY <1>2, <1>3 DEF Next

LEMMA EndStep ==
  ASSUME TypeOK, EndInv, [Next]_vars
  PROVE  EndInv'
  <1> SUFFICES ASSUME NEW q \in Node, pc'[q] \in Leaving
               PROVE  Peers(q) \subseteq done'[q] /\ ~Writing(q)'
    BY DEF EndInv, Peers
  <1>1. Quits(q) /\ Moves
    BY StepQuits, StepMoves
  <1>2. pc[q] \in Leaving \/ (pc[q] = "finishing" /\ Peers(q) \subseteq done[q])
    BY <1>1, NodeFacts DEF Moves, WorkerMoves, ParentMoves, Leaving, Peers
  <1> QED
    BY <1>1, <1>2 DEF Quits, EndInv

LEMMA WaysAlways == Spec => [](MutexInv /\ BarrierInv /\ WaysInv /\ EndInv)
  <1>1. Init => EndInv
    BY NodeFacts DEF Init, NothingForked, EndInv, Leaving
  <1>2. MutexInv /\ BarrierInv /\ WaysInv /\ EndInv /\ [Next]_vars => WaysInv' /\ EndInv'
    BY WaysStep, EndStep DEF MutexInv
  <1> QED
    BY <1>1, <1>2, WaysInit, AlwaysBarrier, PTL DEF Spec

(* A pipe never holds more than three frames, whoever dies: a way has a place *)
(* for each of STARTED or a release, a request or DONE, and a reply.  So with *)
(* 64 KiB a write never spins on a full pipe (write_frame, README).           *)
THEOREM PipesStayShort == Spec => []ChannelsStayShort
  <1>1. MutexInv /\ WaysInv => ChannelsStayShort
    <2> SUFFICES ASSUME MutexInv, WaysInv, NEW p \in Node, NEW q \in Node
                 PROVE  Len(channel[p][q]) <= 3
      BY DEF ChannelsStayShort, MostFrames
    <2> PICK w : w = Way(p, q)
      OBVIOUS
    <2>1. w \in Seq(Frame) /\ channel[p][q] \in Seq(Frame)
      BY WayType DEF MutexInv
    <2>2. Len(channel[p][q]) <= Len(w)
      <3>1. Len(channel[p][q]) \in Nat
        BY <2>1, LenProperties
      <3>2. CASE q \in outbox[p].to
        <4>1. w = Append(channel[p][q], Outgoing(p)) /\ Outgoing(p) \in Frame
          BY <3>2, WayType DEF MutexInv, Way
        <4>2. Len(w) = Len(channel[p][q]) + 1
          BY <2>1, <4>1, AppendProperties
        <4> QED
          BY <3>1, <4>2
      <3>3. CASE q \notin outbox[p].to
        BY <3>1, <3>3 DEF Way
      <3> QED
        BY <3>2, <3>3
    <2>3. InOrder(w)
      <3>1. CASE p = PARENT_ID \/ p = q
        BY <2>1, <3>1, NodeFacts, NothingOnWay DEF WaysInv, Routes
      <3>2. CASE p # PARENT_ID /\ p # q
        BY <3>2, NodeFacts DEF WaysInv, WayOk, OnWay
      <3> QED
        BY <3>1, <3>2
    <2>4. Len(w) <= 3 /\ Len(w) \in Nat /\ Len(channel[p][q]) \in Nat
      BY <2>1, <2>3, WayIsShort, LenProperties
    <2> QED
      BY <2>2, <2>4
  <1> QED
    BY <1>1, WaysAlways, PTL

(* Once q has heard p's DONE nothing is on the way from p, unless q claims. *)
LEMMA NothingAfterDone ==
  ASSUME MutexInv, WaysInv, NEW p \in Node, NEW q \in Node,
         p \in Worker /\ p # q => p \in done[q], q \in Worker => ~Claims(q)
  PROVE  Way(p, q) = <<>>
  <1>1. Way(p, q) \in Seq(Frame)
    BY WayType DEF MutexInv
  <1>2. CASE p = PARENT_ID \/ p = q
    BY <1>2 DEF WaysInv, Routes
  <1>3. CASE p # PARENT_ID /\ p # q
    <2>1. p \in Worker /\ p \in done[q] /\ WayOk(p, q)
      BY <1>3, NodeFacts DEF WaysInv
    <2>2. \A t \in MessageType : Has(Way(p, q), t) => t = "CS_REPLY"
      BY <2>1 DEF WayOk, OnWay
    <2>3. ~Has(Way(p, q), "CS_REPLY")
      <3>1. CASE q = PARENT_ID
        BY <2>1, <3>1 DEF WayOk, OnWay, CsType
      <3>2. CASE q # PARENT_ID
        BY <1>3, <2>1, <3>2, NodeFacts, ClaimFacts
      <3> QED
        BY <3>1, <3>2
    <2> QED
      BY <1>1, <2>2, <2>3, NothingOnWay
  <1> QED
    BY <1>2, <1>3

LEMMA EmptyWay ==
  ASSUME TypeOK, NEW p \in Node, NEW q \in Node
  PROVE  Way(p, q) = <<>> <=> channel[p][q] = <<>> /\ q \notin outbox[p].to
  <1>1. channel[p][q] \in Seq(Frame)
    BY WayType
  <1>2. \A x : Append(channel[p][q], x) # <<>>
    BY <1>1
  <1> QED
    BY <1>2 DEF Way

(* Who leaves claims nothing and has heard everybody's DONE. *)
LEMMA LeavesNothing ==
  ASSUME MutexInv, WaysInv, EndInv, NEW p \in Node, NEW q \in Node, pc[q] \in Leaving
  PROVE  Way(p, q) = <<>>
  <1>1. Peers(q) \subseteq done[q]
    BY DEF EndInv
  <1>2. q \in Worker => ~Claims(q)
    BY DEF MutexInv, ClaimOk, Leaving
  <1>3. p \in Worker /\ p # q => p \in done[q]
    BY <1>1 DEF Peers
  <1> QED
    BY <1>2, <1>3, NothingAfterDone

(* No process closes its pipes on a frame of another, whoever dies: a node    *)
(* that has passed the second barrier of protocol.c has read everything that  *)
(* was sent to it, and nobody is about to write to it.                        *)
THEOREM PipesLeftEmpty == Spec => []NothingUnread
  <1>1. MutexInv /\ WaysInv /\ EndInv => NothingUnread
    <2> SUFFICES ASSUME MutexInv, WaysInv, EndInv, NEW p \in Node, NEW q \in Node,
                        pc[p] \in {"reaping", "exited"}
                 PROVE  channel[q][p] = <<>> /\ p \notin outbox[q].to
      BY DEF NothingUnread
    <2>1. Way(q, p) = <<>>
      BY LeavesNothing DEF Leaving
    <2> QED
      BY <2>1, EmptyWay DEF MutexInv
  <1> QED
    BY <1>1, WaysAlways, PTL

-----------------------------------------------------------------------------
(* Nobody fails.                                                              *)

(* Nobody is killed, every fork succeeds, and no clock comes near its maximum. *)
Undisturbed ==
  /\ Mortal = {} /\ ~ForkMayFail
  /\ \A p \in Node : clock[p] + 1 < MaxClock

Failing == {"stopping", "aborting", "failed", "killed"}

SoundInv ==
  /\ NoFailure
  /\ \A p \in Worker : pc[p] # "reaping"
  /\ pc[PARENT_ID] # "boot" => \A p \in Worker : pc[p] # "unborn"

LEMMA GoneFacts ==
  ASSUME TypeOK, SoundInv, NEW q \in Node, Gone(q)
  PROVE  pc[q] \in Leaving /\ (q \in Worker => pc[q] = "exited")
  <1>1. /\ pc[q] \in {"exited", "unborn", "reaping"}
        /\ \A r \in Node : pc[r] # "boot"
    BY DEF Gone, Closed, Inherited, SoundInv, NoFailure, Over
  <1>2. pc[q] # "unborn"
    BY <1>1, NodeFacts DEF SoundInv, TypeOK
  <1> QED
    BY <1>1, <1>2 DEF SoundInv, Leaving

(* No pipe is written whose reader has left. *)
LEMMA PipesHold ==
  ASSUME MutexInv, WaysInv, EndInv, SoundInv, NEW p \in Node, NEW q \in Node, BrokenPipe(p, q)
  PROVE  FALSE
  <1>1. TypeOK /\ q \in outbox[p].to /\ Gone(q)
    BY DEF MutexInv, BrokenPipe, NextTarget
  <1>2. pc[q] \in Leaving
    BY <1>1, GoneFacts
  <1> QED
    BY <1>1, <1>2, LeavesNothing, EmptyWay

(* The first frame of a pipe is the first on its way. *)
LEMMA FirstOfWay ==
  ASSUME TypeOK, NEW p \in Node, NEW q \in Node, channel[p][q] # <<>>
  PROVE  Way(p, q) # <<>> /\ Head(Way(p, q)) = Head(channel[p][q])
  <1>1. channel[p][q] \in Seq(Frame)
    BY WayType
  <1>2. \A x : /\ Append(channel[p][q], x) # <<>>
               /\ Head(Append(channel[p][q], x)) = Head(channel[p][q])
    BY <1>1
  <1> QED
    BY <1>2 DEF Way

(* What dispatch refuses never comes. *)
LEMMA FramesAccepted ==
  ASSUME MutexInv, BarrierInv, WaysInv, SilentWithoutMutex, Undisturbed,
         NEW q \in Node, NEW p \in Node \ {q}, Dispatching(q), channel[p][q] # <<>>
  PROVE  Accepts(q, p, Head(channel[p][q]))
  <1> PICK w, h : w = Way(p, q) /\ h = Head(channel[p][q])
    OBVIOUS
  <1>1. TypeOK /\ w \in Seq(Frame) /\ w # <<>> /\ Head(w) = h
    BY FirstOfWay, WayType DEF MutexInv
  <1>2. p \in Worker /\ p # q
    BY <1>1, NodeFacts DEF WaysInv, Routes
  <1>3. OnWay(w, p, q, pc[p], queued[p], queued[q], started[q], done[q])
    BY <1>2 DEF WaysInv, WayOk
  <1>4. /\ Has(w, h.type) /\ h.type \in MessageType
        /\ \A t : Has(w, t) => t = h.type \/ After(h.type, t)
    BY <1>1, <1>3, FirstOffWay DEF OnWay
  <1>5. CanReceive(clock[q], h.time) /\ CanSend(ClockReceive(clock[q], h.time))
    <2>1. h \in Frame /\ 1 \in DOMAIN w /\ w[1] = h
      BY <1>1, TailOfPipe
    <2>2. h.time <= clock[p]
      BY <2>1 DEF WaysInv, Stamped, Past
    <2>3. /\ h.time \in Nat /\ clock[p] \in Nat /\ clock[q] \in Nat /\ MaxClock \in Nat
      BY <1>1, <2>1, ClockFacts DEF TypeOK, Frame
    <2>4. clock[p] + 1 < MaxClock /\ clock[q] + 1 < MaxClock
      BY DEF Undisturbed
    <2> QED
      BY <2>2, <2>3, <2>4 DEF CanReceive, CanSend, ClockReceive
  <1>6. h.type \in CsType => MutexEnabled /\ q # PARENT_ID /\ p # PARENT_ID
    <2>1. h.type \in CsType => q # PARENT_ID
      BY <1>3, <1>4 DEF OnWay
    <2>2. 1 \in DOMAIN channel[p][q] /\ channel[p][q][1] = h
      BY <1>1, WayType, TailOfPipe
    <2>3. ~MutexEnabled => h.type \notin CsType
      BY <2>2 DEF SilentWithoutMutex
    <2> QED
      BY <1>2, <2>1, <2>3, NodeFacts
  <1>7. h.type \in {"DONE", "CS_REQUEST"} => p \notin queued[q]
    <2>1. h.type = "DONE" => p \notin queued[p]
      BY <1>2, <1>4, WayFacts DEF Finished, Claims
    <2>2. h.type \in {"DONE", "CS_REQUEST"} => ~Has(w, "CS_RELEASE")
      BY <1>4 DEF After
    <2> QED
      BY <1>3, <1>4, <2>1, <2>2 DEF OnWay
  <1>8. h.type = "CS_REQUEST" => p \notin done[q]
    BY <1>3, <1>4 DEF OnWay
  <1>9. h.type = "CS_REPLY" => Requesting(q)
    <2> SUFFICES ASSUME h.type = "CS_REPLY" PROVE Requesting(q)
      OBVIOUS
    <2>1. q \in Worker
      BY <1>6, NodeFacts DEF CsType
    <2>2. pc[q] \in {"waiting", "inside", "failed", "killed"}
      BY <1>2, <1>4, <2>1, ClaimFacts
    <2> QED
      BY <2>2 DEF Dispatching, Requesting
  <1>10. h.type = "CS_RELEASE" => p \in queued[q]
    BY <1>3, <1>4 DEF OnWay
  <1> QED
    BY <1>5, <1>6, <1>7, <1>8, <1>9, <1>10 DEF Accepts

(* Whoever waits waits for a process that is there or has left its answer. *)
LEMMA PeersThere ==
  ASSUME MutexInv, BarrierInv, WaysInv, EndInv, SoundInv, NEW n \in Node, PeersClosed(n)
  PROVE  FALSE
  <1>1. /\ TypeOK /\ Dispatching(n)
        /\ \A q \in Node \ {n} : Gone(q) /\ channel[q][n] = <<>>
    BY DEF PeersClosed, MutexInv
  <1>2. ASSUME NEW q \in Peers(n)
        PROVE  /\ q \in Worker /\ q # n /\ pc[q] = "exited" /\ Way(q, n) = <<>>
               /\ q \in started[n] /\ q \in done[n]
    <2>1. q \in Worker /\ q # n /\ q \in Node /\ pc[q] = "exited"
      BY <1>1, NodeFacts, GoneFacts DEF Peers
    <2>2. Way(q, n) = <<>>
      BY <1>1, <2>1 DEF EndInv, Leaving, Writing, Way
    <2> PICK w : w = Way(q, n)
      OBVIOUS
    <2>3. \A t : ~Has(w, t)
      BY <1>1, <2>1, <2>2, WayType, NothingOnWay
    <2>4. OnWay(w, q, n, "exited", queued[q], queued[n], started[n], done[n])
      BY <2>1 DEF WaysInv, WayOk
    <2> QED
      BY <2>1, <2>2, <2>3, <2>4 DEF OnWay, Running, AtEnd
  <1>3. AllReceived(n, started) /\ AllReceived(n, done)
    BY <1>2 DEF AllReceived
  <1>4. pc[n] = "waiting" /\ ~FirstAndConfirmed(n)
    BY <1>1, <1>3 DEF Dispatching
  <1>5. n \in Worker
    BY <1>1, <1>4, NodeFacts DEF TypeOK
  <1>6. PICK q \in Peers(n) : TRUE
    BY <1>4 DEF FirstAndConfirmed
  <1>7. Finished(n)
    BY <1>2, <1>5, <1>6, NodeFacts DEF BarrierInv
  <1> QED
    BY <1>4, <1>7 DEF Finished

LEMMA SoundStep ==
  ASSUME MutexInv, BarrierInv, WaysInv, EndInv, SilentWithoutMutex, Undisturbed,
         SoundInv, [Next]_vars
  PROVE  SoundInv'
  <1>1. TypeOK /\ Moves
    BY StepMoves DEF MutexInv
  <1>2. ASSUME NEW n \in Node, NodeNext(n) PROVE \A p \in Node : pc'[p] \notin Failing
    <2>1. CanSend(clock[n])
      <3>1. clock[n] \in Nat /\ MaxClock \in Nat /\ clock[n] + 1 < MaxClock
        BY <1>1, ClockFacts DEF Undisturbed, TypeOK
      <3> QED
        BY <3>1 DEF CanSend
    <2>2. CASE SendOverflow(n)
      BY <2>1, <2>2 DEF SendOverflow
    <2>3. ASSUME NEW m \in Node \ {n}, BrokenPipe(n, m) PROVE FALSE
      BY <2>3, PipesHold
    <2>4. ASSUME NEW m \in Node \ {n}, RejectFrame(n, m) PROVE FALSE
      BY <2>4, FramesAccepted DEF RejectFrame
    <2>5. CASE PeersClosed(n)
      BY <2>5, PeersThere
    <2>6. \A p \in Node : pc[p] \notin Failing
      BY DEF SoundInv, NoFailure, Failing
    <2>7. CASE AnnounceStarted(n) \/ PassStarted(n) \/ RequestCs(n) \/ PrintOnly(n)
               \/ AnnounceDone(n) \/ EnterCs(n) \/ ReleaseCs(n) \/ PassDone(n)
      BY <1>1, <2>6, <2>7
         DEF AnnounceStarted, PassStarted, RequestCs, PrintOnly, AnnounceDone, EnterCs,
             ReleaseCs, PassDone, Goto, TypeOK, Failing
    <2>8. ASSUME NEW m \in Node \ {n}, WriteFrame(n, m) \/ Dispatch(n, m), ~RejectFrame(n, m)
          PROVE  UNCHANGED pc
      BY <2>8 DEF WriteFrame, Dispatch, ReceiveStarted, ReceiveDone, ReceiveRequest,
                  ReceiveReply, ReceiveRelease
    <2> QED
      BY <1>2, <2>2, <2>3, <2>4, <2>5, <2>6, <2>7, <2>8 DEF NodeNext
  <1>3. ASSUME Supervision PROVE \A p \in Node : pc'[p] \notin Failing
    <2>1. \A p \in Node : pc[p] \notin Failing
      BY DEF SoundInv, NoFailure, Failing
    <2>2. pc[PARENT_ID] \notin {"stopping", "aborting"}
      BY <2>1, NodeFacts DEF Failing
    <2>3. ASSUME AllForked PROVE \A p \in Node : pc'[p] \notin Failing
      BY <1>1, <2>1, <2>3 DEF AllForked, Goto, TypeOK, Failing
    <2>4. ASSUME Reap PROVE \A p \in Node : pc'[p] \notin Failing
      <3>1. pc[PARENT_ID] = "reaping"
        BY <2>2, <2>4 DEF Reap
      <3>2. \A p \in Worker : pc[p] = "exited"
        BY <2>1, <2>4, <3>1, NodeFacts DEF Reap, Over, SoundInv, Failing
      <3>3. pc' = [pc EXCEPT ![PARENT_ID] = "exited"]
        BY <2>4, <3>1, <3>2 DEF Reap, Goto
      <3> QED
        BY <1>1, <2>1, <3>3 DEF TypeOK, Failing
    <2>5. ASSUME NEW n \in Worker, Fork(n) \/ ForkFails(n) \/ StopWorker(n)
          PROVE  \A p \in Node : pc'[p] \notin Failing
      BY <1>1, <2>1, <2>2, <2>5
         DEF Fork, ForkFails, StopWorker, Goto, TypeOK, Failing, Undisturbed
    <2> QED
      BY <1>3, <2>3, <2>4, <2>5 DEF Supervision, Supervise
  <1>4. ASSUME Signals \/ UNCHANGED vars PROVE \A p \in Node : pc'[p] \notin Failing
    BY <1>4 DEF Signals, Kill, Undisturbed, vars, SoundInv, NoFailure, Failing
  <1>5. NoFailure'
    BY <1>2, <1>3, <1>4 DEF Next, NoFailure, Failing
  <1>6. \A p \in Worker : pc'[p] # "reaping"
    BY <1>1 DEF Moves, WorkerMoves, SoundInv, Over
  <1>7. pc'[PARENT_ID] # "boot" => \A p \in Worker : pc'[p] # "unborn"
    <2>1. \A p \in Worker : pc[p] # "unborn" => pc'[p] # "unborn"
      BY <1>1 DEF Moves, WorkerMoves
    <2>2. CASE pc[PARENT_ID] # "boot"
      BY <2>1, <2>2 DEF SoundInv
    <2>3. CASE pc[PARENT_ID] = "boot" /\ pc'[PARENT_ID] # "boot"
      <3>1. pc'[PARENT_ID] \notin {"stopping", "aborting", "killed"}
        BY <1>5, NodeFacts DEF NoFailure
      <3> QED
        BY <1>1, <2>1, <2>3, <3>1 DEF Moves, ParentMoves
    <2> QED
      BY <2>2, <2>3
  <1> QED
    BY <1>5, <1>6, <1>7 DEF SoundInv

(* While nobody is killed, every fork succeeds and no clock comes within two  *)
(* of its maximum, no process ever ends by fatal: dispatch refuses no frame,  *)
(* write_frame meets no closed pipe, await_any misses nobody, and the parent  *)
(* reports success (protocol.c, ipc.c, main.c).                               *)
THEOREM NobodyFails == Spec /\ []Undisturbed => []NoFailure
  <1>1. Init => SoundInv
    BY NodeFacts DEF Init, NothingForked, SoundInv, NoFailure
  <1>2. MutexInv /\ BarrierInv /\ WaysInv /\ EndInv /\ SilentWithoutMutex /\ Undisturbed
          /\ SoundInv /\ [Next]_vars => SoundInv'
    BY SoundStep
  <1>3. SoundInv => NoFailure
    BY DEF SoundInv
  <1> QED
    BY <1>1, <1>2, <1>3, WaysAlways, SilenceCorrect, PTL DEF Spec

-----------------------------------------------------------------------------
(* The refinement of the critical section. *)

claims == [p \in Worker |-> IF Claims(p) THEN Own(p) ELSE -1]
entered == {p \in Worker : pc[p] = "inside"}

LEMMA OrderOfClaims ==
  ASSUME GrantsInOrder, TypeOK, NEW p \in Worker, NEW q \in Worker, p # q,
         pc[p] = "inside", Abstract!Claiming(q), Claims(p)
  PROVE  Abstract!Before(p, q)
  <1>1. Claims(q) /\ claims[q] = Own(q) /\ claims[p] = Own(p)
    BY DEF Abstract!Claiming, Abstract!NoClaim, claims
  <1>2. Earlier(Own(p), p, Own(q), q)
    BY <1>1 DEF GrantsInOrder
  <1> QED
    BY <1>1, <1>2 DEF Abstract!Before, Earlier, claims

(* What a step of n leaves as it is of the others. *)
LEMMA OthersInAbstract ==
  ASSUME MutexInv, NEW n \in Node, NodeNext(n), NEW p \in Worker, p # n
  PROVE  claims'[p] = claims[p] /\ (p \in entered' <=> p \in entered)
  <1>1. ClaimKeeps(p) /\ pc'[p] = pc[p]
    BY InvParts, ClaimOther
  <1> QED
    BY <1>1 DEF ClaimKeeps, claims, entered, Claims, Own

LEMMA InitRefines == Init => Abstract!CsInit
  <1> SUFFICES ASSUME Init PROVE Abstract!CsInit
    OBVIOUS
  <1>1. \A p \in Worker : ~Claims(p) /\ pc[p] # "inside"
    BY NodeFacts DEF Init, NothingForked, Claims
  <1> QED
    BY <1>1 DEF Abstract!CsInit, Abstract!NoClaim

(* A step after which the acting worker's claim and place are what they were. *)
LEMMA StepHidden ==
  ASSUME MutexInv, NEW n \in Node, NodeNext(n),
         n \in Worker => claims'[n] = claims[n] /\ (n \in entered' <=> n \in entered)
  PROVE  UNCHANGED <<claims, entered>>
  <1>1. \A p \in Worker : claims'[p] = claims[p] /\ (p \in entered' <=> p \in entered)
    BY OthersInAbstract
  <1>2. claims' = claims
    BY <1>1 DEF claims
  <1>3. entered' = entered
    BY <1>1 DEF entered
  <1> QED
    BY <1>2, <1>3

LEMMA AbstractVars ==
  /\ UNCHANGED <<claims, entered>> => UNCHANGED Abstract!csVars
  /\ Abstract!NoClaim = -1
  BY DEF claims, entered, Abstract!csVars, Abstract!NoClaim

LEMMA OrderNext == MutexInv' => GrantsInOrder' /\ TypeOK'
  <1>1. MutexInv => GrantsInOrder /\ TypeOK
    BY InvImpliesOrder DEF MutexInv
  <1> QED
    BY <1>1, PTL

LEMMA RequestRefines ==
  ASSUME MutexInv, MutexInv', NEW n \in Node, NodeNext(n), RequestCs(n)
  PROVE  n \in Worker /\ Abstract!Claim(n)
  <1>1. TypeOK /\ TypeOK' /\ GrantsInOrder' /\ ClaimOk(n)' /\ n \in Worker /\ ClaimOk(n)
    BY InvParts, OrderNext, NodeFacts DEF RequestCs, AtWork, TypeOK, MutexInv
  <1>2. ~Claims(n) /\ pc[n] # "inside"
    BY <1>1 DEF RequestCs, AtWork, ClaimOk
  <1>3. pc'[n] = "waiting" /\ Claims(n)'
    BY <1>1 DEF RequestCs, Goto, TypeOK, Claims
  <1>4. Own(n)' \in Timestamp
    BY <1>1, NodeFacts DEF TypeOK, Own
  <1>5. entered' = entered
    <2>1. \A p \in Worker : p \in entered' <=> p \in entered
      BY <1>1, <1>2, <1>3, OthersInAbstract DEF entered
    <2> QED
      BY <2>1 DEF entered
  <1>6. claims' = [claims EXCEPT ![n] = Own(n)']
    <2>1. \A p \in Worker : claims'[p] = IF p = n THEN Own(n)' ELSE claims[p]
      BY <1>1, <1>3, OthersInAbstract DEF claims
    <2> QED
      BY <2>1 DEF claims
  <1>7. ASSUME NEW v \in entered PROVE Abstract!Before(v, n)'
    <2>1. v \in Worker /\ v # n /\ pc'[v] = "inside"
      BY <1>2, <1>5, <1>7 DEF entered
    <2>2. Claims(v)'
      BY <2>1 DEF MutexInv, ClaimOk, Requesting
    <2>3. Earlier(Own(v), v, Own(n), n)'
      BY <1>1, <1>3, <2>1 DEF GrantsInOrder
    <2> QED
      BY <1>1, <1>3, <2>1, <2>2, <2>3 DEF Abstract!Before, Earlier
  <1>8. ~Abstract!Claiming(n)
    BY <1>1, <1>2 DEF Abstract!Claiming, Abstract!NoClaim
  <1> QED
    BY <1>1, <1>4, <1>5, <1>6, <1>7, <1>8 DEF Abstract!Claim, claims, entered

LEMMA EnterRefines ==
  ASSUME MutexInv, MutexInv', NEW n \in Node, NodeNext(n), EnterCs(n)
  PROVE  n \in Worker /\ Abstract!Enter(n)
  <1>1. TypeOK /\ TypeOK' /\ GrantsInOrder' /\ n \in Worker /\ ClaimOk(n)
    BY InvParts, OrderNext, NodeFacts DEF EnterCs, TypeOK
  <1>2. /\ Claims(n) /\ pc'[n] = "inside"
        /\ UNCHANGED <<queued, requested_at>>
    BY <1>1 DEF EnterCs, Goto, TypeOK, ClaimOk, Requesting, cs
  <1>3. claims' = claims
    BY <1>2 DEF claims, Claims, Own
  <1>4. entered' = entered \cup {n}
    <2>1. \A p \in Worker : p \in entered' <=> p \in entered \/ p = n
      BY <1>1, <1>2, OthersInAbstract DEF entered
    <2> QED
      BY <1>1, <2>1 DEF entered
  <1>5. Own(n) \in Nat
    BY <1>1, PairTypes
  <1>6. Abstract!Claiming(n)
    BY <1>1, <1>2, <1>5 DEF Abstract!Claiming, Abstract!NoClaim
  <1>7. ASSUME NEW v \in Worker \ {n}, Abstract!Claiming(v)
        PROVE  Abstract!Before(n, v)
    <2>1. Claims(v)
      BY <1>7 DEF Abstract!Claiming, Abstract!NoClaim
    <2>2. Earlier(Own(n)', n, Own(v)', v) /\ Own(n)' = Own(n) /\ Own(v)' = Own(v)
      BY <1>1, <1>2, <2>1 DEF GrantsInOrder, Claims, Own
    <2> QED
      BY <1>1, <1>2, <2>1, <2>2 DEF Abstract!Before, Earlier
  <1> QED
    BY <1>1, <1>3, <1>4, <1>6, <1>7 DEF Abstract!Enter, claims, entered

LEMMA ReleaseRefines ==
  ASSUME MutexInv, MutexInv', NEW n \in Node, NodeNext(n), ReleaseCs(n)
  PROVE  n \in Worker /\ Abstract!Leave(n)
  <1>1. TypeOK /\ n \in Worker
    BY InvParts, NodeFacts DEF ReleaseCs, TypeOK
  <1>2. pc[n] = "inside" /\ pc'[n] = "work" /\ ~Claims(n)'
    BY <1>1 DEF ReleaseCs, Goto, TypeOK, Claims
  <1>3. entered' = entered \ {n}
    <2>1. \A p \in Worker : p \in entered' <=> p \in entered /\ p # n
      BY <1>1, <1>2, OthersInAbstract DEF entered
    <2> QED
      BY <2>1 DEF entered
  <1>4. claims' = [claims EXCEPT ![n] = -1]
    <2>1. \A p \in Worker : claims'[p] = IF p = n THEN -1 ELSE claims[p]
      BY <1>1, <1>2, OthersInAbstract DEF claims
    <2> QED
      BY <2>1 DEF claims
  <1> QED
    BY <1>1, <1>2, <1>3, <1>4 DEF Abstract!Leave, Abstract!NoClaim, claims, entered

(* The end of a worker, in or out of the critical section. *)
LEMMA EndRefines ==
  ASSUME MutexInv, NEW n \in Node, NEW state \in {"failed", "killed", "stopping", "exited"},
         Goto(n, state), UNCHANGED cs
  PROVE  \/ n \in Worker /\ Abstract!Stop(n)
         \/ UNCHANGED <<claims, entered>>
  <1>1. TypeOK
    BY InvParts
  <1>2. claims' = claims
    BY DEF claims, Claims, Own, cs
  <1>3. entered' = entered \ {n}
    BY <1>1, NodeFacts DEF entered, Goto, TypeOK
  <1>4. CASE n \in entered
    BY <1>2, <1>3, <1>4 DEF Abstract!Stop, claims, entered
  <1>5. CASE n \notin entered
    BY <1>2, <1>3, <1>5
  <1> QED
    BY <1>4, <1>5

LEMMA NodeRefines ==
  ASSUME MutexInv, MutexInv', NEW n \in Node, NodeNext(n)
  PROVE  [Abstract!CsNext]_(Abstract!csVars)
  <1>1. TypeOK
    BY InvParts
  <1>2. CASE RequestCs(n) \/ EnterCs(n) \/ ReleaseCs(n)
    BY <1>2, RequestRefines, EnterRefines, ReleaseRefines DEF Abstract!CsNext
  <1>3. CASE \/ SendOverflow(n) \/ PeersClosed(n)
             \/ \E m \in Node \ {n} : BrokenPipe(n, m) \/ RejectFrame(n, m)
    <2>1. Fatal(n)
      BY <1>3 DEF SendOverflow, PeersClosed, BrokenPipe, RejectFrame
    <2> QED
      BY <2>1, EndRefines, AbstractVars DEF Fatal, Fail, Abstract!CsNext, cs
  <1>4. CASE \/ AnnounceStarted(n) \/ PassStarted(n) \/ PrintOnly(n) \/ AnnounceDone(n)
             \/ PassDone(n)
    <2>1. UNCHANGED cs /\ pc[n] # "inside" /\ pc'[n] # "inside"
      BY <1>1, <1>4 DEF AnnounceStarted, PassStarted, PrintOnly, AnnounceDone, PassDone,
                        AtWork, Goto, TypeOK
    <2> QED
      BY <2>1, StepHidden, AbstractVars DEF claims, entered, Claims, Own, cs
  <1>5. ASSUME NEW m \in Node \ {n}, WriteFrame(n, m)
        PROVE  [Abstract!CsNext]_(Abstract!csVars)
    <2>1. UNCHANGED <<pc, cs>>
      BY <1>5 DEF WriteFrame
    <2> QED
      BY <2>1, StepHidden, AbstractVars DEF claims, entered, Claims, Own, cs
  <1>6. ASSUME NEW m \in Node \ {n},
               \/ ReceiveStarted(n, m) \/ ReceiveDone(n, m) \/ ReceiveRequest(n, m)
               \/ ReceiveReply(n, m) \/ ReceiveRelease(n, m)
        PROVE  [Abstract!CsNext]_(Abstract!csVars)
    <2>1. pc' = pc
      BY <1>6 DEF ReceiveStarted, ReceiveDone, ReceiveRequest, ReceiveReply, ReceiveRelease
    <2>2. (Claims(n)' <=> Claims(n)) /\ requested_at'[n][n] = requested_at[n][n]
      BY <1>1, <1>6 DEF ReceiveStarted, ReceiveDone, ReceiveRequest, ReceiveReply,
                        ReceiveRelease, Claims, TypeOK, cs
    <2> QED
      BY <2>1, <2>2, StepHidden, AbstractVars DEF claims, entered, Own
  <1> QED
    BY <1>2, <1>3, <1>4, <1>5, <1>6 DEF NodeNext, Dispatch

LEMMA StepRefines == MutexInv /\ MutexInv' /\ [Next]_vars => [Abstract!CsNext]_(Abstract!csVars)
  <1> SUFFICES ASSUME MutexInv, MutexInv', [Next]_vars
               PROVE  [Abstract!CsNext]_(Abstract!csVars)
    OBVIOUS
  <1>1. CASE \E n \in Node : NodeNext(n)
    BY <1>1, NodeRefines
  <1>2. CASE Supervision \/ Signals
    <2>1. UNCHANGED cs
      BY <1>2 DEF Supervision, Signals
    <2>2. CASE \E n \in Node, state \in {"failed", "killed", "exited"} : Goto(n, state)
      BY <2>1, <2>2, EndRefines, AbstractVars DEF Abstract!CsNext
    <2>3. CASE \E n \in Node, state \in {"starting", "boot", "aborting"} :
                 pc[n] # "inside" /\ Goto(n, state)
      BY <2>1, <2>3, InvParts, AbstractVars DEF claims, entered, Claims, Own, Goto, TypeOK, cs
    <2> QED
      BY <1>2, <2>2, <2>3, NodeFacts
         DEF Supervision, Signals, Supervise, AllForked, Fork, NextToFork, ForkFails,
             StopWorker, Reap, Kill
  <1>3. CASE UNCHANGED vars
    BY <1>3, AbstractVars DEF vars, claims, entered, Claims, Own
  <1> QED
    BY <1>1, <1>2, <1>3 DEF Next

(* The mutex implements the abstract critical section, for every number of  *)
(* workers, whatever the interleaving and whoever dies (mutex.c).           *)
THEOREM MutexRefines == Spec => ImplementsCriticalSection
  <1> QED
    BY InitRefines, StepRefines, InvCorrect, PTL
       DEF Spec, ImplementsCriticalSection, Abstract!CsSpec
=============================================================================
