--------------------------- MODULE Pa4TurnsProofs ---------------------------
(***************************************************************************)
(* The proof that nobody is overtaken twice in Pa4Turns, for every number   *)
(* of workers and of iterations and whoever dies.  w is the worker that     *)
(* waits and v another one.  A step is described by what it does to v's     *)
(* claim (WorkerSteps) and by what it does to the frames on the way from w  *)
(* to v (WaySteps); TurnStep puts the two together.                         *)
(***************************************************************************)
EXTENDS Pa4Turns, Pa4MutexProofs

-----------------------------------------------------------------------------
(* What a step does to the claim of a worker. *)

ClaimsAnew(v) ==
  /\ ~Claims(v) /\ Claims(v)'
  /\ replied'[v] = {} /\ clock[v] < Own(v)' /\ pc'[v] = "waiting"
  /\ iteration'[v] = iteration[v] + 1

Withdraws(v) ==
  /\ pc[v] = "inside" /\ ~Claims(v)'
  /\ iteration'[v] = iteration[v]

KeepsClaim(v) ==
  /\ SameClaim(v)
  /\ pc'[v] = "inside" => pc[v] = "inside" \/ FirstAndConfirmed(v)
  /\ iteration'[v] = iteration[v]

LEMMA OthersIterate ==
  ASSUME TypeOK, NEW n \in Node, NEW v \in Worker, n # v, NodeNext(n)
  PROVE  iteration'[v] = iteration[v]
  <1> USE NodeFacts DEF TypeOK
  <1>1. CASE RequestCs(n) \/ PrintOnly(n)
    BY <1>1 DEF RequestCs, PrintOnly
  <1>2. CASE ~(RequestCs(n) \/ PrintOnly(n))
    BY <1>2 DEF NodeNext, AnnounceStarted, PassStarted, AnnounceDone, EnterCs, ReleaseCs,
       PassDone, SendOverflow, WriteFrame, BrokenPipe, Dispatch, ReceiveStarted, ReceiveDone,
       ReceiveRequest, ReceiveReply, ReceiveRelease, RejectFrame, PeersClosed, Fatal
  <1> QED
    BY <1>1, <1>2

LEMMA WorkerClaims ==
  ASSUME MutexInv, NEW v \in Worker, RequestCs(v)
  PROVE  ClaimsAnew(v)
  <1>1. TypeOK /\ ClaimOk(v) /\ v \in Node
    BY InvParts, NodeFacts
  <1>2. ~Writing(v) /\ ~Claims(v) /\ Multicast(v, "CS_REQUEST", Peers(v))
    BY <1>1 DEF RequestCs, AtWork, ClaimOk
  <1>3. clock[v] < ClockSend(clock[v])
    BY <1>1, <1>2, MulticastFacts
  <1>4. Own(v)' = ClockSend(clock[v]) /\ Claims(v)' /\ replied'[v] = {}
    BY <1>1 DEF RequestCs, TypeOK, Own, Claims
  <1>5. pc'[v] = "waiting" /\ iteration'[v] = iteration[v] + 1
    BY <1>1 DEF RequestCs, TypeOK, Goto
  <1> QED
    BY <1>2, <1>3, <1>4, <1>5 DEF ClaimsAnew

(* A step of v itself. *)
LEMMA WorkerActs ==
  ASSUME MutexInv, NEW v \in Worker, NodeNext(v), MutexEnabled
  PROVE  ClaimsAnew(v) \/ Withdraws(v) \/ KeepsClaim(v)
  <1>1. TypeOK /\ v \in Node /\ v # PARENT_ID
    BY InvParts, NodeFacts
  <1>2. CASE RequestCs(v)
    BY <1>2, WorkerClaims
  <1>3. CASE ReleaseCs(v)
    BY <1>1, <1>3 DEF ReleaseCs, TypeOK, Withdraws, Claims
  <1>4. CASE EnterCs(v)
    BY <1>1, <1>4 DEF EnterCs, KeepsClaim, SameClaim, Claims, Own, cs
  <1>5. CASE \/ AnnounceStarted(v) \/ PassStarted(v) \/ AnnounceDone(v) \/ PassDone(v)
    BY <1>1, <1>5 DEF AnnounceStarted, PassStarted, AnnounceDone, PassDone, Goto, TypeOK,
       KeepsClaim, SameClaim, Claims, Own, cs
  <1>6. CASE \/ SendOverflow(v) \/ PeersClosed(v)
             \/ \E m \in Node \ {v} : BrokenPipe(v, m) \/ RejectFrame(v, m)
    <2>1. Fatal(v)
      BY <1>6 DEF SendOverflow, PeersClosed, BrokenPipe, RejectFrame
    <2> QED
      BY <1>1, <2>1 DEF Fatal, Fail, Goto, TypeOK, KeepsClaim, SameClaim, Claims, Own, cs
  <1>7. ASSUME NEW m \in Node \ {v}, WriteFrame(v, m)
        PROVE  KeepsClaim(v)
    BY <1>7 DEF WriteFrame, KeepsClaim, SameClaim, Claims, Own, cs
  <1>8. ASSUME NEW m \in Node \ {v},
               ReceiveStarted(v, m) \/ ReceiveDone(v, m) \/ ReceiveReply(v, m)
        PROVE  KeepsClaim(v)
    BY <1>8 DEF ReceiveStarted, ReceiveDone, ReceiveReply, KeepsClaim, SameClaim, Claims, Own, cs
  <1>9. ASSUME NEW m \in Node \ {v}, ReceiveRequest(v, m) \/ ReceiveRelease(v, m)
        PROVE  KeepsClaim(v)
    BY <1>1, <1>9 DEF ReceiveRequest, ReceiveRelease, KeepsClaim, SameClaim, Claims, Own, TypeOK
  <1>10. ~PrintOnly(v)
    BY DEF PrintOnly
  <1> QED
    BY <1>2, <1>3, <1>4, <1>5, <1>6, <1>7, <1>8, <1>9, <1>10 DEF NodeNext, Dispatch

LEMMA WorkerSteps ==
  ASSUME MutexInv, [Next]_vars, NEW v \in Worker, MutexEnabled
  PROVE  ClaimsAnew(v) \/ Withdraws(v) \/ KeepsClaim(v)
  <1>1. TypeOK
    BY InvParts
  <1>2. ASSUME NEW n \in Node, n # v, NodeNext(n)
        PROVE  KeepsClaim(v)
    <2>1. ClaimKeeps(v) /\ pc'[v] = pc[v] /\ iteration'[v] = iteration[v]
      BY <1>1, <1>2, ClaimOther, OthersIterate
    <2> QED
      BY <2>1 DEF KeepsClaim, SameClaim, ClaimKeeps, Claims, Own
  <1>3. CASE Supervision \/ Signals \/ UNCHANGED vars
    <2>1. UNCHANGED <<cs, iteration>>
      BY <1>3 DEF Supervision, Signals, vars, cs
    <2>2. pc'[v] = "inside" => pc[v] = "inside"
      BY <1>1, <1>3, NodeFacts
         DEF Supervision, Signals, Supervise, AllForked, Fork, NextToFork, ForkFails,
             StopWorker, Reap, Kill, Goto, TypeOK, vars
    <2> QED
      BY <2>1, <2>2 DEF KeepsClaim, SameClaim, Claims, Own, cs
  <1> QED
    BY <1>2, <1>3, WorkerActs DEF Next

(* Only request_cs makes a worker wait. *)
LEMMA AskingStep ==
  ASSUME TypeOK, [Next]_vars, NEW w \in Worker, AsksForTurn(w)
  PROVE  MutexEnabled /\ \A v \in Peers(w) : iteration'[v] = iteration[v]
  <1>1. w \in Node /\ pc[w] = "work" /\ pc'[w] = "waiting"
    BY NodeFacts DEF AsksForTurn
  <1>2. ~(Supervision \/ Signals \/ UNCHANGED vars)
    BY <1>1, NodeFacts
       DEF Supervision, Signals, Supervise, AllForked, Fork, NextToFork, ForkFails,
           StopWorker, Reap, Kill, Goto, TypeOK, vars
  <1>3. NodeNext(w)
    BY <1>1, <1>2, ClaimOther DEF Next
  <1>4. MutexEnabled
    BY <1>1, StepMoves DEF Moves, WorkerMoves
  <1> QED
    BY <1>1, <1>3, <1>4, OthersIterate DEF Peers

-----------------------------------------------------------------------------
(* What a step does to the frames on the way from w, which waits, to v.      *)

SameAnswer(w, v) == w \in replied'[v] => w \in replied[v]

LeavesWay(w, v) ==
  /\ SamePipe(w, v) /\ SameAnswer(w, v)
  /\ SameSending(w, v, "CS_REQUEST") /\ SameSending(w, v, "CS_REPLY")

ReadsWay(w, v) ==
  /\ Popped(w, v)
  /\ Head(channel[w][v]).type = "CS_REPLY" \/ SameAnswer(w, v)
  /\ SameSending(w, v, "CS_REQUEST") /\ SameSending(w, v, "CS_REPLY")

WritesWay(w, v) ==
  /\ \E m \in Frame : Appended(w, v, m) /\ Sending(w, v, m.type)
  /\ \A t : ~Sending(w, v, t)'
  /\ SameAnswer(w, v)

AnswersWay(w, v) ==
  /\ SamePipe(w, v) /\ SameAnswer(w, v)
  /\ InPipe(v, w, "CS_REQUEST")
  /\ ~Sending(w, v, "CS_REQUEST") /\ ~Sending(w, v, "CS_REQUEST")'

StepsWay(w, v) == LeavesWay(w, v) \/ ReadsWay(w, v) \/ WritesWay(w, v) \/ AnswersWay(w, v)

(* A step that reads and writes no pipe between w and v. *)
LEMMA WayLeft ==
  ASSUME NEW w \in Worker, NEW v \in Worker,
         SamePipe(w, v), outbox'[w] = outbox[w], SameAnswer(w, v)
  PROVE  StepsWay(w, v)
  BY DEF StepsWay, LeavesWay, SameSending, Sending

LEMMA WaySettled ==
  ASSUME NEW w \in Worker, NEW v \in Worker,
         UNCHANGED <<channel, outbox, replied>>
  PROVE  StepsWay(w, v)
  BY WayLeft DEF SamePipe, SameAnswer

(* w itself writes a frame or takes one. *)
LEMMA WaiterActs ==
  ASSUME MutexInv, NEW w \in Worker, NEW v \in Worker, v # w, NodeNext(w),
         pc[w] = "waiting", pc'[w] = "waiting"
  PROVE  StepsWay(w, v)
  <1>1. TypeOK /\ w \in Node /\ v \in Node /\ w # PARENT_ID
    BY InvParts, NodeFacts
  <1>2. ASSUME NEW m \in Node \ {w}, WriteFrame(w, m)
        PROVE  StepsWay(w, v)
    <2> DEFINE f == [type |-> outbox[w].type, time |-> clock[w]]
    <2>1. /\ f \in Frame /\ Appended(w, m, f)
          /\ Sending(w, m, f.type)
          /\ \A x, y \in Node : x # w \/ y # m => SamePipe(x, y)
          /\ \A x, t : Sending(w, x, t)' <=> Sending(w, x, t) /\ x # m
          /\ UNCHANGED cs
      BY <1>1, <1>2, WriteFacts
    <2> HIDE DEF f
    <2>2. SameAnswer(w, v)
      BY <2>1 DEF SameAnswer, cs
    <2>3. CASE m = v
      BY <2>1, <2>2, <2>3 DEF StepsWay, WritesWay
    <2>4. CASE m # v
      BY <1>1, <2>1, <2>2, <2>4 DEF StepsWay, LeavesWay, SameSending
    <2> QED
      BY <2>3, <2>4
  <1>3. ASSUME NEW m \in Node \ {w}, ReceiveRequest(w, m)
        PROVE  StepsWay(w, v)
    <2>1. /\ Takes(w, m, "CS_REQUEST") /\ UNCHANGED replied
          /\ outbox'[w] = [type |-> "CS_REPLY", to |-> {m}]
      BY <1>1, <1>3 DEF ReceiveRequest, TypeOK, ToWrite
    <2>2. /\ \A x, t : ~Sending(w, x, t)
          /\ \A x, y \in Node : x # m \/ y # w => SamePipe(x, y)
      BY <1>1, <2>1, TakesFacts
    <2>3. InPipe(m, w, "CS_REQUEST")
      BY <1>1, <2>1, TakesShrinks
    <2>4. /\ \A t : Sending(w, v, t)' <=> v = m /\ t = "CS_REPLY"
          /\ SamePipe(w, v) /\ SameAnswer(w, v)
      BY <1>1, <2>1, <2>2 DEF Sending, SameAnswer
    <2>5. CASE m = v
      BY <2>2, <2>3, <2>4, <2>5 DEF StepsWay, AnswersWay
    <2>6. CASE m # v
      BY <2>2, <2>4, <2>6 DEF StepsWay, LeavesWay, SameSending
    <2> QED
      BY <2>5, <2>6
  <1>4. ASSUME NEW m \in Node \ {w}, NEW type, Takes(w, m, type), UNCHANGED outbox,
               \A x \in Worker \ {w} : replied'[x] = replied[x]
        PROVE  StepsWay(w, v)
    <2>1. SamePipe(w, v)
      BY <1>1, <1>4, TakesFacts
    <2> QED
      BY <1>4, <2>1, WayLeft DEF SameAnswer
  <1>5. ASSUME NEW m \in Node \ {w},
               \/ ReceiveStarted(w, m) \/ ReceiveDone(w, m)
               \/ ReceiveReply(w, m) \/ ReceiveRelease(w, m)
        PROVE  StepsWay(w, v)
    <2>1. UNCHANGED outbox /\ \A x \in Worker \ {w} : replied'[x] = replied[x]
      BY <1>1, <1>5, NodeFacts
         DEF ReceiveStarted, ReceiveDone, ReceiveReply, ReceiveRelease, TypeOK, cs
    <2>2. \E type : Takes(w, m, type)
      BY <1>5 DEF ReceiveStarted, ReceiveDone, ReceiveReply, ReceiveRelease
    <2> QED
      BY <1>4, <2>1, <2>2
  <1>6. /\ ~AnnounceStarted(w) /\ ~PassStarted(w) /\ ~RequestCs(w) /\ ~PrintOnly(w)
        /\ ~AnnounceDone(w) /\ ~ReleaseCs(w) /\ ~PassDone(w)
    BY DEF AnnounceStarted, PassStarted, RequestCs, PrintOnly, AnnounceDone, ReleaseCs,
           PassDone, AtWork
  <1>7. ~EnterCs(w)
    BY <1>1 DEF EnterCs, Goto, TypeOK
  <1>8. ~Fatal(w)
    BY <1>1 DEF Fatal, Fail, Goto, TypeOK
  <1> QED
    BY <1>2, <1>3, <1>5, <1>6, <1>7, <1>8
       DEF NodeNext, Dispatch, SendOverflow, PeersClosed, BrokenPipe, RejectFrame

(* Another node acts, v or a third one. *)
LEMMA OtherActs ==
  ASSUME MutexInv, NEW w \in Worker, NEW v \in Worker, v # w,
         NEW n \in Node, n # w, NodeNext(n)
  PROVE  StepsWay(w, v)
  <1>1. TypeOK /\ w \in Node /\ v \in Node
    BY InvParts, NodeFacts
  <1>2. outbox'[w] = outbox[w]
    BY <1>1, ClaimOther DEF ClaimKeeps
  <1>3. /\ SameSending(w, v, "CS_REQUEST") /\ SameSending(w, v, "CS_REPLY")
    BY <1>2 DEF SameSending, Sending
  <1>4. ASSUME NEW m \in Node \ {n}, NEW type, Takes(n, m, type),
               type = "CS_REPLY" \/ SameAnswer(w, v),
               (n = v /\ m = w) \/ SameAnswer(w, v)
        PROVE  StepsWay(w, v)
    <2>1. /\ Popped(m, n) /\ Head(channel[m][n]).type = type
          /\ \A x, y \in Node : x # m \/ y # n => SamePipe(x, y)
      BY <1>1, <1>4, TakesFacts
    <2>2. CASE n = v /\ m = w
      BY <1>3, <1>4, <2>1, <2>2 DEF StepsWay, ReadsWay
    <2>3. CASE ~(n = v /\ m = w)
      BY <1>1, <1>2, <1>4, <2>1, <2>3, WayLeft
    <2> QED
      BY <2>2, <2>3
  <1>5. ASSUME NEW m \in Node \ {n},
               ReceiveStarted(n, m) \/ ReceiveDone(n, m) \/ ReceiveRequest(n, m) \/ ReceiveRelease(n, m)
        PROVE  StepsWay(w, v)
    <2>1. SameAnswer(w, v)
      BY <1>5 DEF ReceiveStarted, ReceiveDone, ReceiveRequest, ReceiveRelease, SameAnswer, cs
    <2>2. \E type : Takes(n, m, type)
      BY <1>5 DEF ReceiveStarted, ReceiveDone, ReceiveRequest, ReceiveRelease
    <2> QED
      BY <1>4, <2>1, <2>2
  <1>6. ASSUME NEW m \in Node \ {n}, ReceiveReply(n, m)
        PROVE  StepsWay(w, v)
    <2>1. Takes(n, m, "CS_REPLY")
      BY <1>6 DEF ReceiveReply
    <2>2. (n = v /\ m = w) \/ SameAnswer(w, v)
      BY <1>1, <1>6 DEF ReceiveReply, SameAnswer, TypeOK
    <2> QED
      BY <1>4, <2>1, <2>2
  <1>7. ASSUME NEW m \in Node \ {n}, WriteFrame(n, m)
        PROVE  StepsWay(w, v)
    <2>1. SamePipe(w, v) /\ UNCHANGED cs
      BY <1>1, <1>7, WriteFacts
    <2> QED
      BY <1>2, <2>1, WayLeft DEF SameAnswer, cs
  <1>8. CASE \/ AnnounceStarted(n) \/ PassStarted(n) \/ RequestCs(n) \/ PrintOnly(n)
             \/ AnnounceDone(n) \/ EnterCs(n) \/ ReleaseCs(n) \/ PassDone(n)
             \/ SendOverflow(n) \/ PeersClosed(n)
             \/ \E m \in Node \ {n} : BrokenPipe(n, m) \/ RejectFrame(n, m)
    <2>1. SamePipe(w, v)
      BY <1>8 DEF AnnounceStarted, PassStarted, RequestCs, PrintOnly, AnnounceDone, EnterCs,
         ReleaseCs, PassDone, SendOverflow, PeersClosed, BrokenPipe, RejectFrame, Fatal, SamePipe
    <2>2. SameAnswer(w, v)
      BY <1>1, <1>8 DEF AnnounceStarted, PassStarted, RequestCs, PrintOnly, AnnounceDone, EnterCs,
         ReleaseCs, PassDone, SendOverflow, PeersClosed, BrokenPipe, RejectFrame, Fatal,
         SameAnswer, TypeOK, cs
    <2> QED
      BY <1>2, <2>1, <2>2, WayLeft
  <1> QED
    BY <1>5, <1>6, <1>7, <1>8 DEF NodeNext, Dispatch

LEMMA WaySteps ==
  ASSUME MutexInv, [Next]_vars, NEW w \in Worker, NEW v \in Worker, v # w,
         pc[w] = "waiting", pc'[w] = "waiting"
  PROVE  StepsWay(w, v)
  <1>1. w \in Node
    BY NodeFacts
  <1>2. CASE Supervision \/ Signals \/ UNCHANGED vars
    BY <1>2, WaySettled DEF Supervision, Signals, vars, cs
  <1> QED
    BY <1>1, <1>2, WaiterActs, OtherActs DEF Next

-----------------------------------------------------------------------------
(* So a request that has arrived stays so, and one that is ahead of all the *)
(* replies remains it until v has read it.                                  *)

RepliesBehind(w, v) == UnderWay(w, v, "CS_REPLY") => AheadOfReplies(w, v)
KnownIfConfirmed(w, v) == w \in replied[v] => Arrived(w, v)

OrderKept(w, v) ==
  /\ Arrived(w, v) => Arrived(w, v)'
  /\ RepliesBehind(w, v) => RepliesBehind(w, v)'
  /\ RepliesBehind(w, v) /\ KnownIfConfirmed(w, v) => KnownIfConfirmed(w, v)'

LEMMA LeftOrder ==
  ASSUME NEW w \in Worker, NEW v \in Worker, LeavesWay(w, v)
  PROVE  OrderKept(w, v)
  BY DEF LeavesWay, SamePipe, SameSending, SameAnswer, OrderKept, RepliesBehind,
     KnownIfConfirmed, Arrived, AheadOfReplies, UnderWay, InPipe

LEMMA AnswerOrder ==
  ASSUME NEW w \in Worker, NEW v \in Worker, RequestOk(v, w), AnswersWay(w, v)
  PROVE  OrderKept(w, v)
  <1>1. ~UnderWay(w, v, "CS_REPLY")
    BY DEF AnswersWay, RequestOk, UnderWay
  <1>2. Arrived(w, v)' <=> Arrived(w, v)
    BY DEF AnswersWay, SamePipe, Arrived, UnderWay, InPipe
  <1>3. Arrived(w, v)' \/ \E i \in DOMAIN channel'[w][v] : channel'[w][v][i].type = "CS_REQUEST"
    BY DEF AnswersWay, Arrived, UnderWay, InPipe
  <1>4. \A j \in DOMAIN channel'[w][v] : channel'[w][v][j].type # "CS_REPLY"
    BY <1>1 DEF AnswersWay, SamePipe, UnderWay, InPipe
  <1>5. AheadOfReplies(w, v)'
    BY <1>3, <1>4 DEF AheadOfReplies
  <1> QED
    BY <1>2, <1>5 DEF AnswersWay, SameAnswer, OrderKept, RepliesBehind, KnownIfConfirmed

LEMMA WriteOrder ==
  ASSUME TypeOK, NEW w \in Worker, NEW v \in Worker, WritesWay(w, v)
  PROVE  OrderKept(w, v)
  <1>1. PICK m \in Frame : Appended(w, v, m) /\ Sending(w, v, m.type)
    BY DEF WritesWay
  <1> DEFINE last == Len(channel[w][v]) + 1
  <1>2. /\ \A i \in DOMAIN channel[w][v] :
             /\ i \in Int /\ i < last /\ i \in DOMAIN channel'[w][v]
             /\ channel'[w][v][i] = channel[w][v][i]
        /\ channel'[w][v][last] = m
        /\ \A i \in DOMAIN channel'[w][v] : i \in DOMAIN channel[w][v] \/ i = last
    BY <1>1, PairTypes, AppendToPipe DEF Appended
  <1> HIDE DEF last
  <1>3. \A t : UnderWay(w, v, t)' => UnderWay(w, v, t)
    BY <1>1, <1>2 DEF WritesWay, UnderWay, InPipe
  <1>4. Arrived(w, v) => Arrived(w, v)'
    BY <1>3 DEF Arrived
  <1>5. AheadOfReplies(w, v) => AheadOfReplies(w, v)'
    BY <1>2, <1>4 DEF AheadOfReplies
  <1> QED
    BY <1>3, <1>4, <1>5
       DEF WritesWay, SameAnswer, OrderKept, RepliesBehind, KnownIfConfirmed

LEMMA ReadOrder ==
  ASSUME TypeOK, NEW w \in Worker, NEW v \in Worker, RequestOk(w, v), ReadsWay(w, v)
  PROVE  OrderKept(w, v)
  <1>1. /\ 1 \in DOMAIN channel[w][v] /\ Head(channel[w][v]) = channel[w][v][1]
        /\ \A i \in DOMAIN channel'[w][v] :
             /\ i \in Int /\ 1 < i + 1 /\ i + 1 \in DOMAIN channel[w][v]
             /\ channel'[w][v][i] = channel[w][v][i + 1]
        /\ \A i \in DOMAIN channel[w][v] :
             i \in Int /\ (i # 1 => i - 1 \in DOMAIN channel'[w][v])
    BY PoppedPipe DEF ReadsWay
  <1>2. \A t : InPipe(w, v, t)' => InPipe(w, v, t)
    BY <1>1 DEF InPipe
  <1>3. /\ Arrived(w, v) => Arrived(w, v)'
        /\ UnderWay(w, v, "CS_REPLY")' => UnderWay(w, v, "CS_REPLY")
    BY <1>2 DEF Arrived, UnderWay, ReadsWay, SameSending
  <1>4. ASSUME NEW i \in DOMAIN channel[w][v], channel[w][v][i].type = "CS_REQUEST",
               \A j \in DOMAIN channel[w][v] : channel[w][v][j].type = "CS_REPLY" => i < j
        PROVE  AheadOfReplies(w, v)'
    <2>1. CASE i = 1
      <3>1. ~Sending(w, v, "CS_REQUEST")
        BY <1>4 DEF RequestOk
      <3>2. \A j \in DOMAIN channel[w][v] : 1 < j => channel[w][v][j].type # "CS_REQUEST"
        BY <1>4, <2>1 DEF RequestOk
      <3>3. \A j \in DOMAIN channel'[w][v] : channel'[w][v][j].type # "CS_REQUEST"
        BY <1>1, <3>2
      <3>4. Arrived(w, v)'
        BY <3>1, <3>3 DEF Arrived, UnderWay, InPipe, ReadsWay, SameSending
      <3> QED
        BY <3>4 DEF AheadOfReplies
    <2>2. CASE i # 1
      <3>1. /\ i - 1 \in DOMAIN channel'[w][v]
            /\ channel'[w][v][i - 1].type = "CS_REQUEST"
        <4>1. i - 1 \in DOMAIN channel'[w][v] /\ i \in Int
          BY <1>1, <2>2
        <4>2. channel'[w][v][i - 1] = channel[w][v][(i - 1) + 1] /\ (i - 1) + 1 = i
          BY <1>1, <4>1
        <4> QED
          BY <1>4, <4>1, <4>2
      <3>2. \A j \in DOMAIN channel'[w][v] : channel'[w][v][j].type = "CS_REPLY" => i - 1 < j
        BY <1>1, <1>4
      <3> QED
        BY <3>1, <3>2 DEF AheadOfReplies
    <2> QED
      BY <2>1, <2>2
  <1>5. AheadOfReplies(w, v) => AheadOfReplies(w, v)'
    BY <1>3, <1>4 DEF AheadOfReplies
  <1>6. Head(channel[w][v]).type = "CS_REPLY" /\ RepliesBehind(w, v) => Arrived(w, v)
    <2> SUFFICES ASSUME channel[w][v][1].type = "CS_REPLY", RepliesBehind(w, v)
                 PROVE  Arrived(w, v)
      BY <1>1
    <2>1. AheadOfReplies(w, v)
      BY <1>1 DEF RepliesBehind, UnderWay, InPipe
    <2>2. \A i \in DOMAIN channel[w][v] : ~(i < 1)
      BY PairTypes, LenProperties
    <2> QED
      BY <1>1, <2>1, <2>2 DEF AheadOfReplies
  <1> QED
    BY <1>3, <1>5, <1>6
       DEF ReadsWay, SameAnswer, OrderKept, RepliesBehind, KnownIfConfirmed

LEMMA WayOrder ==
  ASSUME MutexInv, [Next]_vars, NEW w \in Worker, NEW v \in Worker, v # w,
         pc[w] = "waiting", pc'[w] = "waiting"
  PROVE  OrderKept(w, v)
  <1>1. TypeOK /\ RequestOk(w, v) /\ RequestOk(v, w)
    BY InvParts DEF PairOk
  <1> QED
    BY <1>1, WaySteps, LeftOrder, ReadOrder, WriteOrder, AnswerOrder DEF StepsWay

-----------------------------------------------------------------------------
(* The invariant. *)

(* A request that v has read is in its table, stamped before v's clock. *)
LEMMA ArrivedIsHeld ==
  ASSUME MutexInv, NEW w \in Worker, NEW v \in Worker, v # w,
         pc[w] = "waiting", Arrived(w, v)
  PROVE  Held(w, v)
  BY InvParts DEF PairOk, RequestOk, ClaimOk, Requesting, Arrived

(* v cannot enter ahead of an earlier request that it has read. *)
LEMMA NotFirst ==
  ASSUME MutexInv, NEW w \in Worker, NEW v \in Worker, v # w,
         pc[w] = "waiting", Arrived(w, v), Own(w) < Own(v)
  PROVE  ~FirstAndConfirmed(v)
  BY ArrivedIsHeld DEF Held, FirstAndConfirmed, Peers, Earlier, Own

(* A worker whose turn has come has read the requests of all that answered. *)
LEMMA InsideKnows ==
  ASSUME MutexInv, NEW w \in Worker, NEW v \in Worker, v # w, pc[v] = "inside",
         KnownIfConfirmed(w, v)
  PROVE  Claims(v) /\ Arrived(w, v)
  BY InvParts DEF ClaimOk, Requesting, FirstAndConfirmed, Peers, KnownIfConfirmed

LEMMA WaiterKeeps ==
  ASSUME MutexInv, [Next]_vars, NEW w \in Worker, MutexEnabled,
         pc[w] = "waiting", pc'[w] = "waiting"
  PROVE  Own(w)' = Own(w)
  <1>1. Claims(w)
    BY InvParts DEF ClaimOk, Requesting
  <1>2. KeepsClaim(w)
    BY <1>1, WorkerSteps DEF ClaimsAnew, Withdraws
  <1> QED
    BY <1>2 DEF KeepsClaim, SameClaim

LEMMA TurnStep ==
  ASSUME MutexInv, [Next]_vars, NEW w \in Worker, NEW v \in Worker, v # w, MutexEnabled,
         began \in [Worker -> [Worker -> Nat]], began'[w] = began[w],
         pc[w] = "waiting", pc'[w] = "waiting", TurnOk(w, v)
  PROVE  TurnOk(w, v)'
  <1>1. Own(w)' = Own(w) /\ OrderKept(w, v)
    BY WaiterKeeps, WayOrder
  <1>2. /\ iteration[v] \in Nat /\ began[w][v] \in Nat
        /\ Own(w) \in Nat /\ clock[v] \in Nat
    <2>1. TypeOK
      BY InvParts
    <2>2. Own(w) \in Nat /\ clock[v] \in Nat
      BY <2>1, PairTypes
    <2> QED
      BY <2>1, <2>2, NodeFacts DEF TypeOK
  <1>3. Meanwhile(w, v) \in {0, 1, 2}
    BY DEF TurnOk
  <1>4. CASE ClaimsAnew(v)
    <2>1. ~UnderWay(w, v, "CS_REPLY") /\ ~Claims(v)
      BY <1>4, InvParts DEF PairOk, ReplyOk, ClaimsAnew
    <2>2. RepliesBehind(w, v)'
      BY <1>1, <2>1 DEF OrderKept, RepliesBehind
    <2>3. Meanwhile(w, v)' = Meanwhile(w, v) + 1
      BY <1>2, <1>4 DEF Meanwhile, ClaimsAnew
    <2>4. Meanwhile(w, v) \in {0, 1}
      BY <1>3, <2>1 DEF TurnOk
    <2>5. ASSUME Meanwhile(w, v) = 1
          PROVE  Arrived(w, v)' /\ Own(w)' < Own(v)'
      <3>1. Arrived(w, v)
        BY <2>1, <2>5 DEF TurnOk
      <3>2. Own(w) < clock[v] /\ clock[v] < Own(v)'
        BY <1>4, <3>1, ArrivedIsHeld DEF Held, ClaimsAnew
      <3>3. Own(v)' \in Nat
        <4>1. TypeOK'
          BY InvStep, OrderNext
        <4>2. v \in Node /\ requested_at' \in [Node -> [Node -> Timestamp]]
          BY <4>1, NodeFacts DEF TypeOK
        <4>3. Own(v)' \in Timestamp
          BY <4>2 DEF Own
        <4> QED
          BY <4>3, ClockFacts
      <3>4. Own(w)' < Own(v)'
        BY <1>1, <1>2, <3>2, <3>3
      <3> QED
        BY <1>1, <3>1, <3>4 DEF OrderKept
    <2> QED
      BY <1>4, <2>2, <2>3, <2>4, <2>5 DEF TurnOk, ClaimsAnew, RepliesBehind
  <1>5. CASE Withdraws(v)
    <2>1. Meanwhile(w, v)' = Meanwhile(w, v)
      BY <1>5 DEF Meanwhile, Withdraws
    <2>2. Meanwhile(w, v) \in {0, 1}
      BY <1>3, <1>5 DEF TurnOk, Withdraws
    <2>3. Meanwhile(w, v) = 1 => Arrived(w, v)'
      <3> SUFFICES ASSUME Meanwhile(w, v) = 1 PROVE Arrived(w, v)'
        OBVIOUS
      <3>1. Claims(v)
        BY <1>5, InvParts DEF Withdraws, ClaimOk, Requesting
      <3>2. Arrived(w, v)
        BY <1>5, <3>1, InsideKnows DEF TurnOk, KnownIfConfirmed, Withdraws
      <3> QED
        BY <1>1, <3>2 DEF OrderKept
    <2> QED
      BY <1>5, <2>1, <2>2, <2>3 DEF TurnOk, Withdraws
  <1>6. CASE KeepsClaim(v)
    <2>1. Meanwhile(w, v)' = Meanwhile(w, v) /\ (Claims(v)' <=> Claims(v)) /\ Own(v)' = Own(v)
      BY <1>6 DEF Meanwhile, KeepsClaim, SameClaim
    <2>2. ASSUME Meanwhile(w, v) = 2
          PROVE  pc'[v] # "inside"
      <3>1. Arrived(w, v) /\ Own(w) < Own(v) /\ pc[v] # "inside"
        BY <2>2 DEF TurnOk
      <3> QED
        BY <1>6, <3>1, NotFirst DEF KeepsClaim
    <2>3. ASSUME Meanwhile(w, v) = 1, Claims(v)
          PROVE  RepliesBehind(w, v)' /\ KnownIfConfirmed(w, v)'
      BY <1>1, <2>3 DEF TurnOk, OrderKept, RepliesBehind, KnownIfConfirmed
    <2>4. Arrived(w, v) => Arrived(w, v)'
      BY <1>1 DEF OrderKept
    <2> QED
      BY <1>1, <1>3, <2>1, <2>2, <2>3, <2>4 DEF TurnOk, RepliesBehind, KnownIfConfirmed
  <1> QED
    BY <1>4, <1>5, <1>6, WorkerSteps

(* When w asks for its turn nobody has passed it. *)
LEMMA TurnAsked ==
  ASSUME TypeOK, [Next]_vars, Remember, NEW w \in Worker, AsksForTurn(w), NEW v \in Peers(w)
  PROVE  TurnOk(w, v)' /\ MutexEnabled
  <1>1. iteration[v] \in Nat /\ v \in Worker
    BY NodeFacts DEF TypeOK, Peers
  <1>2. iteration'[v] = iteration[v] /\ MutexEnabled
    BY AskingStep
  <1>3. began'[w][v] = iteration[v]
    BY <1>1 DEF Remember
  <1>4. Meanwhile(w, v)' = 0
    BY <1>1, <1>2, <1>3 DEF Meanwhile
  <1> QED
    BY <1>2, <1>4 DEF TurnOk

LEMMA TurnsInitially == TurnsInit => MutexInv /\ TurnsInv
  <1> SUFFICES ASSUME TurnsInit PROVE MutexInv /\ TurnsInv
    OBVIOUS
  <1>1. MutexInv
    BY InvInit DEF TurnsInit
  <1>2. \A w \in Worker : pc[w] # "waiting"
    BY NodeFacts DEF TurnsInit, Init, NothingForked
  <1> QED
    BY <1>1, <1>2 DEF TurnsInv, TurnsInit, NothingBegan

LEMMA TurnsStep ==
  MutexInv /\ TurnsInv /\ [TurnsNext]_turnsVars => MutexInv' /\ TurnsInv'
  <1> SUFFICES ASSUME MutexInv, TurnsInv, [TurnsNext]_turnsVars
               PROVE  MutexInv' /\ TurnsInv'
    OBVIOUS
  <1>1. TypeOK /\ [Next]_vars /\ began \in [Worker -> [Worker -> Nat]]
    BY InvParts DEF TurnsNext, turnsVars, TurnsInv
  <1>2. MutexInv'
    BY <1>1, InvStep
  <1>3. /\ began' \in [Worker -> [Worker -> Nat]]
        /\ \A w \in Worker : ~AsksForTurn(w) => began'[w] = began[w]
    <2>1. CASE Remember
      <3>1. \A v \in Worker : iteration[v] \in Nat
        BY <1>1, NodeFacts DEF TypeOK
      <3> QED
        BY <1>1, <2>1, <3>1 DEF Remember
    <2>2. CASE UNCHANGED began
      BY <1>1, <2>2
    <2> QED
      BY <2>1, <2>2 DEF TurnsNext, turnsVars
  <1>4. ASSUME NEW w \in Worker, pc'[w] = "waiting", NEW v \in Peers(w)
        PROVE  MutexEnabled /\ TurnOk(w, v)'
    <2>1. v \in Worker /\ v # w
      BY DEF Peers
    <2>2. CASE pc[w] = "waiting"
      <3>1. MutexEnabled /\ TurnOk(w, v) /\ began'[w] = began[w]
        BY <1>3, <2>2 DEF TurnsInv, AsksForTurn
      <3> QED
        BY <1>1, <1>4, <2>1, <2>2, <3>1, TurnStep
    <2>3. CASE AsksForTurn(w)
      <3>1. Remember
        BY <2>3 DEF TurnsNext, turnsVars, AsksForTurn, vars
      <3> QED
        BY <1>1, <2>3, <3>1, TurnAsked
    <2>4. pc[w] = "waiting" \/ AsksForTurn(w)
      BY <1>1, <1>4, StepMoves DEF Moves, WorkerMoves, AsksForTurn
    <2> QED
      BY <2>2, <2>3, <2>4
  <1>5. ASSUME NEW w \in Worker, pc'[w] = "waiting"
        PROVE  MutexEnabled
    BY <1>1, <1>5, StepMoves DEF Moves, WorkerMoves, TurnsInv
  <1> QED
    BY <1>2, <1>3, <1>4, <1>5 DEF TurnsInv, Peers

(* While a worker waits for its turn, no other is granted more than one of *)
(* the claims it makes meanwhile: for every number of workers and of       *)
(* iterations, however the frames cross and whoever dies.                  *)
THEOREM TurnsBounded == TurnsSpec => []NobodyOvertakesTwice
  <1>1. MutexInv /\ TurnsInv => NobodyOvertakesTwice
    <2> SUFFICES ASSUME MutexInv, TurnsInv, NEW v \in Worker, NEW w \in Worker,
                        pc[w] = "waiting", v # w
                 PROVE  Granted(v) <= began[w][v] + 1
      BY DEF NobodyOvertakesTwice
    <2>1. TurnOk(w, v)
      BY DEF TurnsInv, Peers
    <2>2. iteration[v] \in Nat /\ began[w][v] \in Nat
      BY InvParts, NodeFacts DEF TypeOK, TurnsInv
    <2> QED
      BY <2>1, <2>2 DEF TurnOk, Meanwhile, Granted
  <1> QED
    BY <1>1, TurnsInitially, TurnsStep, PTL DEF TurnsSpec
=============================================================================
