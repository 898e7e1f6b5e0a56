-------------------------- MODULE Pa1BarrierProofs --------------------------
(***************************************************************************)
(* Proofs about Pa1Barrier, for every number of workers, every capacity of a *)
(* pipe and whichever processes die or forks fail: both barriers hold, no    *)
(* message is dropped, no process fails without a cause, and the exit status *)
(* of the parent is true.                                                    *)
(***************************************************************************)
EXTENDS Pa1Barrier, SequenceTheorems, TLAPS

-----------------------------------------------------------------------------
(* The invariant.  Every worker sends STARTED and then DONE into each pipe:  *)
(* what p has taken from q's pipe and what is still in it is what q has      *)
(* written.                                                                  *)

Kind(n) == IF n = 1 THEN "STARTED" ELSE "DONE"

Taken(p, q) ==
  (IF phase[p] = "DONE" THEN 1 ELSE 0) + (IF q \in received[p] THEN 1 ELSE 0)
Written(q, p) ==
  (IF phase[q] = "DONE" THEN 1 ELSE 0) + (IF p \in to[q] THEN 0 ELSE 1)
Sent(q, p) == Taken(p, q) + Len(channel[q][p])

(* Whoever is through with the second barrier has nothing left to do in it. *)
NodeOk(p) ==
  /\ phase[p] = "DONE" => pc[p] \notin {"unborn", "boot"}
  /\ pc[p] \in {"exited", "reaping"} => phase[p] = "DONE" /\ to[p] = {} /\ Missing(p) = {}
  /\ p = PARENT_ID => to[p] = {} /\ pc[p] # "unborn"
  /\ p \in Worker => pc[p] \notin {"reaping", "giving_up"}

PipeOk(q, p) ==
  /\ Sent(q, p) <= 2
  /\ \A i \in DOMAIN channel[q][p] : channel[q][p][i] = Kind(Taken(p, q) + i)
  /\ Sent(q, p) > 0 => pc[q] \notin {"unborn", "boot"}
  /\ Sent(q, p) = 2 => phase[q] = "DONE"
  /\ pc[q] \in {"barrier", "exited"} => Sent(q, p) = Written(q, p)

NodesOk == \A p \in Node : NodeOk(p)
PipesOk == \A q \in Worker : \A p \in Node : p # q => PipeOk(q, p)

BarrierInv == TypeOK /\ NodesOk /\ PipesOk /\ FailureHasCause /\ ParentReports

LEMMA NodeFacts ==
  /\ PARENT_ID \in Node /\ PARENT_ID \notin Worker
  /\ Worker \subseteq Node /\ Node \subseteq Nat
  /\ \A p \in Node : p # PARENT_ID => p \in Worker
  BY Pa1Assumption DEF PARENT_ID, Node, Worker

LEMMA PipeTypes ==
  ASSUME TypeOK, NEW q \in Node, NEW p \in Node
  PROVE  /\ channel[q][p] \in Seq(MessageType) /\ Len(channel[q][p]) \in Nat
         /\ DOMAIN channel[q][p] = 1..Len(channel[q][p])
         /\ Taken(p, q) \in {0, 1, 2} /\ Written(q, p) \in {0, 1, 2}
         /\ phase[p] \in {"STARTED", "DONE"}
  <1>1. channel[q][p] \in Seq(MessageType) /\ phase[p] \in {"STARTED", "DONE"}
    BY DEF TypeOK, MessageType
  <1>2. Len(channel[q][p]) \in Nat /\ DOMAIN channel[q][p] = 1..Len(channel[q][p])
    BY <1>1, LenProperties
  <1> QED
    BY <1>1, <1>2 DEF Taken, Written

-----------------------------------------------------------------------------
(* Types. *)

LEMMA TypeStep == TypeOK /\ [Next]_vars => TypeOK'
  <1> SUFFICES ASSUME TypeOK, [Next]_vars PROVE TypeOK'
    OBVIOUS
  <1> USE NodeFacts
  <1>1. \A n \in Node, state \in State :
          Goto(n, state) /\ UNCHANGED data => TypeOK'
    BY DEF Goto, data, TypeOK
  <1>2. {"boot", "barrier", "giving_up", "failed", "sigpipe", "killed", "exited", "reaping"}
          \subseteq State
    BY DEF State, Over
  <1>3. ASSUME NEW n \in Node,
               \/ PassDone(n) \/ Kill(n)
               \/ \E m \in Node \ {n} : BrokenPipe(n, m) \/ ReceiveFails(n, m)
        PROVE  TypeOK'
    BY <1>1, <1>2, <1>3 DEF PassDone, Kill, BrokenPipe, ReceiveFails, Fail
  <1>4. CASE ParentNext
    <2>1. ASSUME NEW p \in Worker, Fork(p) \/ ForkFails(p)
          PROVE  TypeOK'
      BY <1>1, <1>2, <2>1 DEF Fork, ForkFails
    <2>2. CASE AllForked \/ Reap
      BY <1>1, <1>2, <2>2 DEF AllForked, Reap
    <2> QED
      BY <1>4, <2>1, <2>2 DEF ParentNext
  <1>5. ASSUME NEW n \in Node, StartChild(n)
        PROVE  TypeOK'
    BY <1>2, <1>5 DEF StartChild, Goto, TypeOK
  <1>6. ASSUME NEW n \in Node, PassStarted(n)
        PROVE  TypeOK'
    <2> DEFINE targets == IF n = PARENT_ID THEN {} ELSE Node \ {n}
    <2>1. targets \in SUBSET Node /\ n \notin targets
      OBVIOUS
    <2>2. to' = [to EXCEPT ![n] = targets]
      BY <1>6 DEF PassStarted
    <2> HIDE DEF targets
    <2>3. to' \in [Node -> SUBSET Node] /\ \A p \in Node : p \notin to'[p]
      BY <2>1, <2>2 DEF TypeOK
    <2>4. received' \in [Node -> SUBSET Worker] /\ source' \in [Node -> Node]
      BY <1>6 DEF PassStarted, TypeOK, PARENT_ID
    <2>5. phase' \in [Node -> MessageType] /\ UNCHANGED <<pc, channel>>
      BY <1>6 DEF PassStarted, TypeOK, MessageType
    <2> QED
      BY <2>3, <2>4, <2>5 DEF TypeOK
  <1>7. ASSUME NEW n \in Node, NEW m \in Node \ {n}, Send(n, m)
        PROVE  TypeOK'
    <2>1. Append(channel[n][m], phase[n]) \in Seq(MessageType)
      BY AppendProperties DEF TypeOK
    <2> QED
      BY <1>7, <2>1 DEF Send, TypeOK
  <1>8. ASSUME NEW n \in Node, NEW m \in Node \ {n}, Receive(n, m)
        PROVE  TypeOK'
    <2>1. Tail(channel[m][n]) \in Seq(MessageType)
      BY <1>8, HeadTailProperties DEF Receive, TypeOK
    <2>2. m \in Worker
      BY <1>8 DEF Receive, Waiting, NextSource, Missing
    <2> QED
      BY <1>8, <2>1, <2>2 DEF Receive, TypeOK
  <1>9. CASE UNCHANGED vars
    BY <1>9 DEF vars, TypeOK
  <1> QED
    BY <1>3, <1>4, <1>5, <1>6, <1>7, <1>8, <1>9 DEF Next, NodeNext

-----------------------------------------------------------------------------
(* How a step touches a pipe: most steps leave it alone. *)

QuietPc(q) ==
  \/ pc'[q] = pc[q]
  \/ pc'[q] \in {"failed", "sigpipe", "killed"}
  \/ pc[q] = "unborn" /\ pc'[q] = "boot"
  \/ pc[q] = "barrier" /\ pc'[q] = "exited"

LEMMA PipeKept ==
  ASSUME NEW q \in Worker, NEW p \in Node, PipeOk(q, p), TypeOK, QuietPc(q),
         channel'[q][p] = channel[q][p], Taken(p, q)' = Taken(p, q),
         phase'[q] = phase[q], p \in to'[q] <=> p \in to[q]
  PROVE  PipeOk(q, p)'
  <1>1. Sent(q, p)' = Sent(q, p) /\ Written(q, p)' = Written(q, p)
    BY DEF Sent, Written
  <1>2. Sent(q, p) \in Nat
    <2>1. q \in Node
      BY NodeFacts
    <2>2. Len(channel[q][p]) \in Nat /\ Taken(p, q) \in {0, 1, 2}
      BY <2>1, PipeTypes
    <2> QED
      BY <2>2 DEF Sent
  <1>3. pc[q] = "unborn" => Sent(q, p) = 0
    BY <1>2 DEF PipeOk
  <1> QED
    BY <1>1, <1>2, <1>3 DEF PipeOk, QuietPc

(* q writes its message of this phase into the pipe. *)
LEMMA PipeAppended ==
  ASSUME NEW q \in Worker, NEW p \in Node, PipeOk(q, p), TypeOK, p # q,
         pc[q] = "barrier", p \in to[q], Send(q, p)
  PROVE  PipeOk(q, p)'
  <1>1. /\ channel[q][p] \in Seq(MessageType) /\ Len(channel[q][p]) \in Nat
        /\ DOMAIN channel[q][p] = 1..Len(channel[q][p])
        /\ Taken(p, q) \in {0, 1, 2} /\ phase[q] \in MessageType
    BY PipeTypes, NodeFacts DEF TypeOK
  <1>2. /\ channel'[q][p] = Append(channel[q][p], phase[q])
        /\ p \notin to'[q] /\ UNCHANGED <<pc, phase, received>>
    BY NodeFacts DEF Send, TypeOK
  <1>3. /\ Len(channel'[q][p]) = Len(channel[q][p]) + 1
        /\ DOMAIN channel'[q][p] = 1..(Len(channel[q][p]) + 1)
        /\ channel'[q][p][Len(channel[q][p]) + 1] = phase[q]
        /\ \A i \in 1..Len(channel[q][p]) : channel'[q][p][i] = channel[q][p][i]
    BY <1>1, <1>2, AppendProperties
  <1>4. Sent(q, p) = IF phase[q] = "DONE" THEN 1 ELSE 0
    BY DEF PipeOk, Written
  <1>5. Taken(p, q)' = Taken(p, q) /\ Sent(q, p)' = Sent(q, p) + 1
    <2>1. Taken(p, q)' = Taken(p, q)
      BY <1>2 DEF Taken
    <2>2. Sent(q, p)' = Taken(p, q) + Len(channel'[q][p])
      BY <2>1 DEF Sent
    <2>3. Sent(q, p) = Taken(p, q) + Len(channel[q][p])
      BY DEF Sent
    <2> PICK t, l : t = Taken(p, q) /\ l = Len(channel[q][p])
      OBVIOUS
    <2>4. t \in Nat /\ l \in Nat
      BY <1>1
    <2>5. Sent(q, p)' = t + (l + 1) /\ Sent(q, p) = t + l
      BY <1>3, <2>2, <2>3
    <2> QED
      BY <2>1, <2>4, <2>5
  <1>6. phase[q] = Kind(Sent(q, p) + 1)
    BY <1>1, <1>4 DEF Kind, MessageType
  <1>7. Written(q, p)' = IF phase[q] = "DONE" THEN 2 ELSE 1
    BY <1>2 DEF Written
  <1>8. ASSUME NEW i \in DOMAIN channel'[q][p]
        PROVE  channel'[q][p][i] = Kind(Taken(p, q) + i)
    <2>1. CASE i \in DOMAIN channel[q][p]
      BY <1>1, <1>3, <2>1 DEF PipeOk
    <2>2. CASE i = Len(channel[q][p]) + 1
      <3>1. Sent(q, p) + 1 = Taken(p, q) + i
        BY <1>1, <2>2 DEF Sent
      <3> QED
        BY <1>3, <1>6, <2>2, <3>1
    <2> QED
      BY <1>1, <1>3, <2>1, <2>2
  <1> QED
    BY <1>1, <1>2, <1>4, <1>5, <1>7, <1>8 DEF PipeOk

(* p takes a message it awaits: the first one that is left. *)
LEMMA HeadAwaited ==
  ASSUME NEW q \in Worker, NEW p \in Node, PipeOk(q, p), TypeOK,
         channel[q][p] # <<>>, q \notin received[p]
  PROVE  Head(channel[q][p]) = phase[p]
  <1>1. channel[q][p] \in Seq(MessageType) /\ phase[p] \in {"STARTED", "DONE"}
    BY PipeTypes, NodeFacts
  <1>2. 1 \in DOMAIN channel[q][p] /\ Head(channel[q][p]) = channel[q][p][1]
    BY <1>1, HeadTailProperties
  <1>3. channel[q][p][1] = Kind(Taken(p, q) + 1)
    BY <1>2 DEF PipeOk
  <1>4. Taken(p, q) = IF phase[p] = "DONE" THEN 1 ELSE 0
    BY DEF Taken
  <1> QED
    BY <1>1, <1>2, <1>3, <1>4 DEF Kind

LEMMA PipePopped ==
  ASSUME NEW q \in Worker, NEW p \in Node, PipeOk(q, p), TypeOK, p # q, Receive(p, q)
  PROVE  PipeOk(q, p)'
  <1>1. /\ channel[q][p] \in Seq(MessageType) /\ channel[q][p] # <<>>
        /\ Len(channel[q][p]) \in Nat /\ DOMAIN channel[q][p] = 1..Len(channel[q][p])
        /\ Taken(p, q) \in {0, 1, 2}
    BY PipeTypes, NodeFacts DEF Receive
  <1>2. q \notin received[p]
    BY DEF Receive, Waiting, NextSource, Missing
  <1>3. /\ received'[p] = received[p] \cup {q}
        /\ channel'[q][p] = Tail(channel[q][p])
        /\ UNCHANGED <<pc, phase, to>>
    BY <1>1, <1>2, HeadAwaited, NodeFacts DEF Receive, TypeOK
  <1>4. /\ Len(channel'[q][p]) = Len(channel[q][p]) - 1
        /\ DOMAIN channel'[q][p] = 1..(Len(channel[q][p]) - 1)
        /\ \A i \in 1..(Len(channel[q][p]) - 1) : channel'[q][p][i] = channel[q][p][i + 1]
    BY <1>1, <1>3, HeadTailProperties
  <1>5. Taken(p, q)' = Taken(p, q) + 1
    BY <1>2, <1>3 DEF Taken
  <1>6. Sent(q, p)' = Sent(q, p) /\ Written(q, p)' = Written(q, p)
    BY <1>1, <1>3, <1>4, <1>5 DEF Sent, Written
  <1>7. ASSUME NEW i \in DOMAIN channel'[q][p]
        PROVE  channel'[q][p][i] = Kind(Taken(p, q) + 1 + i)
    <2>1. i + 1 \in DOMAIN channel[q][p] /\ i \in Nat
      BY <1>1, <1>4
    <2>2. Taken(p, q) + (i + 1) = Taken(p, q) + 1 + i
      BY <1>1, <2>1
    <2> QED
      BY <1>4, <2>1, <2>2 DEF PipeOk
  <1> QED
    BY <1>3, <1>5, <1>6, <1>7 DEF PipeOk

(* n passes the first barrier: what it has taken and what it has written so   *)
(* far is now due to the first phase.                                         *)
LEMMA PipePassed ==
  ASSUME NEW q \in Worker, NEW p \in Node, PipeOk(q, p), TypeOK, p # q,
         NEW n \in Node, PassStarted(n), NodeOk(n)
  PROVE  PipeOk(q, p)'
  <1>1. /\ pc[n] = "barrier" /\ to[n] = {} /\ Missing(n) = {} /\ phase[n] = "STARTED"
        /\ UNCHANGED <<pc, channel>>
    BY DEF PassStarted, Heard
  <1>2. /\ phase' = [phase EXCEPT ![n] = "DONE"]
        /\ received' = [received EXCEPT ![n] = {}]
        /\ to' = [to EXCEPT ![n] = IF n = PARENT_ID THEN {} ELSE Node \ {n}]
    BY DEF PassStarted
  <1>3. Taken(p, q)' = Taken(p, q)
    <2>1. CASE n = p
      <3>1. q \in received[p]
        BY <1>1, <2>1 DEF Missing
      <3>2. phase'[p] = "DONE" /\ received'[p] = {}
        BY <1>2, <2>1 DEF TypeOK
      <3> QED
        BY <1>1, <2>1, <3>1, <3>2 DEF Taken
    <2>2. CASE n # p
      BY <1>2, <2>2 DEF Taken, TypeOK
    <2> QED
      BY <2>1, <2>2
  <1>4. Sent(q, p)' = Sent(q, p)
    BY <1>1, <1>3 DEF Sent
  <1>5. CASE n = q
    <2>1. phase'[q] = "DONE" /\ to'[q] = Node \ {q}
      BY <1>2, <1>5, NodeFacts DEF TypeOK
    <2>2. Written(q, p)' = 1
      BY <2>1 DEF Written
    <2>3. Written(q, p) = 1
      BY <1>1, <1>5 DEF Written
    <2> QED
      BY <1>1, <1>3, <1>4, <1>5, <2>1, <2>2, <2>3 DEF PipeOk
  <1>6. CASE n # q
    <2>1. phase'[q] = phase[q] /\ to'[q] = to[q]
      BY <1>2, <1>6, NodeFacts DEF TypeOK
    <2> QED
      BY <1>1, <1>3, <2>1, PipeKept DEF QuietPc
  <1> QED
    BY <1>5, <1>6

(* A child that begins has written and taken nothing. *)
LEMMA PipeStarted ==
  ASSUME NEW q \in Worker, NEW p \in Node, PipeOk(q, p), TypeOK, p # q,
         NEW n \in Node, StartChild(n), NodeOk(n)
  PROVE  PipeOk(q, p)'
  <1>1. /\ pc[n] = "boot" /\ pc' = [pc EXCEPT ![n] = "barrier"]
        /\ to' = [to EXCEPT ![n] = Node \ {n}]
        /\ UNCHANGED <<phase, received, channel>>
    BY DEF StartChild, Goto
  <1>2. Taken(p, q)' = Taken(p, q) /\ Sent(q, p)' = Sent(q, p)
    BY <1>1 DEF Taken, Sent
  <1>3. CASE n = q
    <2>1. Sent(q, p) = 0
      <3>1. Taken(p, q) \in {0, 1, 2} /\ Len(channel[q][p]) \in Nat
        BY PipeTypes, NodeFacts
      <3>2. ~(Sent(q, p) > 0)
        BY <1>1, <1>3 DEF PipeOk
      <3> QED
        BY <3>1, <3>2 DEF Sent
    <2>2. phase[q] # "DONE"
      BY <1>1, <1>3 DEF NodeOk
    <2>3. pc'[q] = "barrier" /\ p \in to'[q]
      BY <1>1, <1>3, NodeFacts DEF TypeOK
    <2>4. Written(q, p)' = 0
      BY <1>1, <2>2, <2>3 DEF Written
    <2> QED
      BY <1>1, <1>2, <2>1, <2>3, <2>4 DEF PipeOk
  <1>4. CASE n # q
    <2>1. pc'[q] = pc[q] /\ to'[q] = to[q]
      BY <1>1, <1>4, NodeFacts DEF TypeOK
    <2> QED
      BY <1>1, <1>2, <2>1, PipeKept DEF QuietPc
  <1> QED
    BY <1>3, <1>4

LEMMA PipeTouched ==
  ASSUME NEW q \in Worker, NEW p \in Node, PipeOk(q, p), TypeOK, p # q,
         NEW n \in Node, NEW m \in Node \ {n}, Send(n, m) \/ Receive(n, m)
  PROVE  PipeOk(q, p)'
  <1>1. CASE Send(n, m)
    <2>1. pc[n] = "barrier" /\ m \in to[n]
      BY <1>1 DEF Send, NextTarget
    <2>2. CASE n = q /\ m = p
      BY <1>1, <2>1, <2>2, PipeAppended
    <2>3. CASE ~(n = q /\ m = p)
      <3>1. /\ channel'[q][p] = channel[q][p] /\ (p \in to'[q] <=> p \in to[q])
            /\ UNCHANGED <<pc, phase, received>>
        BY <1>1, <2>3, NodeFacts DEF Send, TypeOK
      <3> QED
        BY <3>1, PipeKept DEF QuietPc, Taken
    <2> QED
      BY <2>2, <2>3
  <1>2. CASE Receive(n, m)
    <2>1. CASE m = q /\ n = p
      BY <1>2, <2>1, PipePopped
    <2>2. CASE ~(m = q /\ n = p)
      <3>1. channel'[q][p] = channel[q][p] /\ UNCHANGED <<pc, phase, to>>
        BY <1>2, <2>2, NodeFacts DEF Receive, TypeOK
      <3>2. q \in received'[p] <=> q \in received[p]
        BY <1>2, <2>2, NodeFacts DEF Receive, TypeOK
      <3> QED
        BY <3>1, <3>2, PipeKept DEF QuietPc, Taken
    <2> QED
      BY <2>1, <2>2
  <1> QED
    BY <1>1, <1>2

(* The steps that move a process and nothing else. *)
Moves(n) ==
  \/ PassDone(n) \/ Kill(n)
  \/ \E m \in Node \ {n} : BrokenPipe(n, m) \/ ReceiveFails(n, m)

LEMMA PipesStep == BarrierInv /\ [Next]_vars => PipesOk'
  <1> SUFFICES ASSUME BarrierInv, [Next]_vars,
                      NEW q \in Worker, NEW p \in Node, p # q
               PROVE  PipeOk(q, p)'
    BY DEF PipesOk
  <1>1. TypeOK /\ PipeOk(q, p) /\ q \in Node /\ \A n \in Node : NodeOk(n)
    BY NodeFacts DEF BarrierInv, PipesOk, NodesOk
  <1>2. UNCHANGED data /\ QuietPc(q) => PipeOk(q, p)'
    BY <1>1, PipeKept DEF data, Taken
  <1>3. ASSUME NEW n \in Node, Moves(n)
        PROVE  PipeOk(q, p)'
    <2>1. UNCHANGED data
      BY <1>3 DEF Moves, PassDone, Kill, BrokenPipe, ReceiveFails, Fail
    <2>2. QuietPc(q)
      <3>1. q # PARENT_ID /\ pc \in [Node -> State]
        BY <1>1, NodeFacts DEF TypeOK
      <3>2. CASE PassDone(n) \/ Kill(n)
        BY <1>1, <3>1, <3>2 DEF PassDone, Heard, Kill, Goto, QuietPc
      <3>3. ASSUME NEW m \in Node \ {n}, BrokenPipe(n, m) \/ ReceiveFails(n, m)
            PROVE  QuietPc(q)
        BY <1>1, <3>1, <3>3 DEF BrokenPipe, ReceiveFails, Fail, Goto, QuietPc
      <3> QED
        BY <1>3, <3>2, <3>3 DEF Moves
    <2> QED
      BY <1>2, <2>1, <2>2
  <1>4. CASE ParentNext
    <2>1. UNCHANGED data
      BY <1>4 DEF ParentNext, AllForked, Reap, Fork, ForkFails
    <2>2. QuietPc(q)
      <3>1. q # PARENT_ID /\ pc \in [Node -> State]
        BY <1>1, NodeFacts DEF TypeOK
      <3>2. CASE AllForked \/ Reap
        BY <1>1, <3>1, <3>2 DEF AllForked, Reap, Goto, QuietPc
      <3>3. ASSUME NEW n \in Worker, Fork(n) \/ ForkFails(n) PROVE QuietPc(q)
        BY <1>1, <3>1, <3>3 DEF Fork, ForkFails, NextToFork, Goto, QuietPc
      <3> QED
        BY <1>4, <3>2, <3>3 DEF ParentNext
    <2> QED
      BY <1>2, <2>1, <2>2
  <1>5. ASSUME NEW n \in Node, StartChild(n) \/ PassStarted(n)
        PROVE  PipeOk(q, p)'
    BY <1>1, <1>5, PipeStarted, PipePassed
  <1>6. ASSUME NEW n \in Node, NEW m \in Node \ {n}, Send(n, m) \/ Receive(n, m)
        PROVE  PipeOk(q, p)'
    BY <1>1, <1>6, PipeTouched
  <1>7. CASE UNCHANGED vars
    BY <1>2, <1>7 DEF vars, data, QuietPc
  <1> QED
    BY <1>3, <1>4, <1>5, <1>6, <1>7 DEF Next, NodeNext, Moves

-----------------------------------------------------------------------------
(* What a node is through with. *)

LEMMA NodeKept ==
  ASSUME NEW p \in Node, NodeOk(p), UNCHANGED <<phase, to, received>>,
         \/ pc'[p] = pc[p]
         \/ pc'[p] \in {"failed", "sigpipe", "killed"}
         \/ pc[p] = "unborn" /\ pc'[p] = "boot"
         \/ p = PARENT_ID /\ pc'[p] \in {"barrier", "giving_up"}
         \/ p = PARENT_ID /\ pc[p] = "reaping" /\ pc'[p] = "exited"
         \/ /\ Heard(p, "DONE")
            /\ pc'[p] = IF p = PARENT_ID THEN "reaping" ELSE "exited"
  PROVE  NodeOk(p)'
  BY NodeFacts DEF NodeOk, Missing, Heard

LEMMA NodesStep == BarrierInv /\ [Next]_vars => NodesOk'
  <1> SUFFICES ASSUME BarrierInv, [Next]_vars, NEW p \in Node
               PROVE  NodeOk(p)'
    BY DEF NodesOk
  <1>1. TypeOK /\ NodeOk(p)
    BY DEF BarrierInv, NodesOk
  <1>2. ASSUME NEW n \in Node, Moves(n)
        PROVE  NodeOk(p)'
    <2>1. UNCHANGED <<phase, to, received>>
      BY <1>2 DEF Moves, PassDone, Kill, BrokenPipe, ReceiveFails, Fail, data
    <2>2. \/ pc'[p] = pc[p]
          \/ pc'[p] \in {"failed", "sigpipe", "killed"}
          \/ p = PARENT_ID /\ pc'[p] = "giving_up"
          \/ /\ Heard(p, "DONE")
             /\ pc'[p] = IF p = PARENT_ID THEN "reaping" ELSE "exited"
      BY <1>1, <1>2
         DEF Moves, PassDone, Kill, BrokenPipe, ReceiveFails, Fail, Goto, TypeOK
    <2> QED
      BY <1>1, <2>1, <2>2, NodeKept
  <1>3. CASE ParentNext
    <2>1. UNCHANGED <<phase, to, received>>
      BY <1>3 DEF ParentNext, AllForked, Reap, Fork, ForkFails, data
    <2>2. \/ pc'[p] = pc[p]
          \/ pc'[p] = "failed"
          \/ pc[p] = "unborn" /\ pc'[p] = "boot"
          \/ p = PARENT_ID /\ pc'[p] \in {"barrier", "giving_up"}
          \/ p = PARENT_ID /\ pc[p] = "reaping" /\ pc'[p] = "exited"
      BY <1>1, <1>3, NodeFacts
         DEF ParentNext, AllForked, Reap, Fork, ForkFails, NextToFork, Goto, TypeOK
    <2> QED
      BY <1>1, <2>1, <2>2, NodeKept
  <1>4. ASSUME NEW n \in Node, StartChild(n) \/ PassStarted(n)
        PROVE  NodeOk(p)'
    <2>1. CASE n = p
      <3>1. CASE StartChild(n)
        <4>1. pc'[p] = "barrier" /\ p \in Worker
          BY <1>1, <2>1, <3>1 DEF StartChild, Goto, TypeOK
        <4> QED
          BY <4>1, NodeFacts DEF NodeOk
      <3>2. CASE PassStarted(n)
        <4>1. pc'[p] = "barrier" /\ (p = PARENT_ID => to'[p] = {})
          BY <1>1, <2>1, <3>2 DEF PassStarted, Heard, TypeOK
        <4> QED
          BY <4>1 DEF NodeOk
      <3> QED
        BY <1>4, <3>1, <3>2
    <2>2. CASE n # p
      <3>1. /\ pc'[p] = pc[p] /\ phase'[p] = phase[p] /\ to'[p] = to[p]
            /\ received'[p] = received[p]
        BY <1>1, <1>4, <2>2 DEF StartChild, PassStarted, Goto, TypeOK
      <3> QED
        BY <1>1, <3>1 DEF NodeOk, Missing
    <2> QED
      BY <2>1, <2>2
  <1>5. ASSUME NEW n \in Node, NEW m \in Node \ {n}, Send(n, m) \/ Receive(n, m)
        PROVE  NodeOk(p)'
    <2>1. /\ UNCHANGED <<pc, phase>> /\ to'[p] \subseteq to[p]
          /\ received[p] \subseteq received'[p]
      <3>1. CASE Send(n, m)
        BY <1>1, <3>1 DEF Send, TypeOK
      <3>2. CASE Receive(n, m)
        BY <1>1, <3>2 DEF Receive, TypeOK
      <3> QED
        BY <1>5, <3>1, <3>2
    <2> QED
      BY <1>1, <2>1 DEF NodeOk, Missing
  <1>6. CASE UNCHANGED vars
    BY <1>1, <1>6 DEF vars, NodeOk, Missing
  <1> QED
    BY <1>2, <1>3, <1>4, <1>5, <1>6 DEF Next, NodeNext, Moves

-----------------------------------------------------------------------------
(* The properties. *)

LEMMA InvImpliesBarriers ==
  ASSUME BarrierInv
  PROVE  BarriersHold /\ NothingDropped
  <1>1. TypeOK /\ (\A p \in Node : NodeOk(p))
    BY DEF BarrierInv, NodesOk
  <1>2. ASSUME NEW q \in Worker, NEW p \in Node, p # q
        PROVE  /\ PipeOk(q, p) /\ Len(channel[q][p]) \in Nat
               /\ Taken(p, q) \in {0, 1, 2}
    BY <1>1, <1>2, PipeTypes, NodeFacts DEF BarrierInv, PipesOk
  <1>3. ASSUME NEW p \in Node, NEW q \in Worker, phase[p] = "DONE"
        PROVE  pc[q] \notin {"unborn", "boot"}
    <2>1. CASE p = q
      BY <1>1, <1>3, <2>1 DEF NodeOk
    <2>2. CASE p # q
      <3>1. Taken(p, q) # 0
        BY <1>3 DEF Taken
      <3>2. Sent(q, p) > 0
        BY <1>2, <2>2, <3>1 DEF Sent
      <3> QED
        BY <1>2, <2>2, <3>2 DEF PipeOk
    <2> QED
      BY <2>1, <2>2
  <1>4. ASSUME NEW p \in Node, NEW q \in Worker, pc[p] \in {"exited", "reaping"}
        PROVE  phase[q] = "DONE"
    <2>1. phase[p] = "DONE" /\ Missing(p) = {}
      BY <1>1, <1>4 DEF NodeOk
    <2>2. CASE p # q
      <3>1. Taken(p, q) = 2
        BY <2>1, <2>2 DEF Taken, Missing
      <3>2. Sent(q, p) = 2
        BY <1>2, <2>2, <3>1 DEF PipeOk, Sent
      <3> QED
        BY <1>2, <2>2, <3>2 DEF PipeOk
    <2> QED
      BY <2>1, <2>2
  <1>5. NothingDropped
    <2> SUFFICES ASSUME NEW p \in Node, NEW q \in Missing(p), channel[q][p] # <<>>
                 PROVE  Head(channel[q][p]) = phase[p]
      BY DEF NothingDropped
    <2>1. q \in Worker /\ q # p /\ q \notin received[p]
      BY DEF Missing
    <2> QED
      BY <1>1, <1>2, <2>1, HeadAwaited
  <1> QED
    BY <1>3, <1>4, <1>5 DEF BarriersHold

Cause ==
  \/ \E p \in Node : pc[p] = "killed"
  \/ pc[PARENT_ID] # "boot" /\ \E p \in Worker : pc[p] = "unborn"

(* Nobody is killed or unborn where nothing went wrong from outside.  *)
LEMMA CauseStays ==
  ASSUME TypeOK, NodesOk, [Next]_vars, Cause
  PROVE  Cause'
  <1> USE NodeFacts
  <1>1. ASSUME NEW p \in Node, pc[p] \in {"killed", "unborn"}, p # PARENT_ID \/ pc[p] = "killed",
               pc[p] = "unborn" => pc[PARENT_ID] # "boot"
        PROVE  pc'[p] = pc[p]
    <2>1. ASSUME NEW n \in Node, Moves(n) \/ StartChild(n)
          PROVE  pc'[p] = pc[p]
      BY <1>1, <2>1
         DEF Moves, PassDone, Heard, Kill, BrokenPipe, NextTarget, ReceiveFails, Waiting, Fail,
             StartChild, Goto, TypeOK, Over
    <2>2. CASE ParentNext
      BY <1>1, <2>2
         DEF ParentNext, AllForked, Reap, Fork, ForkFails, NextToFork, Goto, TypeOK
    <2>3. CASE UNCHANGED pc
      BY <2>3
    <2> QED
      BY <2>1, <2>2, <2>3 DEF Next, NodeNext, Moves, PassStarted, Send, Receive, vars
  <1>2. pc[PARENT_ID] # "boot" => pc'[PARENT_ID] # "boot"
    <2>1. ASSUME NEW n \in Node, Moves(n) \/ StartChild(n)
          PROVE  pc'[PARENT_ID] = "boot" => pc[PARENT_ID] = "boot"
      BY <2>1
         DEF Moves, PassDone, Kill, BrokenPipe, ReceiveFails, Fail, StartChild, Goto, TypeOK
    <2>2. ASSUME ParentNext
          PROVE  pc'[PARENT_ID] = "boot" => pc[PARENT_ID] = "boot"
      BY <2>2
         DEF ParentNext, AllForked, Reap, Fork, ForkFails, NextToFork, Goto, TypeOK
    <2>3. CASE UNCHANGED pc
      BY <2>3
    <2> QED
      BY <2>1, <2>2, <2>3 DEF Next, NodeNext, Moves, PassStarted, Send, Receive, vars
  <1> QED
    BY <1>1, <1>2 DEF Cause

(* A process that has closed its pipes without any cause is through: nobody   *)
(* waits for it, and nobody has still to write to it.                         *)
LEMMA NoCauseNoFailure ==
  ASSUME BarrierInv, ~Cause, NEW n \in Node, NEW m \in Node \ {n}
  PROVE  ~BrokenPipe(n, m) /\ ~ReceiveFails(n, m)
  <1>1. /\ TypeOK /\ (\A p \in Node : NodeOk(p)) /\ ParentReports
        /\ \A p \in Node : pc[p] \notin {"failed", "giving_up", "sigpipe", "killed"}
    BY DEF BarrierInv, NodesOk, FailureHasCause, Cause
  <1>2. ASSUME NEW q \in Worker, NEW p \in Node, p # q
        PROVE  /\ PipeOk(q, p) /\ Len(channel[q][p]) \in Nat
               /\ Taken(p, q) \in {0, 1, 2}
    BY <1>1, <1>2, PipeTypes, NodeFacts DEF BarrierInv, PipesOk
  <1>3. Gone(m) => pc[m] = "exited"
    <2>1. ASSUME Gone(m)
          PROVE  pc[m] # "unborn"
      <3>1. pc[PARENT_ID] # "boot"
        BY <2>1, NodeFacts DEF Gone, Inherited
      <3>2. m \in Worker => pc[m] # "unborn"
        BY <3>1 DEF Cause
      <3> QED
        BY <1>1, <3>2, NodeFacts DEF NodeOk
    <2> QED
      BY <1>1, <2>1 DEF Gone, Over
  <1>4. ASSUME BrokenPipe(n, m)
        PROVE  FALSE
    <2>1. pc[n] = "barrier" /\ m \in to[n] /\ pc[m] = "exited"
      BY <1>3, <1>4 DEF BrokenPipe, NextTarget
    <2>2. n \in Worker /\ m # n
      BY <1>1, <2>1, NodeFacts DEF NodeOk
    <2>3. phase[m] = "DONE" /\ n \in received[m]
      BY <1>1, <2>1, <2>2 DEF NodeOk, Missing
    <2>4. Taken(m, n) = 2
      BY <2>3 DEF Taken
    <2>5. Sent(n, m) = 2
      BY <1>2, <2>2, <2>4 DEF PipeOk, Sent
    <2>6. Written(n, m) # 2
      BY <2>1 DEF Written
    <2> QED
      BY <1>2, <2>1, <2>2, <2>5, <2>6 DEF PipeOk
  <1>5. ASSUME ReceiveFails(n, m)
        PROVE  FALSE
    <2>1. m \in Worker /\ m # n /\ m \notin received[n]
      BY <1>5 DEF ReceiveFails, Waiting, NextSource, Missing
    <2>2. channel[m][n] = <<>> /\ pc[m] = "exited"
      BY <1>1, <1>2, <1>3, <1>5, <2>1, HeadAwaited DEF ReceiveFails
    <2>3. phase[m] = "DONE" /\ to[m] = {}
      BY <1>1, <2>2 DEF NodeOk
    <2>4. Written(m, n) = 2
      BY <2>3 DEF Written
    <2>5. Sent(m, n) = 2
      BY <1>2, <2>1, <2>2, <2>4 DEF PipeOk
    <2>6. Taken(n, m) = 2
      <3>1. Len(channel[m][n]) = 0
        BY <2>2
      <3> QED
        BY <1>2, <2>1, <2>5, <3>1 DEF Sent
    <2> QED
      BY <2>1, <2>6 DEF Taken
  <1> QED
    BY <1>4, <1>5

LEMMA CauseStep == BarrierInv /\ [Next]_vars => FailureHasCause'
  <1> SUFFICES ASSUME BarrierInv, [Next]_vars, ~Cause, ~Cause'
               PROVE  FailureHasCause'
    BY CauseStays DEF BarrierInv, FailureHasCause, Cause
  <1> USE NodeFacts
  <1>1. /\ TypeOK /\ \A p \in Node : pc[p] \notin {"failed", "giving_up", "sigpipe", "killed"}
        /\ pc[PARENT_ID] # "boot" => \A p \in Worker : pc[p] # "unborn"
    BY DEF BarrierInv, FailureHasCause, Cause
  <1>2. SUFFICES \A p \in Node : pc'[p] \notin {"failed", "giving_up", "sigpipe"}
    BY DEF FailureHasCause
  <1>3. ASSUME NEW n \in Node, NodeNext(n)
        PROVE  \A p \in Node : pc'[p] \notin {"failed", "giving_up", "sigpipe"}
    <2>1. \A m \in Node \ {n} : ~BrokenPipe(n, m) /\ ~ReceiveFails(n, m)
      BY NoCauseNoFailure
    <2>2. CASE StartChild(n) \/ PassDone(n)
      BY <1>1, <2>2 DEF StartChild, PassDone, Goto, TypeOK
    <2>3. CASE UNCHANGED pc
      BY <1>1, <2>3
    <2> QED
      BY <1>3, <2>1, <2>2, <2>3 DEF NodeNext, PassStarted, Send, Receive
  <1>4. ASSUME NEW n \in Node, Kill(n)
        PROVE  FALSE
    BY <1>1, <1>4 DEF Kill, Goto, TypeOK, Cause
  <1>5. CASE ParentNext
    <2>1. ASSUME NEW p \in Worker, ForkFails(p)
          PROVE  FALSE
      BY <1>1, <2>1 DEF ForkFails, NextToFork, Goto, TypeOK, Cause
    <2>2. CASE Reap
      <3>1. /\ pc[PARENT_ID] = "reaping"
            /\ \A p \in Worker : pc[p] \in {"exited", "unborn"}
        BY <1>1, <2>2 DEF Reap, Over
      <3>2. \A p \in Worker : pc[p] = "exited"
        BY <1>1, <3>1
      <3> QED
        BY <1>1, <2>2, <3>1, <3>2 DEF Reap, Goto, TypeOK
    <2>3. ASSUME NEW p \in Worker, AllForked \/ Fork(p)
          PROVE  \A r \in Node : pc'[r] \notin {"failed", "giving_up", "sigpipe"}
      BY <1>1, <2>3 DEF AllForked, Fork, Goto, TypeOK
    <2> QED
      BY <1>5, <2>1, <2>2, <2>3, Pa1Assumption DEF ParentNext, Worker
  <1>6. CASE UNCHANGED vars
    BY <1>1, <1>6 DEF vars
  <1> QED
    BY <1>3, <1>4, <1>5, <1>6 DEF Next

(* A parent that reports has no children left, and nothing happens any more. *)
LEMMA ReportsStep == BarrierInv /\ [Next]_vars => ParentReports'
  <1> SUFFICES ASSUME BarrierInv, [Next]_vars PROVE ParentReports'
    OBVIOUS
  <1> USE NodeFacts
  <1>1. TypeOK /\ ParentReports /\ NodeOk(PARENT_ID)
    BY DEF BarrierInv, NodesOk
  <1>2. CASE pc[PARENT_ID] \in {"exited", "failed"}
    <2>1. \A p \in Worker : pc[p] \in Over \cup {"unborn"}
      BY <1>1, <1>2 DEF ParentReports
    <2>2. ASSUME NEW n \in Node
          PROVE  ~Moves(n) /\ ~StartChild(n)
      <3>1. pc[n] \in Over \cup {"unborn"}
        BY <1>2, <2>1 DEF Over
      <3> QED
        BY <3>1 DEF Moves, PassDone, Heard, Kill, BrokenPipe, NextTarget, ReceiveFails, Waiting,
                    StartChild, Over
    <2>3. ~ParentNext
      BY <1>2 DEF ParentNext, AllForked, Reap, Fork, ForkFails, NextToFork
    <2>4. pc' = pc
      BY <2>2, <2>3 DEF Next, NodeNext, Moves, PassStarted, Send, Receive, vars
    <2> QED
      BY <1>1, <2>4 DEF ParentReports
  <1>3. CASE pc[PARENT_ID] \notin {"exited", "failed"}
    <2>1. ASSUME Reap
          PROVE  ParentReports'
      <3>1. \A p \in Worker : pc'[p] = pc[p] /\ pc[p] \in Over \cup {"unborn"}
        BY <1>1, <2>1 DEF Reap, Goto, TypeOK
      <3>2. pc'[PARENT_ID] = "exited" => \A p \in Worker : pc[p] = "exited"
        BY <1>1, <2>1 DEF Reap, Goto, TypeOK
      <3> QED
        BY <3>1, <3>2 DEF ParentReports
    <2>2. ASSUME ~Reap
          PROVE  pc'[PARENT_ID] \notin {"exited", "failed"}
      <3>1. ASSUME NEW n \in Node, Moves(n) \/ StartChild(n)
            PROVE  pc'[PARENT_ID] \notin {"exited", "failed"}
        BY <1>1, <1>3, <3>1
           DEF Moves, PassDone, Kill, BrokenPipe, ReceiveFails, Fail, StartChild, Goto, TypeOK
      <3>2. ASSUME NEW p \in Worker, AllForked \/ Fork(p) \/ ForkFails(p)
            PROVE  pc'[PARENT_ID] \notin {"exited", "failed"}
        BY <1>1, <1>3, <3>2 DEF AllForked, Fork, ForkFails, NextToFork, Goto, TypeOK
      <3>3. AllForked => pc'[PARENT_ID] = "barrier"
        BY <1>1 DEF AllForked, Goto, TypeOK
      <3>4. CASE UNCHANGED pc
        BY <1>3, <3>4
      <3> QED
        BY <2>2, <3>1, <3>2, <3>3, <3>4
           DEF Next, NodeNext, ParentNext, Moves, PassStarted, Send, Receive, vars
    <2> QED
      BY <2>1, <2>2 DEF ParentReports
  <1> QED
    BY <1>2, <1>3

LEMMA InvInit == Init => BarrierInv
  <1> SUFFICES ASSUME Init PROVE BarrierInv
    OBVIOUS
  <1> USE NodeFacts
  <1>1. /\ \A p \in Node : /\ phase[p] = "STARTED" /\ to[p] = {} /\ received[p] = {}
                           /\ pc[p] = IF p = PARENT_ID THEN "boot" ELSE "unborn"
        /\ \A p, q \in Node : channel[q][p] = <<>>
    BY DEF Init
  <1>2. TypeOK
    <2>1. channel \in [Node -> [Node -> Seq(MessageType)]]
      BY EmptySeq DEF Init
    <2>2. pc \in [Node -> State] /\ phase \in [Node -> MessageType]
      BY DEF Init, State, MessageType
    <2>3. source \in [Node -> Node]
      BY DEF Init, PARENT_ID
    <2> QED
      BY <2>1, <2>2, <2>3 DEF Init, TypeOK
  <1>3. NodesOk
    BY <1>1 DEF NodesOk, NodeOk
  <1>4. ASSUME NEW q \in Worker, NEW p \in Node
        PROVE  PipeOk(q, p)
    <2>1. Taken(p, q) = 0
      BY <1>1 DEF Taken
    <2>2. channel[q][p] = <<>> /\ Len(channel[q][p]) = 0 /\ DOMAIN channel[q][p] = {}
      <3>1. Len(<<>>) = 0 /\ DOMAIN <<>> = {}
        OBVIOUS
      <3> QED
        BY <1>1, <3>1
    <2>3. Sent(q, p) = 0
      BY <2>1, <2>2 DEF Sent
    <2> QED
      BY <1>1, <2>2, <2>3 DEF PipeOk
  <1>5. FailureHasCause /\ ParentReports
    BY <1>1 DEF FailureHasCause, ParentReports
  <1> QED
    BY <1>2, <1>3, <1>4, <1>5 DEF BarrierInv, PipesOk

LEMMA InvStep == BarrierInv /\ [Next]_vars => BarrierInv'
  BY TypeStep, NodesStep, PipesStep, CauseStep, ReportsStep DEF BarrierInv

(* The types, with what send_multicast promises: nobody sends to itself. *)
THEOREM TypeCorrect == Spec => []TypeOK
  <1>1. BarrierInv => TypeOK
    BY DEF BarrierInv
  <1> QED
    BY <1>1, InvInit, InvStep, PTL DEF Spec

(* Nobody passes a barrier (wait_for_type, parent_work) before every worker   *)
(* has reached it, whoever dies.                                              *)
THEOREM BarriersCorrect == Spec => []BarriersHold
  <1>1. BarrierInv => BarriersHold
    BY InvImpliesBarriers
  <1> QED
    BY <1>1, InvInit, InvStep, PTL DEF Spec

(* wait_for_type, which drops what it does not wait for, never drops a        *)
(* message: the first in every pipe still read is of the phase of its reader. *)
THEOREM NoMessageDropped == Spec => []NothingDropped
  <1>1. BarrierInv => NothingDropped
    BY InvImpliesBarriers
  <1> QED
    BY <1>1, InvInit, InvStep, PTL DEF Spec

(* No worker fails by itself: a failed receive or a SIGPIPE has its cause in  *)
(* a signal from outside or a refused fork.                                   *)
THEOREM FailuresCorrect == Spec => []FailureHasCause
  <1>1. BarrierInv => FailureHasCause
    BY DEF BarrierInv
  <1> QED
    BY <1>1, InvInit, InvStep, PTL DEF Spec

(* main returns 0 only when every worker has, and never before them. *)
THEOREM ReportsCorrect == Spec => []ParentReports
  <1>1. BarrierInv => ParentReports
    BY DEF BarrierInv
  <1> QED
    BY <1>1, InvInit, InvStep, PTL DEF Spec
=============================================================================
