---------------------------- MODULE Pa3BankProofs ----------------------------
(***************************************************************************)
(* Proofs about Pa3Bank, for every number of workers, all initial balances, *)
(* all orders, valid or not, every limit and whichever nodes die, in this   *)
(* order:                                                                   *)
(*   TypeInv     no clock, balance or history leaves the integers of its C  *)
(*               type;                                                      *)
(*   BankInv     what the frames under way say of the nodes they come from, *)
(*               and the phases of the protocol: the barriers, the pipes    *)
(*               left empty, the parent's report;                           *)
(*   LogInv      the transfers do not overlap, in logical time either;      *)
(*   AccountInv  every cell of every history is what the transfers say;     *)
(*   TotalInv    at every logical time the money adds up;                   *)
(*   CarryInv    the money of a transfer is under way between its booking   *)
(*               at the source and at the destination: the bank implements  *)
(*               the abstract accounts.                                     *)
(***************************************************************************)
EXTENDS Pa3Bank, LedgerProofs

-----------------------------------------------------------------------------
(* Nodes, stamps and payloads. *)

LEMMA NodeFacts ==
  /\ PARENT_ID \in Node /\ PARENT_ID \notin Worker
  /\ Worker \subseteq Node /\ Node \subseteq Nat
  /\ \A p \in Node : p # PARENT_ID => p \in Worker
  /\ Children \in Nat \ {0}
  BY ProcessesAssumption DEF PARENT_ID, Node, Worker

LEMMA ClockFacts ==
  /\ MaxClock \in Nat
  /\ \A t \in Timestamp : t \in Nat /\ (CanSend(t) => ClockSend(t) \in Timestamp)
  /\ \A t, r \in Timestamp : CanReceive(t, r) => ClockReceive(t, r) \in Timestamp
  BY MaxClockAssumption
     DEF Timestamp, CanSend, ClockSend, CanReceive, ClockReceive

LEMMA OneOrderType ==
  ASSUME NEW order \in TransferOrder
  PROVE  <<order>> \in OneOrder
  <1>1. <<order>> \in Seq(TransferOrder) /\ Len(<<order>>) = 1
    OBVIOUS
  <1>2. <<order>> \in [1..1 -> TransferOrder] /\ 1..1 = {1}
    BY <1>1
  <1> QED
    BY <1>2 DEF OneOrder

LEMMA OutputType ==
  ASSUME NEW type \in MessageType, NEW payload, NEW targets \in SUBSET Node,
         CASE type = "TRANSFER" -> payload \in OneOrder
           [] type = "BALANCE_HISTORY" -> payload \in History
           [] OTHER -> payload = Nothing
  PROVE  ToWrite(type, payload, targets) \in {Idle} \cup Output
  <1> DEFINE b == [type |-> type, payload |-> payload, to |-> targets]
  <1>1. payload \in Payload
    BY DEF Payload
  <1>2. Fits(b)
    BY DEF Fits
  <1>3. b \in Output
    BY <1>1, <1>2 DEF Output
  <1> QED
    BY <1>3 DEF ToWrite

(* A frame that is a transfer carries one order, one that is a history a history. *)
LEMMA FrameFacts ==
  ASSUME NEW m \in Frame
  PROVE  /\ m.type \in MessageType /\ m.time \in Timestamp
         /\ m.type = "TRANSFER" => m.payload[1] \in TransferOrder
         /\ m.type = "BALANCE_HISTORY" => m.payload \in History
  BY DEF Frame, Fits, OneOrder

-----------------------------------------------------------------------------
(* Types.  An awaited ACK belongs to an order that exists. *)

TypeInv == TypeOK /\ (pc[PARENT_ID] = "acking" => next <= Len(Orders))

LEMMA TypeInit == Init => TypeInv
  <1> SUFFICES ASSUME Init PROVE TypeInv
    OBVIOUS
  <1> USE NodeFacts
  <1>1. pc \in [Node -> State] /\ pc[PARENT_ID] = "boot"
    BY DEF Init, NothingForked, State, Lifecycle
  <1>2. clock \in [Node -> Timestamp]
    BY MaxClockAssumption DEF Init, Timestamp
  <1>3. channel \in [Node -> [Node -> Seq(Frame)]]
    BY EmptySeq DEF Init
  <1>4. peer \in [Node -> 1..(Children + 2)]
    BY DEF Init, PeerFrom
  <1>5. next \in 1..(Len(Orders) + 1)
    BY Pa3Assumption, LenProperties DEF Init
  <1>6. ledger \in [Worker -> History]
    BY Pa3Assumption, OpeningType DEF Init
  <1>7. outgoing \in Seq(Event) /\ incoming \in Seq(Event)
    BY EmptySeq DEF Init
  <1> QED
    BY <1>1, <1>2, <1>3, <1>4, <1>5, <1>6, <1>7 DEF Init, TypeInv, TypeOK

(* A step that only moves a node to a state it may be in. *)
LEMMA TypeGoto ==
  ASSUME TypeInv, NEW p \in Node, NEW state \in State, Goto(p, state),
         p = PARENT_ID => state \notin {"unborn", "serving", "reporting", "acking"},
         UNCHANGED <<clock, channel, outbox, protocol, accounts>>
  PROVE  TypeInv'
  BY NodeFacts DEF TypeInv, TypeOK, Goto, protocol, accounts, events

LEMMA TypeFatal ==
  ASSUME TypeInv, NEW p \in Node, Fatal(p)
  PROVE  TypeInv'
  <1> DEFINE state == IF p = PARENT_ID THEN "stopping" ELSE "failed"
  <1>1. /\ state \in State
        /\ p = PARENT_ID => state \notin {"unborn", "serving", "reporting", "acking"}
    BY DEF State, Lifecycle, Over
  <1>2. Goto(p, state) /\ UNCHANGED <<clock, channel, outbox, protocol, accounts>>
    BY DEF Fatal, Fail
  <1> HIDE DEF state
  <1> QED
    BY <1>1, <1>2, TypeGoto

LEMMA TypeSends ==
  ASSUME TypeOK, NEW p \in Node, NEW time \in Timestamp,
         NEW type \in MessageType, NEW payload, NEW targets \in SUBSET Node,
         CASE type = "TRANSFER" -> payload \in OneOrder
           [] type = "BALANCE_HISTORY" -> payload \in History
           [] OTHER -> payload = Nothing,
         Sends(p, time, type, payload, targets)
  PROVE  /\ clock' \in [Node -> Timestamp]
         /\ outbox' \in [Node -> {Idle} \cup Output]
  <1>1. ToWrite(type, payload, targets) \in {Idle} \cup Output
    BY OutputType
  <1> QED
    BY <1>1, ClockFacts DEF TypeOK, Sends

(* What p finds at the head of a pipe it reads, and when it may take it. *)
LEMMA TypeTakes ==
  ASSUME TypeOK, NEW p \in Node, NEW q \in Node, NEW type, Takes(p, q, type)
  PROVE  /\ channel' \in [Node -> [Node -> Seq(Frame)]]
         /\ Received(p, q) \in Frame /\ Received(p, q).type = type
         /\ Received(p, q).time \in Timestamp
         /\ TimeOfReceipt(p, q) \in Timestamp
         /\ Accepts(p, q) /\ q \in Awaited(p)
  <1>1. channel[q][p] \in Seq(Frame) /\ channel[q][p] # <<>>
    BY DEF TypeOK, Takes, Reading
  <1>2. Head(channel[q][p]) \in Frame /\ Tail(channel[q][p]) \in Seq(Frame)
    BY <1>1, HeadTailProperties
  <1>3. channel' \in [Node -> [Node -> Seq(Frame)]]
    BY <1>2 DEF TypeOK, Takes
  <1>4. Received(p, q) \in Frame /\ Received(p, q).time \in Timestamp
    BY <1>2, FrameFacts DEF Received
  <1>5. CanReceive(clock[p], Received(p, q).time) /\ clock[p] \in Timestamp
    BY DEF TypeOK, Takes, Accepts
  <1>6. TimeOfReceipt(p, q) \in Timestamp
    BY <1>4, <1>5, ClockFacts DEF TimeOfReceipt
  <1> QED
    BY <1>3, <1>4, <1>6 DEF Takes, Reading

(* A worker that serves takes a frame AcceptsByWorker lets through, any other *)
(* node the type it expects from the peer it has come to.                     *)
LEMMA TakesWhen ==
  ASSUME TypeOK, NEW p \in Node, NEW q \in Node, NEW type, Takes(p, q, type)
  PROVE  /\ pc[p] = "serving" =>
              /\ p \in Worker
              /\ AcceptsByWorker(p, q, Received(p, q), TimeOfReceipt(p, q))
         /\ pc[p] # "serving" => type = Expected(p)
         /\ type = "STARTED" => pc[p] = "starting" \/ pc[p] = "serving"
         /\ pc[p] \in {"starting", "collecting", "gathering"} =>
              q = peer[p] /\ q \in Worker
  <1>1. pc[p] = "serving" => p \in Worker
    BY NodeFacts DEF TypeOK
  <1>2. Received(p, q).type = type /\ Accepts(p, q) /\ q \in Awaited(p)
    BY TypeTakes
  <1>3. pc[p] # "serving" => type = Expected(p)
    BY <1>2 DEF Accepts
  <1> QED
    BY <1>1, <1>2, <1>3 DEF Accepts, Awaited, Expected

LEMMA TypeNextPeer ==
  ASSUME TypeOK, NEW p \in Node, peer[p] \in Worker, ToNextPeer(p)
  PROVE  peer' \in [Node -> 1..(Children + 2)]
  <1>1. peer[p] \in 1..Children /\ Children \in Nat
    BY NodeFacts DEF Worker
  <1>2. PeerFrom(p, peer[p] + 1) \in 1..(Children + 2)
    BY <1>1 DEF PeerFrom
  <1> QED
    BY <1>2 DEF TypeOK, ToNextPeer

LEMMA TypeWrite ==
  ASSUME TypeInv, NEW p \in Node, NEW q \in Node, WriteFrame(p, q)
  PROVE  TypeInv'
  <1> DEFINE b == outbox[p]
             m == [type |-> b.type, time |-> clock[p], payload |-> b.payload]
  <1>1. b \in Output
    BY DEF WriteFrame, NextTarget, TypeInv, TypeOK, Idle
  <1>2. /\ b.type \in MessageType /\ b.payload \in Payload /\ b.to \subseteq Node
        /\ CASE b.type = "TRANSFER" -> b.payload \in OneOrder
             [] b.type = "BALANCE_HISTORY" -> b.payload \in History
             [] OTHER -> b.payload = Nothing
    BY <1>1 DEF Output, Fits
  <1>3. ToWrite(b.type, b.payload, b.to \ {q}) \in {Idle} \cup Output
    BY <1>2, OutputType
  <1>4. outbox' \in [Node -> {Idle} \cup Output]
    BY <1>3 DEF TypeInv, TypeOK, WriteFrame
  <1>5. m \in Frame
    <2>1. Fits(m)
      BY <1>2 DEF Fits
    <2> QED
      BY <1>2, <2>1 DEF Frame, TypeInv, TypeOK
  <1>6. channel' \in [Node -> [Node -> Seq(Frame)]]
    <2>1. Append(channel[p][q], m) \in Seq(Frame)
      BY <1>5, AppendProperties DEF TypeInv, TypeOK
    <2> QED
      BY <2>1 DEF TypeInv, TypeOK, WriteFrame
  <1> QED
    BY <1>4, <1>6 DEF WriteFrame, TypeInv, TypeOK, protocol, accounts, events

-----------------------------------------------------------------------------
(* The worker's receipts. *)

LEMMA OrderFacts ==
  ASSUME NEW order \in TransferOrder, ValidOrder(order)
  PROVE  /\ order.src \in Worker /\ order.dst \in Worker
         /\ order.amount \in Int
  BY BalanceTFacts DEF ValidOrder

LEMMA TypeReceiveOrder ==
  ASSUME TypeInv, NEW p \in Node, NEW q \in Node, ReceiveOrder(p, q)
  PROVE  TypeInv'
  <1> DEFINE order == Received(p, q).payload[1]
             now == TimeOfReceipt(p, q)
             sent == ClockSend(now)
  <1>1. TypeOK /\ Takes(p, q, "TRANSFER") /\ IsDebit(p, q, order)
    BY DEF ReceiveOrder, TypeInv
  <1>2. /\ channel' \in [Node -> [Node -> Seq(Frame)]]
        /\ order \in TransferOrder /\ now \in Timestamp
    BY <1>1, TypeTakes, FrameFacts
  <1>3. p \in Worker /\ AcceptsByWorker(p, q, Received(p, q), now)
    BY <1>1, TakesWhen DEF Expected
  <1>4. AcceptsTransfer(p, q, Received(p, q), now)
    BY <1>1, <1>3, TypeTakes DEF AcceptsByWorker
  <1> HIDE DEF order, now
  <1>5. /\ ValidOrder(order) /\ CanSend(now)
        /\ CanDebit(ledger[p], sent, order.amount)
    <2>1. ValidOrder(order) /\ CanSend(now)
      BY <1>4 DEF AcceptsTransfer, order
    <2>2. ~IsCredit(p, q, order)
      BY <1>1, <2>1, NodeFacts DEF ValidOrder, IsCredit, IsDebit
    <2> QED
      BY <1>4, <2>1, <2>2 DEF AcceptsTransfer, order
  <1>6. sent \in Timestamp /\ sent \in Nat
    BY <1>2, <1>5, ClockFacts
  <1>7. ledger' \in [Worker -> History]
    <2>1. ledger[p] \in History /\ order.amount \in Int
      BY <1>1, <1>2, <1>3, <1>5, OrderFacts DEF TypeOK
    <2>2. Debit(ledger[p], sent, order.amount) \in History
      BY <1>5, <1>6, <2>1, DebitType
    <2>3. ledger' = [ledger EXCEPT ![p] = Debit(ledger[p], sent, order.amount)]
      BY DEF ReceiveOrder, order, now
    <2> QED
      BY <1>1, <2>2, <2>3 DEF TypeOK
  <1>8. outgoing' \in Seq(Event)
    <2>1. [order |-> order, time |-> sent] \in Event
      BY <1>2, <1>6 DEF Event
    <2>2. outgoing' = Append(outgoing, [order |-> order, time |-> sent])
      BY DEF ReceiveOrder, order, now
    <2> QED
      BY <1>1, <2>1, <2>2, AppendProperties DEF TypeOK
  <1>9. clock' \in [Node -> Timestamp] /\ outbox' \in [Node -> {Idle} \cup Output]
    <2>1. Sends(p, now, "TRANSFER", <<order>>, {order.dst})
      BY DEF ReceiveOrder, order, now
    <2>2. <<order>> \in OneOrder /\ {order.dst} \in SUBSET Node /\ "TRANSFER" \in MessageType
      BY <1>2, <1>5, OneOrderType, OrderFacts, NodeFacts DEF MessageType
    <2> QED
      BY <1>1, <1>2, <2>1, <2>2, TypeSends
  <1> QED
    BY <1>1, <1>2, <1>7, <1>8, <1>9
       DEF ReceiveOrder, TypeInv, TypeOK, protocol, accounts, events

LEMMA TypeReceiveTransfer ==
  ASSUME TypeInv, NEW p \in Node, NEW q \in Node, ReceiveTransfer(p, q)
  PROVE  TypeInv'
  <1> DEFINE m == Received(p, q)
             order == m.payload[1]
             now == TimeOfReceipt(p, q)
  <1>1. TypeOK /\ Takes(p, q, "TRANSFER") /\ IsCredit(p, q, order)
    BY DEF ReceiveTransfer, TypeInv
  <1>2. /\ channel' \in [Node -> [Node -> Seq(Frame)]]
        /\ order \in TransferOrder /\ now \in Timestamp /\ m.time \in Timestamp
    BY <1>1, TypeTakes, FrameFacts
  <1>3. p \in Worker /\ AcceptsByWorker(p, q, m, now)
    BY <1>1, TakesWhen DEF Expected
  <1>4. AcceptsTransfer(p, q, m, now)
    BY <1>1, <1>3, TypeTakes DEF AcceptsByWorker
  <1>5. ledger' = [ledger EXCEPT ![p] = Credit(ledger[p], m.time, now, order.amount)]
    BY DEF ReceiveTransfer
  <1> HIDE DEF m, now
  <1>6. ValidOrder(order) /\ CanCredit(ledger[p], m.time, now, order.amount)
    <2>1. ValidOrder(order)
      BY <1>4 DEF AcceptsTransfer
    <2>2. ~IsDebit(p, q, order)
      BY <1>1, <2>1, NodeFacts DEF ValidOrder, IsCredit, IsDebit
    <2> QED
      BY <1>4, <2>1, <2>2 DEF AcceptsTransfer
  <1>7. ledger' \in [Worker -> History]
    <2>1. ledger[p] \in History /\ order.amount \in Int /\ m.time \in Nat /\ now \in Nat
      BY <1>1, <1>2, <1>3, <1>6, OrderFacts, ClockFacts DEF TypeOK
    <2>2. Credit(ledger[p], m.time, now, order.amount) \in History
      BY <1>6, <2>1, CreditType
    <2> QED
      BY <1>1, <1>5, <2>2 DEF TypeOK
  <1>8. incoming' \in Seq(Event)
    <2>1. [order |-> order, time |-> now] \in Event
      BY <1>2 DEF Event
    <2>2. incoming' = Append(incoming, [order |-> order, time |-> now])
      BY DEF ReceiveTransfer, m, now
    <2> QED
      BY <1>1, <2>1, <2>2, AppendProperties DEF TypeOK
  <1>9. clock' \in [Node -> Timestamp] /\ outbox' \in [Node -> {Idle} \cup Output]
    <2>1. Sends(p, now, "ACK", Nothing, {PARENT_ID})
      BY DEF ReceiveTransfer, now
    <2>2. {PARENT_ID} \in SUBSET Node /\ "ACK" \in MessageType
      BY NodeFacts DEF MessageType
    <2> QED
      BY <1>1, <1>2, <2>1, <2>2, TypeSends
  <1> QED
    BY <1>1, <1>2, <1>7, <1>8, <1>9
       DEF ReceiveTransfer, TypeInv, TypeOK, protocol, accounts, events

LEMMA TypeReceiveStop ==
  ASSUME TypeInv, NEW p \in Node, NEW q \in Node, ReceiveStop(p, q)
  PROVE  TypeInv'
  <1> DEFINE now == TimeOfReceipt(p, q)
  <1>1. TypeOK /\ Takes(p, q, "STOP")
    BY DEF ReceiveStop, TypeInv
  <1>2. channel' \in [Node -> [Node -> Seq(Frame)]] /\ now \in Timestamp /\ now \in Nat
    BY <1>1, TypeTakes, ClockFacts
  <1>3. p \in Worker /\ FitsHistory(now)
    <2>1. p \in Worker /\ AcceptsByWorker(p, q, Received(p, q), now)
      BY <1>1, TakesWhen DEF Expected
    <2>2. Received(p, q).type = "STOP"
      BY <1>1, TypeTakes
    <2> QED
      BY <2>1, <2>2 DEF AcceptsByWorker
  <1>4. ledger' = [ledger EXCEPT ![p] = Extend(ledger[p], now)]
    BY DEF ReceiveStop
  <1>5. Sends(p, now, "DONE", Nothing, Node \ {p})
    BY DEF ReceiveStop
  <1> HIDE DEF now
  <1>6. ledger' \in [Worker -> History]
    <2>1. Extend(ledger[p], now) \in History
      BY <1>1, <1>2, <1>3, ExtendType DEF TypeOK
    <2> QED
      BY <1>1, <1>4, <2>1 DEF TypeOK
  <1>7. clock' \in [Node -> Timestamp] /\ outbox' \in [Node -> {Idle} \cup Output]
    <2>1. Node \ {p} \in SUBSET Node /\ "DONE" \in MessageType
      BY DEF MessageType
    <2> QED
      BY <1>1, <1>2, <1>5, <2>1, TypeSends
  <1> QED
    BY <1>1, <1>2, <1>3, <1>6, <1>7
       DEF ReceiveStop, TypeInv, TypeOK, protocol, accounts, events

LEMMA TypeReceiveDone ==
  ASSUME TypeInv, NEW p \in Node, NEW q \in Node, ReceiveDone(p, q)
  PROVE  TypeInv'
  <1>1. TypeOK /\ Takes(p, q, "DONE") /\ p \in Worker
    BY DEF ReceiveDone, TypeInv
  <1>2. channel' \in [Node -> [Node -> Seq(Frame)]] /\ TimeOfReceipt(p, q) \in Timestamp
    BY <1>1, TypeTakes
  <1>3. q \in Worker
    <2>1. CASE pc[p] = "serving"
      <3>1. AcceptsByWorker(p, q, Received(p, q), TimeOfReceipt(p, q))
        BY <1>1, <2>1, TakesWhen
      <3>2. Received(p, q).type = "DONE"
        BY <1>1, TypeTakes
      <3> QED
        BY <3>1, <3>2, NodeFacts DEF AcceptsByWorker
    <2>2. CASE pc[p] # "serving"
      BY <1>1, <2>2, TakesWhen DEF Expected
    <2> QED
      BY <2>1, <2>2
  <1>4. clock' \in [Node -> Timestamp]
    BY <1>1, <1>2 DEF ReceiveDone, Ticks, TypeOK
  <1> QED
    BY <1>1, <1>2, <1>3, <1>4
       DEF ReceiveDone, TypeInv, TypeOK, protocol, accounts, events

-----------------------------------------------------------------------------
(* The other actions of a node. *)

LEMMA TypeReportHistory ==
  ASSUME TypeInv, NEW p \in Node, ReportHistory(p)
  PROVE  TypeInv'
  <1>1. TypeOK /\ p \in Worker /\ FitsHistory(clock[p]) /\ clock[p] \in Timestamp
    BY NodeFacts DEF ReportHistory, Served, TypeInv, TypeOK
  <1>2. ledger' = [ledger EXCEPT ![p] = Extend(ledger[p], clock[p])]
    BY DEF ReportHistory
  <1>3. ledger' \in [Worker -> History] /\ ledger'[p] \in History
    <2>1. Extend(ledger[p], clock[p]) \in History
      BY <1>1, ClockFacts, ExtendType DEF TypeOK
    <2> QED
      BY <1>1, <1>2, <2>1 DEF TypeOK
  <1>4. clock' \in [Node -> Timestamp] /\ outbox' \in [Node -> {Idle} \cup Output]
    <2>1. Sends(p, clock[p], "BALANCE_HISTORY", ledger'[p], {PARENT_ID})
      BY DEF ReportHistory
    <2>2. {PARENT_ID} \in SUBSET Node /\ "BALANCE_HISTORY" \in MessageType
      BY NodeFacts DEF MessageType
    <2> QED
      BY <1>1, <1>3, <2>1, <2>2, TypeSends
  <1>5. pc' \in [Node -> State] /\ pc'[PARENT_ID] = pc[PARENT_ID]
    BY <1>1, NodeFacts DEF ReportHistory, Goto, TypeOK, State
  <1> QED
    BY <1>1, <1>3, <1>4, <1>5
       DEF ReportHistory, TypeInv, TypeOK, protocol, accounts, events

LEMMA TypeNode ==
  ASSUME TypeInv, NEW p \in Node, NodeNext(p)
  PROVE  TypeInv'
  <1> USE DEF protocol, accounts, events
  <1>1. TypeOK
    BY DEF TypeInv
  <1>2. CASE AnnounceStarted(p)
    <2>1. /\ Sends(p, clock[p], "STARTED", Nothing, Node \ {p})
          /\ p \in Worker /\ p # PARENT_ID /\ clock[p] \in Timestamp
      BY <1>1, <1>2, NodeFacts DEF AnnounceStarted, TypeOK
    <2>2. clock' \in [Node -> Timestamp] /\ outbox' \in [Node -> {Idle} \cup Output]
      <3>1. "STARTED" \in MessageType /\ Node \ {p} \in SUBSET Node
        BY DEF MessageType
      <3> QED
        BY <1>1, <2>1, <3>1, TypeSends
    <2>3. pc' \in [Node -> State] /\ pc'[PARENT_ID] = pc[PARENT_ID]
      BY <1>1, <1>2, <2>1, NodeFacts DEF AnnounceStarted, Goto, TypeOK, State
    <2> QED
      BY <1>1, <1>2, <2>2, <2>3 DEF AnnounceStarted, TypeInv, TypeOK
  <1>3. CASE PassStarted(p)
    <2> DEFINE state == IF p = PARENT_ID THEN "robbing" ELSE "serving"
    <2>1. /\ state \in State
          /\ p = PARENT_ID => state \notin {"unborn", "serving", "reporting", "acking"}
      BY DEF State
    <2>2. Goto(p, state) /\ UNCHANGED <<clock, channel, outbox, protocol, accounts>>
      BY <1>3 DEF PassStarted
    <2> HIDE DEF state
    <2> QED
      BY <2>1, <2>2, TypeGoto
  <1>4. CASE ReportHistory(p)
    BY <1>4, TypeReportHistory
  <1>5. CASE ExitChild(p)
    <2>1. "exited" \in State
      BY DEF State, Lifecycle, Over
    <2>2. Goto(p, "exited") /\ UNCHANGED <<clock, channel, outbox, protocol, accounts>>
      BY <1>5 DEF ExitChild
    <2> QED
      BY <2>1, <2>2, TypeGoto
  <1>6. ASSUME NEW q \in Node \ {p}, AwaitStarted(p, q)
        PROVE  TypeInv'
    <2>1. Takes(p, q, "STARTED")
      BY <1>6 DEF AwaitStarted
    <2>2. channel' \in [Node -> [Node -> Seq(Frame)]] /\ TimeOfReceipt(p, q) \in Timestamp
      BY <1>1, <2>1, TypeTakes
    <2>3. peer[p] \in Worker
      <3>1. CASE pc[p] = "serving"
        <4>1. AcceptsByWorker(p, q, Received(p, q), TimeOfReceipt(p, q))
          BY <1>1, <2>1, <3>1, TakesWhen
        <4>2. Received(p, q).type = "STARTED"
          BY <1>1, <2>1, TypeTakes
        <4> QED
          BY <4>1, <4>2 DEF AcceptsByWorker
      <3>2. CASE pc[p] # "serving"
        BY <1>1, <2>1, <3>2, TakesWhen
      <3> QED
        BY <3>1, <3>2
    <2>4. clock' \in [Node -> Timestamp]
      BY <1>1, <1>6, <2>2 DEF AwaitStarted, Ticks, TypeOK
    <2>5. peer' \in [Node -> 1..(Children + 2)]
      BY <1>1, <1>6, <2>3, TypeNextPeer DEF AwaitStarted
    <2> QED
      BY <1>1, <1>6, <2>2, <2>4, <2>5 DEF AwaitStarted, TypeInv, TypeOK
  <1>7. ASSUME NEW q \in Node \ {p},
               \/ WriteFrame(p, q) \/ ReceiveOrder(p, q) \/ ReceiveTransfer(p, q)
               \/ ReceiveStop(p, q) \/ ReceiveDone(p, q)
        PROVE  TypeInv'
    BY <1>7, TypeWrite, TypeReceiveOrder, TypeReceiveTransfer, TypeReceiveStop, TypeReceiveDone
  <1>8. CASE \/ PeersClosed(p) \/ Refuse(p)
             \/ \E q \in Node \ {p} : BrokenPipe(p, q) \/ RejectFrame(p, q)
    BY <1>8, TypeFatal DEF PeersClosed, Refuse, BrokenPipe, RejectFrame
  <1> QED
    BY <1>2, <1>3, <1>4, <1>5, <1>6, <1>7, <1>8 DEF NodeNext

LEMMA TypeParent ==
  ASSUME TypeInv, ParentNext
  PROVE  TypeInv'
  <1> USE DEF protocol, accounts, events
  <1>1. TypeOK /\ PARENT_ID \in Node /\ clock[PARENT_ID] \in Timestamp
    BY NodeFacts DEF TypeInv, TypeOK
  <1>2. {"TRANSFER", "STOP"} \subseteq MessageType /\ Worker \in SUBSET Node
    BY NodeFacts DEF MessageType
  <1>3. Len(Orders) \in Nat
    BY Pa3Assumption, LenProperties
  <1>4. CASE RequestTransfer
    <2> DEFINE order == Orders[next]
    <2>1. /\ Sends(PARENT_ID, clock[PARENT_ID], "TRANSFER", <<order>>, {order.src})
          /\ ValidOrder(order) /\ next <= Len(Orders)
      BY <1>4 DEF RequestTransfer, MoreOrders
    <2>2. order \in TransferOrder
      BY <1>1, <1>3, <2>1, Pa3Assumption, ElementOfSeq DEF TypeOK
    <2> HIDE DEF order
    <2>3. <<order>> \in OneOrder /\ {order.src} \in SUBSET Node
      BY <2>1, <2>2, OneOrderType, OrderFacts, NodeFacts
    <2>4. clock' \in [Node -> Timestamp] /\ outbox' \in [Node -> {Idle} \cup Output]
      BY <1>1, <1>2, <2>1, <2>3, TypeSends
    <2>5. pc' \in [Node -> State] /\ pc'[PARENT_ID] = "acking"
      BY <1>1, <1>4 DEF RequestTransfer, Goto, TypeOK, State
    <2> QED
      BY <1>1, <1>4, <2>1, <2>4, <2>5 DEF RequestTransfer, TypeInv, TypeOK
  <1>5. CASE BroadcastStop
    <2>1. Sends(PARENT_ID, clock[PARENT_ID], "STOP", Nothing, Worker)
      BY <1>5 DEF BroadcastStop
    <2>2. clock' \in [Node -> Timestamp] /\ outbox' \in [Node -> {Idle} \cup Output]
      BY <1>1, <1>2, <2>1, TypeSends
    <2>3. pc' \in [Node -> State] /\ pc'[PARENT_ID] = "collecting"
      BY <1>1, <1>5 DEF BroadcastStop, Goto, TypeOK, State
    <2>4. peer' \in [Node -> 1..(Children + 2)]
      BY <1>1, <1>5, NodeFacts DEF BroadcastStop, TypeOK
    <2> QED
      BY <1>1, <1>5, <2>2, <2>3, <2>4 DEF BroadcastStop, TypeInv, TypeOK
  <1>6. CASE AllDone
    <2>1. pc' \in [Node -> State] /\ pc'[PARENT_ID] = "gathering"
      BY <1>1, <1>6 DEF AllDone, Goto, TypeOK, State
    <2>2. peer' \in [Node -> 1..(Children + 2)]
      BY <1>1, <1>6, NodeFacts DEF AllDone, TypeOK
    <2> QED
      BY <1>1, <1>6, <2>1, <2>2 DEF AllDone, TypeInv, TypeOK
  <1>7. CASE FinishHistory
    <2>1. "reaping" \in State
      BY DEF State, Lifecycle
    <2> QED
      BY <1>1, <1>7, <2>1, TypeGoto DEF FinishHistory
  <1>8. ASSUME NEW q \in Worker, AwaitAck(q)
        PROVE  TypeInv'
    <2>1. Takes(PARENT_ID, q, "ACK") /\ q \in Node /\ pc[PARENT_ID] # "serving"
      BY <1>1, <1>8, NodeFacts DEF AwaitAck, TypeOK
    <2>2. channel' \in [Node -> [Node -> Seq(Frame)]] /\ TimeOfReceipt(PARENT_ID, q) \in Timestamp
      BY <1>1, <2>1, TypeTakes
    <2>3. pc[PARENT_ID] = "acking"
      BY <1>1, <2>1, TakesWhen DEF Expected
    <2>4. next' \in 1..(Len(Orders) + 1)
      BY <1>1, <1>3, <1>8, <2>3 DEF AwaitAck, TypeInv, TypeOK
    <2>5. clock' \in [Node -> Timestamp]
      BY <1>1, <1>8, <2>2 DEF AwaitAck, Ticks, TypeOK
    <2>6. pc' \in [Node -> State] /\ pc'[PARENT_ID] = "robbing"
      BY <1>1, <1>8 DEF AwaitAck, Goto, TypeOK, State
    <2> QED
      BY <1>1, <1>8, <2>2, <2>4, <2>5, <2>6 DEF AwaitAck, TypeInv, TypeOK
  <1>9. ASSUME NEW q \in Worker, AwaitDone(q) \/ AwaitHistory(q)
        PROVE  TypeInv'
    <2>1. PICK type \in {"DONE", "BALANCE_HISTORY"} :
            /\ Takes(PARENT_ID, q, type)
            /\ type = "DONE" => AwaitDone(q)
            /\ type = "BALANCE_HISTORY" => AwaitHistory(q)
      BY <1>9 DEF AwaitDone, AwaitHistory
    <2>2. q \in Node /\ pc[PARENT_ID] # "serving"
      BY <1>1, NodeFacts DEF TypeOK
    <2>3. /\ channel' \in [Node -> [Node -> Seq(Frame)]]
          /\ TimeOfReceipt(PARENT_ID, q) \in Timestamp
          /\ Received(PARENT_ID, q) \in Frame /\ Received(PARENT_ID, q).type = type
      BY <1>1, <2>1, <2>2, TypeTakes
    <2>4. pc[PARENT_ID] \in {"collecting", "gathering"}
      BY <1>1, <2>1, <2>2, TakesWhen DEF Expected
    <2>5. peer[PARENT_ID] \in Worker
      BY <1>1, <2>1, <2>2, <2>4, TakesWhen
    <2>6. peer' \in [Node -> 1..(Children + 2)]
      BY <1>1, <1>9, <2>5, TypeNextPeer DEF AwaitDone, AwaitHistory
    <2>7. clock' \in [Node -> Timestamp]
      BY <1>1, <1>9, <2>3 DEF AwaitDone, AwaitHistory, Ticks, TypeOK
    <2>8. history' \in [Worker -> {Nothing} \cup History]
      BY <1>1, <2>1, <2>3, FrameFacts DEF AwaitDone, AwaitHistory, TypeOK
    <2> QED
      BY <1>1, <1>9, <2>3, <2>6, <2>7, <2>8 DEF AwaitDone, AwaitHistory, TypeInv, TypeOK
  <1> QED
    BY <1>4, <1>5, <1>6, <1>7, <1>8, <1>9 DEF ParentNext

LEMMA TypeStep == TypeInv /\ [Next]_vars => TypeInv'
  <1> SUFFICES ASSUME TypeInv, [Next]_vars PROVE TypeInv'
    OBVIOUS
  <1>1. CASE \E p \in Node : NodeNext(p)
    BY <1>1, TypeNode
  <1>2. CASE ParentNext
    BY <1>2, TypeParent
  <1>3. CASE Supervision \/ Signals
    <2>1. \E n \in Node, state \in {"starting", "boot", "aborting", "exited", "failed", "killed"} :
            Goto(n, state)
      BY <1>3, NodeFacts
         DEF Supervision, Signals, Supervise, AllForked, Fork, ForkFails, StopWorker, Reap, Kill
    <2>2. UNCHANGED <<clock, channel, outbox, protocol, accounts>>
      BY <1>3 DEF Supervision, Signals
    <2>3. {"starting", "boot", "aborting", "exited", "failed", "killed"}
            \subseteq State \ {"unborn", "serving", "reporting", "acking"}
      BY DEF State, Lifecycle, Over
    <2> QED
      BY <2>1, <2>2, <2>3, TypeGoto
  <1>4. CASE UNCHANGED vars
    BY <1>4 DEF vars, TypeInv, TypeOK
  <1> QED
    BY <1>1, <1>2, <1>3, <1>4 DEF Next

(* Every variable keeps its type, whatever the constants: the checks before   *)
(* the arithmetic of clock.c and history.c (CanSend, CanReceive, CanDebit,    *)
(* CanCredit, FitsHistory) are enough to keep every clock, every cell and the *)
(* length of every history within the C types, also in what is sent.          *)
THEOREM TypeCorrect == Spec => []TypeOK
  <1>1. TypeInv => TypeOK
    BY DEF TypeInv
  <1> QED
    BY <1>1, TypeInit, TypeStep, PTL DEF Spec

(* The frame p is about to write; the frames from p to q, in their order: the *)
(* ones in the pipe and the one to be written; and as a set.                  *)
Sending(p) == [type |-> outbox[p].type, time |-> clock[p], payload |-> outbox[p].payload]
Way(p, q) == IF q \in outbox[p].to THEN Append(channel[p][q], Sending(p)) ELSE channel[p][q]
Frames(p, q) == Range(Way(p, q))

(* A node sends STARTED first, then transfers or acknowledgements, then DONE *)
(* or STOP, and last its history.                                            *)
Rank(m) ==
  CASE m.type = "STARTED" -> 1
    [] m.type \in {"TRANSFER", "ACK"} -> 2
    [] m.type \in {"DONE", "STOP"} -> 3
    [] OTHER -> 4

Ascending(s) == \A i, j \in DOMAIN s : i < j => Rank(s[i]) < Rank(s[j])

-----------------------------------------------------------------------------
(* Ways in a step: n sends f to some, after taking the first frame from q or *)
(* not.                                                                      *)

Sent(n, f, to) ==
  \A a, b \in Node :
    Way(a, b)' = IF a = n /\ b \in to THEN Append(Way(a, b), f) ELSE Way(a, b)

Took(n, q, f, to) ==
  \A a, b \in Node :
    Way(a, b)' = IF a = n /\ b \in to THEN Append(Way(a, b), f)
                 ELSE IF a = q /\ b = n THEN Tail(Way(a, b)) ELSE Way(a, b)

Silent == \A a, b \in Node : Frames(a, b)' = Frames(a, b)

Gives(n, f, to) ==
  \A a, b \in Node :
    Frames(a, b)' = IF a = n /\ b \in to THEN Frames(a, b) \cup {f} ELSE Frames(a, b)

Gets(n, q, m, f, to) ==
  /\ m \in Frames(q, n)
  /\ \A x \in Frames(q, n) \ {m} : Rank(m) < Rank(x)
  /\ \A a, b \in Node :
       Frames(a, b)' = IF a = n /\ b \in to THEN Frames(a, b) \cup {f}
                       ELSE IF a = q /\ b = n THEN Frames(a, b) \ {m} ELSE Frames(a, b)

OrderInv == \A a, b \in Node : Ascending(Way(a, b))

LEMMA RankFacts == \A m : Rank(m) \in 1..4
  BY DEF Rank

LEMMA AppendFrame ==
  ASSUME NEW s \in Seq(Frame), NEW f \in Frame
  PROVE  /\ Range(Append(s, f)) = Range(s) \cup {f}
         /\ Ascending(s) /\ (\A x \in Range(s) : Rank(x) < Rank(f)) => Ascending(Append(s, f))
  <1> DEFINE t == Append(s, f)
  <1>1. /\ Len(s) \in Nat /\ DOMAIN s = 1..Len(s) /\ DOMAIN t = 1..(Len(s) + 1)
        /\ t[Len(s) + 1] = f /\ \A i \in 1..Len(s) : t[i] = s[i]
    BY AppendProperties
  <1> HIDE DEF t
  <1>2. Range(t) = Range(s) \cup {f}
    BY <1>1 DEF Range
  <1>3. Ascending(s) /\ (\A x \in Range(s) : Rank(x) < Rank(f)) => Ascending(t)
    BY <1>1 DEF Range, Ascending
  <1> QED
    BY <1>2, <1>3 DEF t

LEMMA TakeFrame ==
  ASSUME NEW s \in Seq(Frame), s # <<>>, Ascending(s)
  PROVE  /\ Head(s) \in Range(s)
         /\ Range(Tail(s)) = Range(s) \ {Head(s)}
         /\ \A x \in Range(s) \ {Head(s)} : Rank(Head(s)) < Rank(x)
         /\ Ascending(Tail(s))
  <1> DEFINE t == Tail(s)
             h == Head(s)
  <1>1. /\ Len(s) \in Nat \ {0} /\ DOMAIN s = 1..Len(s) /\ DOMAIN t = 1..(Len(s) - 1)
        /\ s[1] = h /\ \A i \in 1..(Len(s) - 1) : t[i] = s[i + 1]
    BY HeadTailProperties, EmptySeq, LenProperties
  <1> HIDE DEF t, h
  <1>2. \A i \in DOMAIN s : i # 1 => Rank(h) < Rank(s[i]) /\ s[i] = t[i - 1] /\ i - 1 \in DOMAIN t
    BY <1>1 DEF Ascending
  <1>3. \A i \in DOMAIN s : i # 1 => s[i] # h
    BY <1>1, <1>2, RankFacts
  <1>4. h \in Range(s) /\ Range(t) = Range(s) \ {h}
    <2>1. Range(s) \ {h} \subseteq Range(t)
      BY <1>1, <1>2 DEF Range
    <2>2. ASSUME NEW i \in DOMAIN t PROVE t[i] \in Range(s) \ {h}
      <3>1. i + 1 \in DOMAIN s /\ t[i] = s[i + 1] /\ i + 1 # 1
        BY <1>1
      <3> QED
        BY <1>3, <3>1 DEF Range
    <2>3. Range(t) \subseteq Range(s) \ {h}
      BY <2>2 DEF Range
    <2>4. h \in Range(s)
      BY <1>1 DEF Range
    <2> QED
      BY <2>1, <2>3, <2>4
  <1>5. \A x \in Range(s) \ {h} : Rank(h) < Rank(x)
    BY <1>1, <1>2 DEF Range
  <1>6. Ascending(t)
    BY <1>1 DEF Ascending
  <1> QED
    BY <1>4, <1>5, <1>6 DEF t, h

LEMMA WayType ==
  ASSUME TypeOK, NEW a \in Node, NEW b \in Node
  PROVE  /\ Way(a, b) \in Seq(Frame) /\ channel[a][b] \in Seq(Frame)
         /\ Frames(a, b) \subseteq Frame
  <1>1. channel[a][b] \in Seq(Frame)
    BY DEF TypeOK
  <1>2. b \in outbox[a].to => Sending(a) \in Frame
    <2>1. SUFFICES ASSUME b \in outbox[a].to PROVE Sending(a) \in Frame
      OBVIOUS
    <2>2. outbox[a] \in Output /\ clock[a] \in Timestamp
      BY <2>1 DEF TypeOK, Idle
    <2>3. Fits(Sending(a))
      BY <2>2 DEF Output, Fits, Sending
    <2> QED
      BY <2>2, <2>3 DEF Output, Frame, Sending
  <1>3. Way(a, b) \in Seq(Frame)
    BY <1>1, <1>2, AppendProperties DEF Way
  <1> QED
    BY <1>1, <1>3 DEF Frames, Range

(* Before n sends, its ways are its pipes. *)
Puts(n, f, to) ==
  \A a, b \in Node :
    Way(a, b)' = IF a = n
                 THEN IF b \in to THEN Append(channel'[n][b], f) ELSE channel'[n][b]
                 ELSE IF b \in outbox[a].to THEN Append(channel'[a][b], Sending(a))
                      ELSE channel'[a][b]

LEMMA WaySends ==
  ASSUME TypeOK, NEW n \in Node, NEW time, NEW type, NEW payload, NEW to,
         Sends(n, time, type, payload, to)
  PROVE  Puts(n, [type |-> type, time |-> ClockSend(time), payload |-> payload], to)
  <1> DEFINE t == ClockSend(time)
             f == [type |-> type, time |-> t, payload |-> payload]
  <1>1. /\ clock' = [clock EXCEPT ![n] = t]
        /\ outbox' = [outbox EXCEPT ![n] = ToWrite(type, payload, to)]
    BY DEF Sends
  <1> HIDE DEF t
  <1> SUFFICES ASSUME NEW a \in Node, NEW b \in Node
      PROVE  Way(a, b)' =
               IF a = n
               THEN IF b \in to THEN Append(channel'[n][b], f) ELSE channel'[n][b]
               ELSE IF b \in outbox[a].to THEN Append(channel'[a][b], Sending(a))
                    ELSE channel'[a][b]
    BY DEF Puts, t
  <1>2. CASE a # n
    BY <1>1, <1>2 DEF TypeOK, Way, Sending
  <1>3. CASE a = n
    <2>1. outbox'[n] = ToWrite(type, payload, to) /\ clock'[n] = t
      BY <1>1 DEF TypeOK
    <2> QED
      BY <1>3, <2>1 DEF Way, Sending, ToWrite, Idle
  <1> QED
    BY <1>2, <1>3

LEMMA WayTicks ==
  ASSUME TypeOK, NEW n \in Node, ~Writing(n), NEW t, NEW f,
         clock' = [clock EXCEPT ![n] = t], UNCHANGED outbox
  PROVE  Puts(n, f, {})
  <1> SUFFICES ASSUME NEW a \in Node, NEW b \in Node
      PROVE  Way(a, b)' =
               IF a = n THEN channel'[n][b]
               ELSE IF b \in outbox[a].to THEN Append(channel'[a][b], Sending(a))
                    ELSE channel'[a][b]
    BY DEF Puts
  <1>1. CASE a # n
    BY <1>1 DEF TypeOK, Way, Sending
  <1>2. CASE a = n
    BY <1>2 DEF Writing, Way
  <1> QED
    BY <1>1, <1>2

LEMMA PutsSent ==
  ASSUME NEW n \in Node, NEW f, NEW to, Puts(n, f, to), ~Writing(n), UNCHANGED channel
  PROVE  Sent(n, f, to)
  <1>1. \A b \in Node : Way(n, b) = channel[n][b]
    BY DEF Way, Writing
  <1> QED
    BY <1>1 DEF Puts, Sent, Way

LEMMA PutsTook ==
  ASSUME TypeOK, NEW n \in Node, NEW q \in Node \ {n}, NEW any, Takes(n, q, any),
         NEW f, NEW to, Puts(n, f, to)
  PROVE  /\ Took(n, q, f, to)
         /\ Way(q, n) # <<>> /\ Received(n, q) = Head(Way(q, n))
  <1> DEFINE s == channel[q][n]
  <1>1. ~Writing(n) /\ s # <<>> /\ channel' = [channel EXCEPT ![q][n] = Tail(s)]
    BY DEF Takes, Reading
  <1>2. s \in Seq(Frame)
    BY DEF TypeOK
  <1>3. \A b \in Node : Way(n, b) = channel[n][b]
    BY <1>1 DEF Way, Writing
  <1>4. /\ Way(q, n) # <<>> /\ Received(n, q) = Head(Way(q, n))
        /\ Tail(Way(q, n)) = IF n \in outbox[q].to THEN Append(Tail(s), Sending(q)) ELSE Tail(s)
    <2> HIDE DEF s
    <2>1. \A x : /\ Append(s, x) # <<>> /\ Head(Append(s, x)) = Head(s)
                 /\ Tail(Append(s, x)) = Append(Tail(s), x)
      BY <1>1, <1>2
    <2>2. Way(q, n) = IF n \in outbox[q].to THEN Append(s, Sending(q)) ELSE s
      BY DEF Way, s
    <2>3. Received(n, q) = Head(s)
      BY DEF Received, s
    <2> QED
      BY <1>1, <2>1, <2>2, <2>3
  <1>5. \A a, b \in Node : channel'[a][b] = IF a = q /\ b = n THEN Tail(s) ELSE channel[a][b]
    BY <1>1 DEF TypeOK
  <1>6. ASSUME NEW a \in Node, NEW b \in Node
        PROVE  Way(a, b)' = IF a = n /\ b \in to THEN Append(Way(a, b), f)
                            ELSE IF a = q /\ b = n THEN Tail(Way(a, b)) ELSE Way(a, b)
    <2>1. Way(a, b)' =
           IF a = n THEN IF b \in to THEN Append(channel'[n][b], f) ELSE channel'[n][b]
           ELSE IF b \in outbox[a].to THEN Append(channel'[a][b], Sending(a)) ELSE channel'[a][b]
      BY DEF Puts
    <2>2. CASE a = n
      BY <1>3, <1>5, <2>1, <2>2
    <2>3. CASE a = q /\ b = n
      BY <1>4, <1>5, <2>1, <2>3
    <2>4. CASE a # n /\ ~(a = q /\ b = n)
      <3>1. channel'[a][b] = channel[a][b]
        BY <1>5, <2>4
      <3> QED
        BY <2>1, <2>4, <3>1 DEF Way
    <2> QED
      BY <2>2, <2>3, <2>4
  <1> QED
    BY <1>4, <1>6 DEF Took

(* What steps do to the frames under way. *)

LEMMA GivesFrame ==
  ASSUME TypeOK, OrderInv, NEW n \in Node, NEW f \in Frame, NEW to, Sent(n, f, to),
         \A b \in Node : b \in to => \A x \in Frames(n, b) : Rank(x) < Rank(f)
  PROVE  Gives(n, f, to) /\ OrderInv'
  <1>1. ASSUME NEW a \in Node, NEW b \in Node
        PROVE  /\ Frames(a, b)' = IF a = n /\ b \in to THEN Frames(a, b) \cup {f} ELSE Frames(a, b)
               /\ Ascending(Way(a, b))'
    <2>1. Way(a, b)' = IF a = n /\ b \in to THEN Append(Way(a, b), f) ELSE Way(a, b)
      BY DEF Sent
    <2>2. Way(a, b) \in Seq(Frame) /\ Ascending(Way(a, b))
      BY WayType DEF OrderInv
    <2>3. CASE a = n /\ b \in to
      <3>1. Frames(a, b) = Range(Way(a, b)) /\ Frames(a, b)' = Range(Way(a, b)')
        BY DEF Frames
      <3>2. \A x \in Range(Way(a, b)) : Rank(x) < Rank(f)
        BY <2>3, <3>1
      <3>3. Ascending(Way(a, b))' <=> Ascending(Way(a, b)')
        BY DEF Ascending, Rank
      <3> QED
        BY <2>1, <2>2, <2>3, <3>1, <3>2, <3>3, AppendFrame
    <2>4. CASE ~(a = n /\ b \in to)
      BY <2>1, <2>2, <2>4 DEF Frames, Ascending, Rank, Range
    <2> QED
      BY <2>3, <2>4
  <1> QED
    BY <1>1 DEF Gives, OrderInv

LEMMA GetsFrame ==
  ASSUME TypeOK, OrderInv, NEW n \in Node, NEW q \in Node \ {n}, NEW f, NEW to,
         Took(n, q, f, to), Way(q, n) # <<>>,
         to # {} => f \in Frame,
         \A b \in Node : b \in to => \A x \in Frames(n, b) : Rank(x) < Rank(f)
  PROVE  Gets(n, q, Head(Way(q, n)), f, to) /\ OrderInv'
  <1> DEFINE m == Head(Way(q, n))
  <1>1. /\ m \in Frames(q, n) /\ Range(Tail(Way(q, n))) = Frames(q, n) \ {m}
        /\ \A x \in Frames(q, n) \ {m} : Rank(m) < Rank(x)
        /\ Ascending(Tail(Way(q, n)))
    <2>1. Way(q, n) \in Seq(Frame) /\ Ascending(Way(q, n))
      BY WayType DEF OrderInv
    <2> QED
      BY <2>1, TakeFrame DEF Frames
  <1>2. ASSUME NEW a \in Node, NEW b \in Node
        PROVE  /\ Frames(a, b)' = IF a = n /\ b \in to THEN Frames(a, b) \cup {f}
                       ELSE IF a = q /\ b = n THEN Frames(a, b) \ {m} ELSE Frames(a, b)
               /\ Ascending(Way(a, b))'
    <2>1. Way(a, b)' = IF a = n /\ b \in to THEN Append(Way(a, b), f)
                       ELSE IF a = q /\ b = n THEN Tail(Way(a, b)) ELSE Way(a, b)
      BY DEF Took
    <2>2. Way(a, b) \in Seq(Frame) /\ Ascending(Way(a, b))
      BY WayType DEF OrderInv
    <2>3. Frames(a, b) = Range(Way(a, b)) /\ Frames(a, b)' = Range(Way(a, b)')
      BY DEF Frames
    <2>4. Ascending(Way(a, b))' <=> Ascending(Way(a, b)')
      BY DEF Ascending, Rank
    <2>5. CASE a = n /\ b \in to
      <3>1. \A x \in Range(Way(a, b)) : Rank(x) < Rank(f)
        BY <2>3, <2>5
      <3>2. f \in Frame
        BY <2>5
      <3> QED
        BY <2>1, <2>2, <2>3, <2>4, <2>5, <3>1, <3>2, AppendFrame
    <2>6. CASE a = q /\ b = n
      BY <1>1, <2>1, <2>3, <2>4, <2>6
    <2>7. CASE ~(a = n /\ b \in to) /\ ~(a = q /\ b = n)
      BY <2>1, <2>2, <2>3, <2>4, <2>7
    <2> QED
      BY <2>5, <2>6, <2>7
  <1> QED
    BY <1>1, <1>2 DEF Gets, OrderInv

(* The tail of a multicast was under way already. *)
LEMMA WriteSilent ==
  ASSUME TypeOK, NEW n \in Node, NEW q \in Node, WriteFrame(n, q)
  PROVE  \A a, b \in Node : Way(a, b)' = Way(a, b)
  <1>1. /\ q \in outbox[n].to /\ clock' = clock
        /\ channel' = [channel EXCEPT ![n][q] = Append(channel[n][q], Sending(n))]
        /\ outbox' = [outbox EXCEPT ![n] =
                        ToWrite(outbox[n].type, outbox[n].payload, outbox[n].to \ {q})]
    BY DEF WriteFrame, NextTarget, Sending
  <1> SUFFICES ASSUME NEW a \in Node, NEW b \in Node PROVE Way(a, b)' = Way(a, b)
    OBVIOUS
  <1>2. CASE a # n
    BY <1>1, <1>2 DEF TypeOK, Way, Sending
  <1>3. CASE a = n
    <2>1. channel'[n][b] = IF b = q THEN Append(channel[n][q], Sending(n)) ELSE channel[n][b]
      BY <1>1 DEF TypeOK
    <2>2. outbox'[n] = ToWrite(outbox[n].type, outbox[n].payload, outbox[n].to \ {q})
      BY <1>1 DEF TypeOK
    <2>3. /\ outbox'[n].to = outbox[n].to \ {q}
          /\ outbox'[n].to # {} => Sending(n)' = Sending(n)
      BY <1>1, <2>2 DEF ToWrite, Idle, Sending
    <2>4. CASE b = q
      BY <1>1, <1>3, <2>1, <2>3, <2>4 DEF Way
    <2>5. CASE b # q
      <3>1. /\ b \in outbox'[n].to <=> b \in outbox[n].to
            /\ b \in outbox'[n].to => Sending(n)' = Sending(n)
            /\ channel'[n][b] = channel[n][b]
        BY <2>1, <2>3, <2>5
      <3>2. Way(n, b)' = Way(n, b)
        BY <3>1 DEF Way
      <3> QED
        BY <1>3, <3>2 DEF Way, Sending
    <2> QED
      BY <2>4, <2>5
  <1> QED
    BY <1>2, <1>3

LEMMA SilentFrames ==
  ASSUME OrderInv, \A a, b \in Node : Way(a, b)' = Way(a, b)
  PROVE  Silent /\ OrderInv'
  BY DEF Silent, OrderInv, Frames, Range, Ascending, Rank

-----------------------------------------------------------------------------
(* Where a node may go in a step, and what only grows. *)

Born(p) == pc[p] \notin {"unborn", "boot"}
Reported(p) == pc[p] \notin {"unborn", "boot", "starting", "serving"}
Passed == peer[PARENT_ID] > Children /\ ~Writing(PARENT_ID)

WorkerMoves(p) ==
  \/ pc'[p] = pc[p]
  \/ pc[p] = "unborn" /\ pc'[p] = "boot" /\ pc[PARENT_ID] = "boot"
  \/ pc[p] = "boot" /\ pc'[p] = "starting"
  \/ pc[p] = "starting" /\ pc'[p] = "serving"
  \/ pc[p] = "serving" /\ pc'[p] = "reporting" /\ p \in stopped /\ done[p] = Peers(p)
  \/ pc[p] = "reporting" /\ pc'[p] = "exited"
  \/ pc[p] \notin Over \cup {"unborn"} /\ pc'[p] \in {"failed", "killed"}

ParentMoves ==
  \/ pc'[PARENT_ID] = pc[PARENT_ID]
  \/ pc[PARENT_ID] = "boot" /\ pc'[PARENT_ID] \in {"starting", "aborting"}
  \/ pc[PARENT_ID] = "starting" /\ pc'[PARENT_ID] = "robbing" /\ Passed
  \/ pc[PARENT_ID] = "robbing" /\ pc'[PARENT_ID] = "acking"
  \/ pc[PARENT_ID] = "acking" /\ pc'[PARENT_ID] = "robbing" /\ ~Writing(PARENT_ID)
  \/ pc[PARENT_ID] = "robbing" /\ pc'[PARENT_ID] = "collecting" /\ ~MoreOrders
  \/ pc[PARENT_ID] = "collecting" /\ pc'[PARENT_ID] = "gathering" /\ Passed
  \/ pc[PARENT_ID] = "gathering" /\ pc'[PARENT_ID] = "reaping" /\ Passed
  \/ pc[PARENT_ID] \notin Over /\ pc'[PARENT_ID] \in {"stopping", "killed"}
  \/ /\ pc[PARENT_ID] \in {"reaping", "stopping", "aborting"}
     /\ pc'[PARENT_ID] \in {"exited", "failed"}
     /\ \A p \in Worker : pc[p] \in Over \cup {"unborn"}
     /\ pc'[PARENT_ID] = "exited" =>
          pc[PARENT_ID] = "reaping" /\ \A p \in Worker : pc[p] = "exited"

PcMoves == ParentMoves /\ \A p \in Worker : WorkerMoves(p)

Grows ==
  /\ stopped \subseteq stopped'
  /\ \A p \in Worker : done[p] \subseteq done'[p]
  /\ \A p \in Worker : ledger'[p] = ledger[p] \/ pc[p] = "serving"
  /\ \A p \in Node : clock[p] <= clock'[p]

LEMMA FatalMoves ==
  ASSUME TypeOK, NEW n \in Node, Fatal(n), pc[n] \notin Over \cup {"unborn"}
  PROVE  PcMoves
  BY NodeFacts DEF Fatal, Fail, Goto, TypeOK, PcMoves, WorkerMoves, ParentMoves, Over

LEMMA StillMoves == UNCHANGED pc => PcMoves
  BY DEF PcMoves, WorkerMoves, ParentMoves

LEMMA ReadingMoves ==
  ASSUME TypeOK, NEW n \in Node, NEW q, q \in Awaited(n)
  PROVE  pc[n] \notin Over \cup {"unborn", "boot"}
  BY DEF Awaited, Over

LEMMA StepMoves == TypeOK /\ [Next]_vars => PcMoves
<1> SUFFICES ASSUME TypeOK, [Next]_vars PROVE PcMoves
  OBVIOUS
<1> USE NodeFacts
<1>1. ASSUME NEW n \in Node, NodeNext(n) PROVE PcMoves
  <2>1. CASE AnnounceStarted(n) \/ ExitChild(n)
    BY <2>1 DEF AnnounceStarted, ExitChild, Goto, TypeOK, PcMoves, WorkerMoves, ParentMoves
  <2>2. CASE PassStarted(n)
    BY <2>2 DEF PassStarted, PastTheLast, Passed, Goto, TypeOK, PcMoves, WorkerMoves, ParentMoves
  <2>3. CASE ReportHistory(n)
    BY <2>3 DEF ReportHistory, Served, Goto, TypeOK, PcMoves, WorkerMoves, ParentMoves
  <2>4. ASSUME NEW q \in Node \ {n},
               \/ WriteFrame(n, q) \/ AwaitStarted(n, q) \/ ReceiveOrder(n, q)
               \/ ReceiveTransfer(n, q) \/ ReceiveStop(n, q) \/ ReceiveDone(n, q)
        PROVE  PcMoves
    BY <2>4, StillMoves
       DEF WriteFrame, AwaitStarted, ReceiveOrder, ReceiveTransfer, ReceiveStop, ReceiveDone
  <2>5. ASSUME NEW q \in Node \ {n}, BrokenPipe(n, q) PROVE PcMoves
    BY <2>5, FatalMoves DEF BrokenPipe, NextTarget, Closed
  <2>6. ASSUME NEW q \in Node \ {n}, RejectFrame(n, q) PROVE PcMoves
    BY <2>6, FatalMoves, ReadingMoves DEF RejectFrame, Reading
  <2>7. CASE PeersClosed(n)
    <3>1. PICK q : q \in Awaited(n)
      BY <2>7 DEF PeersClosed
    <3> QED
      BY <2>7, <3>1, FatalMoves, ReadingMoves DEF PeersClosed
  <2>8. CASE Refuse(n)
    BY <2>8, FatalMoves DEF Refuse, Refuses, Served, Gathered, Over
  <2> QED
    BY <1>1, <2>1, <2>2, <2>3, <2>4, <2>5, <2>6, <2>7, <2>8 DEF NodeNext
<1>2. CASE ParentNext
  <2>1. CASE RequestTransfer \/ BroadcastStop
    BY <2>1 DEF RequestTransfer, BroadcastStop, Robbing, Goto, TypeOK,
                PcMoves, WorkerMoves, ParentMoves
  <2>2. CASE AllDone \/ FinishHistory
    BY <2>2 DEF AllDone, FinishHistory, Gathered, PastTheLast, Passed, Goto, TypeOK,
                PcMoves, WorkerMoves, ParentMoves
  <2>3. ASSUME NEW q \in Worker, AwaitAck(q) PROVE PcMoves
    <3>1. Takes(PARENT_ID, q, "ACK") /\ q \in Node /\ pc[PARENT_ID] # "serving"
      BY <2>3 DEF AwaitAck, TypeOK
    <3>2. pc[PARENT_ID] = "acking"
      BY <3>1, TakesWhen DEF Expected
    <3> QED
      BY <2>3, <3>1, <3>2 DEF AwaitAck, Takes, Reading, Goto, TypeOK,
                              PcMoves, WorkerMoves, ParentMoves
  <2>4. ASSUME NEW q \in Worker, AwaitDone(q) \/ AwaitHistory(q) PROVE PcMoves
    BY <2>4, StillMoves DEF AwaitDone, AwaitHistory
  <2> QED
    BY <1>2, <2>1, <2>2, <2>3, <2>4 DEF ParentNext
<1>3. CASE Supervision
  <2>1. CASE AllForked \/ Reap
    BY <2>1 DEF AllForked, Reap, Goto, TypeOK, Over, PcMoves, WorkerMoves, ParentMoves
  <2>2. ASSUME NEW p \in Worker, Fork(p) \/ ForkFails(p) \/ StopWorker(p) PROVE PcMoves
    BY <2>2 DEF Fork, ForkFails, StopWorker, NextToFork, Goto, TypeOK, Over,
                PcMoves, WorkerMoves, ParentMoves
  <2> QED
    BY <1>3, <2>1, <2>2 DEF Supervision, Supervise
<1>4. CASE Signals
  BY <1>4 DEF Signals, Kill, Goto, TypeOK, Over, PcMoves, WorkerMoves, ParentMoves
<1>5. CASE UNCHANGED vars
  BY <1>5, StillMoves DEF vars
<1> QED
  BY <1>1, <1>2, <1>3, <1>4, <1>5 DEF Next

-----------------------------------------------------------------------------
(* The inductive invariant of the protocol. *)

(* What a frame under way says of the node it comes from. *)
FrameOk(a, b, m) ==
  /\ a # b
  /\ a = PARENT_ID =>
       m.type \in {"TRANSFER", "STOP"} /\ pc[PARENT_ID] \notin {"boot", "starting", "aborting"}
  /\ a \in Worker =>
       /\ Born(a)
       /\ m.type \in {"STARTED", "DONE"} \cup
            (IF b = PARENT_ID THEN {"ACK", "BALANCE_HISTORY"} ELSE {"TRANSFER"})
  /\ m.type = "DONE" => a \in stopped
  /\ m.type = "BALANCE_HISTORY" => Reported(a) /\ m.payload = ledger[a]

SenderInv == \A a, b \in Node : \A m \in Frames(a, b) : FrameOk(a, b, m)

(* What a node has heard of another says what is still to come from it. *)
DoneHeard(q) ==
  \/ pc[PARENT_ID] = "collecting" /\ q < peer[PARENT_ID]
  \/ pc[PARENT_ID] = "gathering"

HistoryHeard(q) ==
  \/ pc[PARENT_ID] = "gathering" /\ q < peer[PARENT_ID]
  \/ pc[PARENT_ID] \in {"reaping", "exited"}

ReceiverInv ==
  \A p \in Worker :
    /\ pc[p] \in {"unborn", "boot", "starting", "serving", "reporting"} \cup Over
    /\ \A q \in done[p] : q \in stopped /\ \A m \in Frames(q, p) : Rank(m) > 3
    /\ p \in stopped => \A m \in Frames(PARENT_ID, p) : Rank(m) > 3
    /\ pc[p] \in {"reporting", "exited"} => p \in stopped /\ done[p] = Peers(p)
    /\ DoneHeard(p) => p \in stopped /\ \A m \in Frames(p, PARENT_ID) : Rank(m) > 3
    /\ HistoryHeard(p) =>
         Frames(p, PARENT_ID) = {} /\ history[p] = ledger[p] /\ Reported(p)

(* The phases of the parent. *)
AllBorn == \A q \in Worker : Born(q)

Started ==
  \/ pc[PARENT_ID] \in {"robbing", "acking", "collecting", "gathering", "reaping", "exited"}
  \/ outgoing # <<>> \/ stopped # {}
  \/ \E b \in Node : Frames(PARENT_ID, b) # {}

Stopping ==
  \/ stopped # {}
  \/ \E b \in Node : \E m \in Frames(PARENT_ID, b) : m.type = "STOP"
  \/ pc[PARENT_ID] \in {"collecting", "gathering", "reaping", "exited"}

Money(m) == m.type \in {"TRANSFER", "ACK"}
NoMoney == \A a, b \in Node : \A m \in Frames(a, b) : ~Money(m)

PhaseInv ==
  /\ pc[PARENT_ID] = "robbing" => ~Writing(PARENT_ID)
  /\ pc[PARENT_ID] \in {"boot", "starting"} => \A q \in Worker : q < peer[PARENT_ID] => Born(q)
  /\ Started => AllBorn
  /\ Stopping =>
       /\ pc[PARENT_ID] \notin {"boot", "starting", "robbing", "acking"}
       /\ NoMoney /\ next = Len(Orders) + 1
       /\ Len(incoming) = Len(Orders) /\ Len(outgoing) = Len(Orders)

(* At most one frame is about money, and where it is says how far the order  *)
(* at hand has come.                                                         *)
MoneyOk(a, b, m) ==
  /\ next <= Len(Orders)
  /\ m.type = "TRANSFER" => m.payload = <<Orders[next]>>
  /\ a = PARENT_ID =>
       /\ b = Orders[next].src
       /\ Len(outgoing) = next - 1 /\ Len(incoming) = next - 1
       /\ next > 1 => incoming[next - 1].time < m.time
  /\ a \in Worker /\ b \in Worker =>
       /\ a = Orders[next].src /\ b = Orders[next].dst
       /\ Len(outgoing) = next /\ Len(incoming) = next - 1
       /\ m.time = outgoing[next].time
  /\ b = PARENT_ID =>
       /\ Len(outgoing) = next /\ Len(incoming) = next
       /\ incoming[next].time < m.time

MoneyInv ==
  /\ \A a, b, c, d \in Node : \A m \in Frames(a, b), k \in Frames(c, d) :
       Money(m) /\ Money(k) => a = c /\ b = d /\ m = k
  /\ \A a, b \in Node : \A m \in Frames(a, b) : Money(m) => MoneyOk(a, b, m)
  /\ pc[PARENT_ID] \in {"boot", "starting", "robbing"} =>
       /\ NoMoney
       /\ Len(outgoing) = next - 1 /\ Len(incoming) = next - 1
       /\ next > 1 => incoming[next - 1].time < clock[PARENT_ID]

BankInv == TypeInv /\ OrderInv /\ SenderInv /\ ReceiverInv /\ PhaseInv /\ MoneyInv

-----------------------------------------------------------------------------
(* What a step that sends f from n, or nothing, leaves as it was. *)

New(n, f, to) ==
  \A a, b \in Node : \A m \in Frames(a, b)' : m \in Frames(a, b) \/ (a = n /\ b \in to /\ m = f)

LEMMA NewFrames ==
  ASSUME NEW n, NEW f, NEW to
  PROVE  /\ Silent => New(n, f, to)
         /\ Gives(n, f, to) => New(n, f, to)
         /\ \A q, m : Gets(n, q, m, f, to) => New(n, f, to)
  BY DEF Silent, Gives, Gets, New

LEMMA BornStays == ASSUME PcMoves, NEW p \in Worker, Born(p) PROVE Born(p)'
  BY DEF PcMoves, WorkerMoves, Born

LEMMA ReportedStays == ASSUME PcMoves, NEW p \in Worker, Reported(p) PROVE Reported(p)'
  BY DEF PcMoves, WorkerMoves, Reported, Over

LEMMA SenderKept ==
  ASSUME SenderInv, PcMoves, Grows, NEW n, NEW f, NEW to, New(n, f, to),
         n \in Node => \A b \in Node : b \in to => FrameOk(n, b, f)'
  PROVE  SenderInv'
<1> USE NodeFacts
<1>1. ASSUME NEW a \in Node, NEW b \in Node, NEW m, FrameOk(a, b, m) PROVE FrameOk(a, b, m)'
  <2>1. a \in Worker => Born(a)'
    BY <1>1, BornStays DEF FrameOk
  <2>2. m.type = "DONE" => a \in stopped'
    BY <1>1 DEF FrameOk, Grows
  <2>3. a = PARENT_ID => pc'[PARENT_ID] \notin {"boot", "starting", "aborting"}
    BY <1>1 DEF FrameOk, PcMoves, ParentMoves
  <2>4. m.type = "BALANCE_HISTORY" => a \in Worker /\ Reported(a)' /\ ledger'[a] = ledger[a]
    BY <1>1, ReportedStays DEF FrameOk, Grows, Reported
  <2> QED
    BY <1>1, <2>1, <2>2, <2>3, <2>4 DEF FrameOk
<1>2. ASSUME NEW a \in Node, NEW b \in Node, NEW m \in Frames(a, b)' PROVE FrameOk(a, b, m)'
  <2>1. CASE m \in Frames(a, b)
    BY <1>1, <2>1 DEF SenderInv
  <2>2. CASE a = n /\ b \in to /\ m = f
    BY <2>2
  <2> QED
    BY <1>2, <2>1, <2>2 DEF New
<1> QED
  BY <1>2 DEF SenderInv

(* n may still send f to those who have not heard the last of it. *)
Fresh(n, f, to) ==
  IF n = PARENT_ID THEN to \cap stopped = {}
  ELSE ~Reported(n) /\ (n \in stopped => to = {PARENT_ID} /\ Rank(f) > 3)

LEMMA ReceiverHeard ==
  ASSUME TypeOK, ReceiverInv, PcMoves, Grows, NEW n, NEW f, NEW to, New(n, f, to),
         to # {} => Fresh(n, f, to), n = PARENT_ID => PARENT_ID \notin to,
         \A p \in Worker :
           /\ \A q \in done'[p] :
                q \in done[p] \/ (q \in stopped /\ \A m \in Frames(q, p)' : Rank(m) > 3)
           /\ p \in stopped' =>
                p \in stopped \/ \A m \in Frames(PARENT_ID, p)' : Rank(m) > 3
           /\ pc[p] # "serving" \/ pc'[p] # "serving" => done'[p] = done[p]
           /\ DoneHeard(p)' =>
                \/ DoneHeard(p)
                \/ p \in stopped /\ \A m \in Frames(p, PARENT_ID)' : Rank(m) > 3
           /\ HistoryHeard(p)' =>
                \/ HistoryHeard(p) /\ history'[p] = history[p]
                \/ Frames(p, PARENT_ID)' = {} /\ history'[p] = ledger'[p] /\ Reported(p)'
  PROVE  ReceiverInv'
<1> USE NodeFacts
<1> SUFFICES ASSUME NEW p \in Worker
    PROVE /\ pc'[p] \in {"unborn", "boot", "starting", "serving", "reporting"} \cup Over
          /\ \A q \in done'[p] : q \in stopped' /\ \A m \in Frames(q, p)' : Rank(m) > 3
          /\ p \in stopped' => \A m \in Frames(PARENT_ID, p)' : Rank(m) > 3
          /\ pc'[p] \in {"reporting", "exited"} => p \in stopped' /\ done'[p] = Peers(p)
          /\ DoneHeard(p)' => p \in stopped' /\ \A m \in Frames(p, PARENT_ID)' : Rank(m) > 3
          /\ HistoryHeard(p)' =>
               Frames(p, PARENT_ID)' = {} /\ history'[p] = ledger'[p] /\ Reported(p)'
  BY DEF ReceiverInv, Rank, Peers
<1>1. pc'[p] \in {"unborn", "boot", "starting", "serving", "reporting"} \cup Over
  BY DEF ReceiverInv, PcMoves, WorkerMoves, Over
<1>2. stopped \subseteq stopped'
  BY DEF Grows
<1>3. ASSUME NEW q \in done'[p], NEW m \in Frames(q, p)' PROVE Rank(m) > 3
  <2>1. CASE q \in done[p]
    <3>1. q \in Worker /\ q # PARENT_ID /\ q \in Node /\ q \in stopped
      BY <2>1 DEF TypeOK, ReceiverInv
    <3>2. m \in Frames(q, p) \/ (q = n /\ p \in to /\ m = f)
      BY <1>3, <3>1 DEF New
    <3> QED
      BY <2>1, <3>1, <3>2 DEF ReceiverInv, Fresh
  <2> QED
    BY <1>3, <2>1
<1>4. \A q \in done'[p] : q \in stopped'
  BY <1>2 DEF ReceiverInv
<1>5. p \in stopped' => \A m \in Frames(PARENT_ID, p)' : Rank(m) > 3
  BY DEF ReceiverInv, New, Fresh
<1>6. pc'[p] \in {"reporting", "exited"} => p \in stopped' /\ done'[p] = Peers(p)
  <2>1. SUFFICES ASSUME pc'[p] \in {"reporting", "exited"}
                 PROVE  p \in stopped' /\ done'[p] = Peers(p)
    OBVIOUS
  <2>2. done'[p] = done[p]
    BY <2>1
  <2>3. pc[p] \in {"reporting", "exited"} \/ (p \in stopped /\ done[p] = Peers(p))
    BY <2>1 DEF PcMoves, WorkerMoves
  <2> QED
    BY <1>2, <2>2, <2>3 DEF ReceiverInv
<1>7. DoneHeard(p)' => p \in stopped' /\ \A m \in Frames(p, PARENT_ID)' : Rank(m) > 3
  <2>1. CASE DoneHeard(p)
    <3>1. p \in stopped /\ \A m \in Frames(p, PARENT_ID) : Rank(m) > 3
      BY <2>1 DEF ReceiverInv
    <3>2. ASSUME NEW m \in Frames(p, PARENT_ID)' PROVE Rank(m) > 3
      <4>1. m \in Frames(p, PARENT_ID) \/ (p = n /\ PARENT_ID \in to /\ m = f)
        BY <3>2 DEF New
      <4> QED
        BY <3>1, <4>1 DEF Fresh
    <3> QED
      BY <1>2, <3>1, <3>2
  <2> QED
    BY <1>2, <2>1
<1>8. HistoryHeard(p)' =>
               Frames(p, PARENT_ID)' = {} /\ history'[p] = ledger'[p] /\ Reported(p)'
  <2>1. HistoryHeard(p) => ledger'[p] = ledger[p] /\ Reported(p)'
    BY ReportedStays DEF ReceiverInv, Grows, Reported
  <2> QED
    BY <2>1 DEF ReceiverInv, New, Fresh
<1> QED
  BY <1>3, <1>4, <1>5, <1>6, <1>7, <1>8, <1>1

LEMMA PassedAll == TypeOK /\ Passed => \A p \in Worker : p < peer[PARENT_ID]
  BY NodeFacts DEF Passed, TypeOK, Worker

LEMMA ReceiverKept ==
  ASSUME TypeOK, ReceiverInv, PcMoves, Grows, NEW n, NEW f, NEW to, New(n, f, to),
         to # {} => Fresh(n, f, to), n = PARENT_ID => PARENT_ID \notin to,
         UNCHANGED <<stopped, done, history>>, peer'[PARENT_ID] = peer[PARENT_ID],
         pc'[PARENT_ID] \in {"collecting", "gathering"} => pc'[PARENT_ID] = pc[PARENT_ID]
  PROVE  ReceiverInv'
<1>1. \A p \in Worker : (DoneHeard(p)' => DoneHeard(p)) /\ (HistoryHeard(p)' => HistoryHeard(p))
  BY PassedAll DEF DoneHeard, HistoryHeard, PcMoves, ParentMoves
<1> QED
  BY <1>1, ReceiverHeard

LEMMA PhaseKept ==
  ASSUME TypeOK, PhaseInv, PcMoves, NEW n, NEW f, NEW to, New(n, f, to),
         n = PARENT_ID /\ to # {} => AllBorn /\ f.type # "STOP",
         Money(f) /\ to # {} => ~Stopping,
         ~Stopping \/ UNCHANGED <<next, outgoing, incoming>>,
         outgoing' # <<>> => outgoing # <<>> \/ AllBorn,
         stopped' # {} => Stopping /\ AllBorn,
         pc'[PARENT_ID] = "robbing" => outbox'[PARENT_ID] = outbox[PARENT_ID],
         pc[PARENT_ID] \in {"boot", "starting"} =>
           \/ peer'[PARENT_ID] = peer[PARENT_ID]
           \/ \A q \in Worker : q < peer'[PARENT_ID] => q < peer[PARENT_ID] \/ Born(q),
         pc'[PARENT_ID] = "collecting" => pc[PARENT_ID] = "collecting"
  PROVE  PhaseInv'
<1> USE NodeFacts
<1>1. pc'[PARENT_ID] = "robbing" => ~Writing(PARENT_ID)'
  BY DEF PhaseInv, PcMoves, ParentMoves, Passed, Writing
<1>2. pc'[PARENT_ID] \in {"boot", "starting"} =>
        \A q \in Worker : q < peer'[PARENT_ID] => Born(q)'
  <2>1. pc'[PARENT_ID] \in {"boot", "starting"} => pc[PARENT_ID] \in {"boot", "starting"}
    BY DEF PcMoves, ParentMoves
  <2> QED
    BY <2>1, BornStays DEF PhaseInv
<1>3. Started' => AllBorn'
  <2>1. Started' => AllBorn
    <3>1. (\E b \in Node : Frames(PARENT_ID, b)' # {}) => AllBorn
      <4>1. ASSUME NEW b \in Node, NEW m \in Frames(PARENT_ID, b)' PROVE AllBorn
        <5>1. m \in Frames(PARENT_ID, b) => AllBorn
          BY DEF PhaseInv, Started
        <5> QED
          BY <4>1, <5>1 DEF New
      <4> QED
        BY <4>1
    <3>2. pc'[PARENT_ID] \in {"robbing", "acking", "collecting", "gathering", "reaping", "exited"}
            => AllBorn
      <4>1. pc[PARENT_ID] = "starting" /\ Passed => AllBorn
        BY PassedAll DEF PhaseInv, AllBorn
      <4>2. pc[PARENT_ID] \in {"robbing", "acking", "collecting", "gathering", "reaping", "exited"}
              => AllBorn
        BY DEF PhaseInv, Started
      <4> QED
        BY <4>1, <4>2 DEF PcMoves, ParentMoves
    <3>3. outgoing # <<>> => AllBorn
      BY DEF PhaseInv, Started
    <3> QED
      BY <3>1, <3>2, <3>3 DEF Started
  <2> QED
    BY <2>1, BornStays DEF AllBorn
<1>4. Stopping' =>
       /\ pc'[PARENT_ID] \notin {"boot", "starting", "robbing", "acking"}
       /\ NoMoney' /\ next' = Len(Orders) + 1
       /\ Len(incoming') = Len(Orders) /\ Len(outgoing') = Len(Orders)
  <2>1. Stopping' => Stopping
    <3>1. ASSUME NEW b \in Node, NEW m \in Frames(PARENT_ID, b)', m.type = "STOP" PROVE Stopping
      BY <3>1 DEF New, Stopping
    <3>2. pc'[PARENT_ID] \in {"collecting", "gathering", "reaping", "exited"} => Stopping
      BY DEF Stopping, PcMoves, ParentMoves
    <3> QED
      BY <3>1, <3>2 DEF Stopping
  <2>2. Stopping => pc'[PARENT_ID] \notin {"boot", "starting", "robbing", "acking"}
    BY DEF PhaseInv, PcMoves, ParentMoves
  <2>3. Stopping => NoMoney'
    <3>1. ASSUME Stopping, NEW a \in Node, NEW b \in Node, NEW m \in Frames(a, b)'
          PROVE  ~Money(m)
      <4>1. m \in Frames(a, b) => ~Money(m)
        BY <3>1 DEF PhaseInv, NoMoney
      <4> QED
        BY <3>1, <4>1 DEF New
    <3> QED
      BY <3>1 DEF NoMoney, Money
  <2> QED
    BY <2>1, <2>2, <2>3 DEF PhaseInv
<1> QED
  BY <1>1, <1>2, <1>3, <1>4 DEF PhaseInv

LEMMA MoneyKept ==
  ASSUME TypeOK, TypeOK', MoneyInv, PcMoves, Grows, NEW n, NEW f, NEW to, New(n, f, to),
         Money(f) => to = {},
         UNCHANGED <<next, outgoing, incoming>>,
         pc'[PARENT_ID] = "robbing" => pc[PARENT_ID] # "acking"
  PROVE  MoneyInv'
<1> USE NodeFacts
<1>1. ASSUME NEW a \in Node, NEW b \in Node, NEW m \in Frames(a, b)', Money(m)
      PROVE  m \in Frames(a, b) /\ MoneyOk(a, b, m)'
  <2>1. m \in Frames(a, b)
    BY <1>1 DEF New
  <2>2. MoneyOk(a, b, m)
    BY <1>1, <2>1 DEF MoneyInv
  <2> QED
    BY <2>1, <2>2 DEF MoneyOk
<1>2. pc'[PARENT_ID] \in {"boot", "starting", "robbing"} =>
       /\ NoMoney'
       /\ Len(outgoing) = next - 1 /\ Len(incoming) = next - 1
       /\ next > 1 => incoming[next - 1].time < clock'[PARENT_ID]
  <2>1. SUFFICES ASSUME pc'[PARENT_ID] \in {"boot", "starting", "robbing"}
                 PROVE  /\ NoMoney'
                        /\ Len(outgoing) = next - 1 /\ Len(incoming) = next - 1
                        /\ next > 1 => incoming[next - 1].time < clock'[PARENT_ID]
    OBVIOUS
  <2>2. pc[PARENT_ID] \in {"boot", "starting", "robbing"}
    BY <2>1 DEF PcMoves, ParentMoves
  <2>3. NoMoney'
    BY <1>1, <2>2 DEF MoneyInv, NoMoney, Money
  <2>4. /\ Len(outgoing) = next - 1 /\ Len(incoming) = next - 1
        /\ next > 1 => incoming[next - 1].time < clock[PARENT_ID]
    BY <2>2 DEF MoneyInv
  <2>5. next > 1 => next - 1 \in DOMAIN incoming /\ incoming[next - 1].time \in Nat
    <3>1. incoming \in Seq(Event) /\ next \in Nat
      BY Pa3Assumption DEF TypeOK
    <3>2. next > 1 => next - 1 \in DOMAIN incoming /\ incoming[next - 1] \in Event
      BY <2>4, <3>1
    <3> QED
      BY <3>2, ClockFacts DEF Event
  <2>6. /\ clock[PARENT_ID] \in Nat /\ clock'[PARENT_ID] \in Nat
        /\ clock[PARENT_ID] <= clock'[PARENT_ID]
    BY ClockFacts DEF TypeOK, Grows
  <2> QED
    BY <2>3, <2>4, <2>5, <2>6
<1> QED
  BY <1>1, <1>2 DEF MoneyInv, Money

-----------------------------------------------------------------------------
(* Sends and receipts, with the frame and the frames under way. *)

LEMMA FrameType ==
  ASSUME NEW type \in MessageType, NEW t \in Timestamp, NEW payload,
         CASE type = "TRANSFER" -> payload \in OneOrder
           [] type = "BALANCE_HISTORY" -> payload \in History
           [] OTHER -> payload = Nothing
  PROVE  [type |-> type, time |-> t, payload |-> payload] \in Frame
  <1> DEFINE m == [type |-> type, time |-> t, payload |-> payload]
  <1>1. payload \in Payload
    BY DEF Payload
  <1>2. Fits(m)
    BY DEF Fits
  <1> QED
    BY <1>1, <1>2 DEF Frame

LEMMA SendStep ==
  ASSUME TypeOK, OrderInv, NEW n \in Node, ~Writing(n), UNCHANGED channel,
         NEW time, NEW type, NEW payload, NEW to, NEW f \in Frame,
         Sends(n, time, type, payload, to),
         f = [type |-> type, time |-> ClockSend(time), payload |-> payload],
         \A b \in Node : b \in to => \A x \in Frames(n, b) : Rank(x) < Rank(f)
  PROVE  Gives(n, f, to) /\ New(n, f, to) /\ OrderInv'
  <1>1. Puts(n, f, to)
    BY WaySends
  <1>2. Sent(n, f, to)
    BY <1>1, PutsSent
  <1>3. Gives(n, f, to) /\ OrderInv'
    BY <1>2, GivesFrame
  <1> QED
    BY <1>3, NewFrames

LEMMA ReplyStep ==
  ASSUME TypeOK, OrderInv, NEW n \in Node, NEW q \in Node \ {n}, NEW any, Takes(n, q, any),
         NEW time, NEW type, NEW payload, NEW to, NEW f \in Frame,
         Sends(n, time, type, payload, to),
         f = [type |-> type, time |-> ClockSend(time), payload |-> payload],
         \A b \in Node : b \in to => \A x \in Frames(n, b) : Rank(x) < Rank(f)
  PROVE  Gets(n, q, Received(n, q), f, to) /\ New(n, f, to) /\ OrderInv'
  <1>1. Puts(n, f, to)
    BY WaySends
  <1>2. Took(n, q, f, to) /\ Way(q, n) # <<>> /\ Received(n, q) = Head(Way(q, n))
    BY <1>1, PutsTook
  <1>3. Gets(n, q, Received(n, q), f, to) /\ OrderInv'
    BY <1>2, GetsFrame
  <1> QED
    BY <1>3, NewFrames

LEMMA TickStep ==
  ASSUME TypeOK, OrderInv, NEW n \in Node, NEW q \in Node \ {n}, NEW any, Takes(n, q, any),
         Ticks(n, q), UNCHANGED outbox
  PROVE  /\ Gets(n, q, Received(n, q), Received(n, q), {})
         /\ New(n, Received(n, q), {}) /\ OrderInv'
  <1> DEFINE m == Received(n, q)
  <1>1. Puts(n, m, {})
    BY WayTicks DEF Ticks, Takes, Reading
  <1>2. Took(n, q, m, {}) /\ Way(q, n) # <<>> /\ m = Head(Way(q, n))
    BY <1>1, PutsTook
  <1>3. Gets(n, q, m, m, {}) /\ OrderInv'
    <2> HIDE DEF m
    <2> QED
      BY <1>2, GetsFrame
  <1> QED
    BY <1>3, NewFrames

LEMMA TakeTimes ==
  ASSUME TypeOK, NEW n \in Node, NEW q \in Node, NEW any, Takes(n, q, any)
  PROVE  /\ clock[n] \in Nat /\ Received(n, q).time \in Nat /\ TimeOfReceipt(n, q) \in Nat
         /\ clock[n] < TimeOfReceipt(n, q) /\ Received(n, q).time < TimeOfReceipt(n, q)
  <1>1. clock[n] \in Nat /\ Received(n, q).time \in Nat
    BY TypeTakes, ClockFacts DEF TypeOK
  <1> QED
    BY <1>1 DEF TimeOfReceipt, ClockReceive

(* The times of a receipt, named. *)
LEMMA NamedTakeTimes ==
  ASSUME TypeOK, NEW n \in Node, NEW q \in Node, NEW any, Takes(n, q, any),
         NEW m, m = Received(n, q), NEW now, now = TimeOfReceipt(n, q)
  PROVE  /\ now \in Timestamp /\ now \in Nat /\ m.time < now /\ m.time \in Nat
         /\ clock[n] < now /\ clock[n] <= now /\ clock[n] \in Nat
  <1>1. /\ clock[n] \in Nat /\ Received(n, q).time \in Nat /\ TimeOfReceipt(n, q) \in Nat
        /\ clock[n] < TimeOfReceipt(n, q) /\ Received(n, q).time < TimeOfReceipt(n, q)
    BY TakeTimes
  <1>2. now \in Timestamp
    BY TypeTakes
  <1>3. clock[n] < now => clock[n] <= now
    BY <1>1
  <1> QED
    BY <1>1, <1>2, <1>3

LEMMA ClockGrows ==
  ASSUME TypeOK, NEW n \in Node, NEW t \in Nat, clock[n] <= t, clock' = [clock EXCEPT ![n] = t]
  PROVE  \A p \in Node : clock[p] <= clock'[p]
  <1>1. \A p \in Node : clock[p] \in Nat
    BY ClockFacts DEF TypeOK
  <1> QED
    BY <1>1 DEF TypeOK

LEMMA SameGrows ==
  ASSUME TypeOK, UNCHANGED <<clock, stopped, done, ledger>>
  PROVE  Grows
  <1>1. \A p \in Node : clock[p] \in Nat
    BY ClockFacts DEF TypeOK
  <1> QED
    BY <1>1 DEF Grows

LEMMA TickGrows ==
  ASSUME TypeOK, NEW n \in Node, NEW q \in Node, NEW any, Takes(n, q, any), Ticks(n, q),
         stopped \subseteq stopped', \A p \in Worker : done[p] \subseteq done'[p], UNCHANGED ledger
  PROVE  Grows
  <1>1. /\ TimeOfReceipt(n, q) \in Nat /\ clock[n] <= TimeOfReceipt(n, q)
        /\ clock' = [clock EXCEPT ![n] = TimeOfReceipt(n, q)]
    BY TakeTimes DEF Ticks
  <1>2. \A p \in Node : clock[p] <= clock'[p]
    BY <1>1, ClockGrows
  <1> QED
    BY <1>2 DEF Grows

LEMMA SendGrows ==
  ASSUME TypeOK, NEW n \in Node, NEW time \in Nat, clock[n] <= time,
         NEW type, NEW payload, NEW to, Sends(n, time, type, payload, to)
  PROVE  \A p \in Node : clock[p] <= clock'[p]
  <1>1. /\ clock' = [clock EXCEPT ![n] = time + 1]
        /\ time + 1 \in Nat /\ clock[n] <= time + 1
    <2>1. clock[n] \in Nat
      BY ClockFacts DEF TypeOK
    <2> QED
      BY <2>1 DEF Sends, ClockSend
  <1> QED
    BY <1>1, ClockGrows

-----------------------------------------------------------------------------
(* The steps that send nothing new. *)

LEMMA QuietStep ==
  ASSUME BankInv, TypeInv', PcMoves, \A a, b \in Node : Way(a, b)' = Way(a, b),
         UNCHANGED <<clock, next, stopped, done, accounts>>,
         peer'[PARENT_ID] = peer[PARENT_ID],
         outbox'[PARENT_ID] = outbox[PARENT_ID] \/ pc'[PARENT_ID] # "robbing",
         pc'[PARENT_ID] \in {"collecting", "gathering"} => pc'[PARENT_ID] = pc[PARENT_ID],
         pc'[PARENT_ID] = "robbing" => pc[PARENT_ID] # "acking"
  PROVE  BankInv'
  <1> DEFINE f == Sending(PARENT_ID)
  <1>1. TypeOK /\ TypeOK' /\ Silent /\ OrderInv' /\ New(PARENT_ID, f, {}) /\ Grows
    <2>1. TypeOK /\ TypeOK' /\ OrderInv
      BY DEF BankInv, TypeInv
    <2>2. Silent /\ OrderInv'
      BY <2>1, SilentFrames
    <2> QED
      BY <2>1, <2>2, NewFrames, SameGrows DEF accounts
  <1> HIDE DEF f
  <1>2. SenderInv'
    BY <1>1, SenderKept DEF BankInv
  <1>3. ReceiverInv'
    BY <1>1, ReceiverKept DEF BankInv, accounts
  <1>4. PhaseInv'
    BY <1>1, PhaseKept DEF BankInv, accounts, events, PhaseInv, Stopping, Started
  <1>5. MoneyInv'
    BY <1>1, MoneyKept DEF BankInv, accounts, events
  <1> QED
    BY <1>1, <1>2, <1>3, <1>4, <1>5 DEF BankInv

LEMMA SamePipes ==
  UNCHANGED <<clock, channel, outbox>> => \A a, b \in Node : Way(a, b)' = Way(a, b)
  BY DEF Way, Sending

(* A node that only moves on. *)
LEMMA GotoStep ==
  ASSUME BankInv, TypeInv', PcMoves, UNCHANGED <<clock, channel, outbox, protocol, accounts>>,
         pc'[PARENT_ID] \in {"collecting", "gathering"} => pc'[PARENT_ID] = pc[PARENT_ID],
         pc'[PARENT_ID] = "robbing" => pc[PARENT_ID] # "acking"
  PROVE  BankInv'
  <1>1. \A a, b \in Node : Way(a, b)' = Way(a, b)
    BY SamePipes
  <1> QED
    BY <1>1, QuietStep DEF protocol

LEMMA FatalStep ==
  ASSUME BankInv, TypeInv', PcMoves, NEW n \in Node, Fatal(n)
  PROVE  BankInv'
  <1>1. pc'[PARENT_ID] = pc[PARENT_ID] \/ pc'[PARENT_ID] = "stopping"
    BY NodeFacts DEF Fatal, Fail, Goto, BankInv, TypeInv, TypeOK
  <1> QED
    BY <1>1, GotoStep DEF Fatal

LEMMA WriteStep ==
  ASSUME BankInv, TypeInv', PcMoves, NEW n \in Node, NEW q \in Node, WriteFrame(n, q)
  PROVE  BankInv'
  <1>1. TypeOK
    BY DEF BankInv, TypeInv
  <1>2. \A a, b \in Node : Way(a, b)' = Way(a, b)
    BY <1>1, WriteSilent
  <1>3. outbox'[PARENT_ID] = outbox[PARENT_ID] \/ pc'[PARENT_ID] # "robbing"
    <2>1. CASE n = PARENT_ID
      BY <2>1 DEF WriteFrame, NextTarget, Writing, BankInv, PhaseInv
    <2>2. CASE n # PARENT_ID
      BY <1>1, <2>2, NodeFacts DEF WriteFrame, TypeOK
    <2> QED
      BY <2>1, <2>2
  <1> QED
    BY <1>2, <1>3, QuietStep DEF WriteFrame, protocol

LEMMA RankOf ==
  \A m : /\ m.type = "STARTED" => Rank(m) = 1
         /\ m.type \in {"TRANSFER", "ACK"} => Rank(m) = 2
         /\ m.type \in {"DONE", "STOP"} => Rank(m) = 3
         /\ m.type = "BALANCE_HISTORY" => Rank(m) = 4
  BY DEF Rank

LEMMA WritingFrames ==
  ASSUME TypeOK, NEW p \in Node, Writing(p)
  PROVE  \E b \in Node : Frames(p, b) # {}
  <1>1. PICK b \in Node : b \in outbox[p].to
    <2>1. outbox[p] \in Output
      BY DEF TypeOK, Idle, Writing
    <2> QED
      BY <2>1 DEF Output, Writing
  <1>2. Way(p, b) \in Seq(Frame) /\ Way(p, b) = Append(channel[p][b], Sending(p))
        /\ channel[p][b] \in Seq(Frame)
    BY <1>1, WayType DEF Way
  <1>3. 1 \in DOMAIN Way(p, b)
    BY <1>2
  <1> QED
    BY <1>3 DEF Frames, Range

LEMMA AnnounceStep ==
  ASSUME BankInv, TypeInv', PcMoves, NEW p \in Node, AnnounceStarted(p)
  PROVE  BankInv'
  <1> DEFINE t == ClockSend(clock[p])
             to == Node \ {p}
  <1> USE NodeFacts
  <1>0. PICK f : f = [type |-> "STARTED", time |-> t, payload |-> Nothing]
    OBVIOUS
  <1>1. /\ TypeOK /\ TypeOK' /\ OrderInv /\ p \in Worker /\ p # PARENT_ID /\ pc[p] = "boot"
        /\ Sends(p, clock[p], "STARTED", Nothing, to) /\ Goto(p, "starting")
        /\ UNCHANGED <<channel, protocol, accounts>> /\ clock[p] \in Timestamp
    BY DEF AnnounceStarted, BankInv, TypeInv, TypeOK
  <1>2. \A b \in Node : Frames(p, b) = {}
    BY <1>1 DEF BankInv, SenderInv, FrameOk, Born
  <1>3. ~Writing(p)
    BY <1>1, <1>2, WritingFrames
  <1>4. t \in Timestamp /\ f \in Frame
    <2>1. t \in Timestamp
      BY <1>1, ClockFacts DEF Sends
    <2>2. "STARTED" \in MessageType
      BY DEF MessageType
    <2> HIDE DEF t
    <2> QED
      BY <1>0, <2>1, <2>2, FrameType
  <1>5. New(p, f, to) /\ OrderInv'
    <2> HIDE DEF to
    <2> QED
      BY <1>0, <1>1, <1>2, <1>3, <1>4, SendStep
  <1>6. Grows
    <2>1. clock[p] \in Nat /\ clock[p] <= clock[p]
      BY <1>1, ClockFacts
    <2> QED
      BY <1>1, <2>1, SendGrows DEF Grows, protocol, accounts
  <1>7. /\ f.type = "STARTED" /\ ~Money(f) /\ p \notin to /\ pc'[p] = "starting"
        /\ pc'[PARENT_ID] = pc[PARENT_ID]
        /\ outbox'[PARENT_ID] = outbox[PARENT_ID]
    BY <1>0, <1>1 DEF Money, Goto, Sends, TypeOK
  <1> HIDE DEF to
  <1>8. SenderInv'
    <2>1. ASSUME NEW b \in Node, b \in to PROVE FrameOk(p, b, f)'
      BY <1>1, <1>7, <2>1 DEF FrameOk, Born
    <2> QED
      BY <1>5, <1>6, <2>1, SenderKept DEF BankInv
  <1>9. p \notin stopped /\ ~Reported(p) /\ ~AllBorn
    BY <1>1 DEF BankInv, PhaseInv, Started, AllBorn, Born, Reported
  <1>10. ReceiverInv'
    <2>1. Fresh(p, f, to)
      BY <1>1, <1>9 DEF Fresh
    <2>2. UNCHANGED <<stopped, done, history>> /\ peer'[PARENT_ID] = peer[PARENT_ID]
      BY <1>1 DEF protocol, accounts
    <2> QED
      BY <1>1, <1>5, <1>6, <1>7, <2>1, <2>2, ReceiverKept DEF BankInv
  <1>11. PhaseInv'
    BY <1>1, <1>5, <1>7, <1>9, PhaseKept
       DEF BankInv, protocol, accounts, events, PhaseInv, Started
  <1>12. MoneyInv'
    BY <1>1, <1>5, <1>6, <1>7, MoneyKept DEF BankInv, protocol, accounts, events, MoneyInv
  <1> QED
    BY <1>5, <1>8, <1>10, <1>11, <1>12 DEF BankInv

(* There is one frame about money at most, the one of the order at hand. *)
LEMMA MoneyFacts ==
  ASSUME BankInv, NEW a \in Node, NEW b \in Node, NEW m \in Frames(a, b), Money(m)
  PROVE  /\ MoneyOk(a, b, m) /\ ~Stopping /\ stopped = {} /\ AllBorn
         /\ pc[PARENT_ID] \notin {"boot", "starting", "robbing"}
         /\ \A c, d \in Node : \A k \in Frames(c, d) : Money(k) => c = a /\ d = b /\ k = m
         /\ next \in 1..Len(Orders)
  <1> USE NodeFacts
  <1>1. /\ MoneyOk(a, b, m) /\ pc[PARENT_ID] \notin {"boot", "starting", "robbing"}
        /\ \A c, d \in Node : \A k \in Frames(c, d) : Money(k) => c = a /\ d = b /\ k = m
    BY DEF BankInv, MoneyInv, NoMoney
  <1>2. ~Stopping
    BY DEF BankInv, PhaseInv, NoMoney
  <1>3. stopped = {}
    BY <1>2 DEF Stopping
  <1>4. next \in 1..Len(Orders) /\ Len(Orders) \in Nat
    BY <1>1, Pa3Assumption DEF MoneyOk, BankInv, TypeInv, TypeOK
  <1>5. AllBorn
    <2>1. CASE a = PARENT_ID
      BY <2>1 DEF BankInv, PhaseInv, Started
    <2>2. CASE a # PARENT_ID
      <3>1. Len(outgoing) = next
        BY <1>1, <2>2 DEF MoneyOk
      <3>2. outgoing # <<>>
        BY <1>4, <3>1
      <3> QED
        BY <3>2 DEF BankInv, PhaseInv, Started
    <2> QED
      BY <2>1, <2>2
  <1> QED
    BY <1>1, <1>2, <1>3, <1>4, <1>5

LEMMA MoneyMoved ==
  ASSUME NEW n \in Node, NEW q \in Node, NEW f,
         \A a, b \in Node : \A m \in Frames(a, b)' : Money(m) => a = n /\ b = q /\ m = f,
         MoneyOk(n, q, f)', pc'[PARENT_ID] \notin {"boot", "starting", "robbing"}
  PROVE  MoneyInv'
  <1>1. \A a, b \in Node : \A m \in Frames(a, b)' : Money(m) => MoneyOk(a, b, m)'
    <2> SUFFICES ASSUME NEW a \in Node, NEW b \in Node, NEW m \in Frames(a, b)', Money(m)
                 PROVE  MoneyOk(a, b, m)'
      OBVIOUS
    <2>1. a = n /\ b = q /\ m = f
      OBVIOUS
    <2> QED
      BY <2>1 DEF MoneyOk
  <1> QED
    BY <1>1 DEF MoneyInv, Money

LEMMA RequestStep ==
  ASSUME BankInv, TypeInv', PcMoves, RequestTransfer
  PROVE  BankInv'
  <1> DEFINE t == ClockSend(clock[PARENT_ID])
  <1> USE NodeFacts
  <1>0. PICK order, f, src, to :
          /\ order = Orders[next] /\ src = order.src /\ to = {src}
          /\ f = [type |-> "TRANSFER", time |-> t, payload |-> <<order>>]
    OBVIOUS
  <1>1. /\ TypeOK /\ TypeOK' /\ OrderInv /\ pc[PARENT_ID] = "robbing"
        /\ Sends(PARENT_ID, clock[PARENT_ID], "TRANSFER", <<order>>, to)
        /\ ValidOrder(order) /\ next <= Len(Orders) /\ pc' = [pc EXCEPT ![PARENT_ID] = "acking"]
        /\ UNCHANGED <<channel, protocol, accounts>> /\ clock[PARENT_ID] \in Timestamp
    BY <1>0 DEF RequestTransfer, Robbing, MoreOrders, Goto, BankInv, TypeInv, TypeOK
  <1>2. ~Stopping /\ stopped = {} /\ NoMoney /\ ~Writing(PARENT_ID) /\ AllBorn
    BY <1>1 DEF BankInv, PhaseInv, Stopping, MoneyInv, Started
  <1>3. \A b \in Node : Frames(PARENT_ID, b) = {}
    BY <1>2 DEF BankInv, SenderInv, FrameOk, Stopping, NoMoney, Money
  <1>4. src \in Worker /\ src \in Node /\ src # PARENT_ID /\ order \in TransferOrder
    <2>1. order \in TransferOrder
      <3>1. next \in 1..Len(Orders)
        BY <1>1, Pa3Assumption DEF TypeOK
      <3> QED
        BY <1>0, <3>1, Pa3Assumption, ElementOfSeq
    <2> QED
      BY <1>0, <1>1, <2>1, OrderFacts
  <1>5. t \in Timestamp /\ t = clock[PARENT_ID] + 1 /\ f \in Frame /\ f.type = "TRANSFER"
        /\ f.time = t /\ f.payload = <<order>>
    <2>1. t \in Timestamp /\ t = clock[PARENT_ID] + 1
      BY <1>1, ClockFacts DEF Sends, ClockSend
    <2>2. "TRANSFER" \in MessageType /\ <<order>> \in OneOrder
      BY <1>4, OneOrderType DEF MessageType
    <2> HIDE DEF t
    <2> QED
      BY <1>0, <2>1, <2>2, FrameType
  <1>6. New(PARENT_ID, f, to) /\ OrderInv'
    BY <1>0, <1>1, <1>2, <1>3, <1>5, SendStep
  <1>7. Grows
    <2>1. clock[PARENT_ID] \in Nat /\ clock[PARENT_ID] <= clock[PARENT_ID]
      BY <1>1, ClockFacts
    <2> QED
      BY <1>1, <2>1, SendGrows DEF Grows, protocol, accounts
  <1>8. pc'[PARENT_ID] = "acking"
    BY <1>1 DEF TypeOK
  <1> HIDE DEF t
  <1>9. SenderInv'
    <2>1. ASSUME NEW b \in Node, b \in to PROVE FrameOk(PARENT_ID, b, f)'
      BY <1>0, <1>4, <1>5, <1>8, <2>1 DEF FrameOk
    <2> QED
      BY <1>6, <1>7, <2>1, SenderKept DEF BankInv
  <1>10. ReceiverInv'
    <2>1. Fresh(PARENT_ID, f, to)
      BY <1>2 DEF Fresh
    <2>2. UNCHANGED <<stopped, done, history>> /\ peer'[PARENT_ID] = peer[PARENT_ID]
          /\ PARENT_ID \notin to
      BY <1>0, <1>1, <1>4 DEF protocol, accounts
    <2> QED
      BY <1>1, <1>6, <1>7, <1>8, <2>1, <2>2, ReceiverKept DEF BankInv
  <1>11. PhaseInv'
    BY <1>1, <1>2, <1>5, <1>6, <1>8, PhaseKept DEF BankInv, protocol, accounts, events
  <1>12. MoneyInv'
    <2>1. \A a, b \in Node : \A m \in Frames(a, b)' :
            Money(m) => a = PARENT_ID /\ b = src /\ m = f
      BY <1>0, <1>2, <1>6 DEF New, NoMoney
    <2>2. /\ Len(outgoing) = next - 1 /\ Len(incoming) = next - 1
          /\ next > 1 => incoming[next - 1].time < clock[PARENT_ID]
      BY <1>1 DEF BankInv, MoneyInv
    <2>3. next > 1 => incoming[next - 1].time < f.time
      <3>1. next > 1 => incoming[next - 1].time \in Nat
        <4>1. incoming \in Seq(Event) /\ next \in Nat
          BY <1>1, Pa3Assumption DEF TypeOK
        <4>2. next > 1 => incoming[next - 1] \in Event
          BY <2>2, <4>1
        <4> QED
          BY <4>2, ClockFacts DEF Event
      <3>2. clock[PARENT_ID] \in Nat
        BY <1>1, ClockFacts
      <3> QED
        BY <1>5, <2>2, <3>1, <3>2
    <2>4. MoneyOk(PARENT_ID, src, f)'
      BY <1>0, <1>1, <1>4, <1>5, <2>2, <2>3 DEF MoneyOk, protocol, accounts, events
    <2> QED
      BY <1>4, <1>8, <2>1, <2>4, MoneyMoved
  <1> QED
    BY <1>6, <1>9, <1>10, <1>11, <1>12 DEF BankInv

LEMMA TakenFrame ==
  ASSUME TypeOK, NEW n \in Node, NEW q \in Node, NEW any, Takes(n, q, any)
  PROVE  Received(n, q) \in Frames(q, n) /\ Received(n, q).type = any
  <1> DEFINE s == channel[q][n]
             w == Way(q, n)
  <1>1. s \in Seq(Frame) /\ s # <<>> /\ Received(n, q) = s[1]
    BY HeadTailProperties DEF TypeOK, Takes, Reading, Received
  <1>2. w = s \/ w = Append(s, Sending(q))
    BY DEF Way
  <1> HIDE DEF s, w
  <1>3. 1 \in DOMAIN w /\ w[1] = s[1]
    BY <1>1, <1>2
  <1>4. Received(n, q).type = any
    BY DEF Takes
  <1> QED
    BY <1>1, <1>3, <1>4 DEF Frames, Range, w

(* A transfer a worker takes is the order at hand. *)
LEMMA TransferTaken ==
  ASSUME BankInv, NEW p \in Node, NEW q \in Node \ {p}, NEW m, m = Received(p, q),
         Takes(p, q, "TRANSFER")
  PROVE  /\ p \in Worker /\ pc[p] = "serving" /\ m \in Frames(q, p) /\ m.type = "TRANSFER"
         /\ MoneyOk(q, p, m) /\ m.payload[1] = Orders[next] /\ next \in 1..Len(Orders)
         /\ Orders[next] \in TransferOrder /\ ValidOrder(Orders[next])
         /\ AcceptsTransfer(p, q, m, TimeOfReceipt(p, q)) /\ CanSend(TimeOfReceipt(p, q))
         /\ ~Stopping /\ stopped = {} /\ AllBorn
         /\ pc[PARENT_ID] \notin {"boot", "starting", "robbing"}
         /\ \A c, d \in Node : \A k \in Frames(c, d) : Money(k) => c = q /\ d = p /\ k = m
  <1>1. TypeOK /\ m \in Frames(q, p) /\ m.type = "TRANSFER"
    BY TakenFrame DEF BankInv, TypeInv
  <1>2. Money(m)
    BY <1>1 DEF Money
  <1>3. pc[p] = "serving" /\ p \in Worker /\ AcceptsByWorker(p, q, m, TimeOfReceipt(p, q))
    BY <1>1, TakesWhen DEF Expected
  <1>4. AcceptsTransfer(p, q, m, TimeOfReceipt(p, q))
    BY <1>1, <1>3 DEF AcceptsByWorker
  <1>5. MoneyOk(q, p, m) /\ next \in 1..Len(Orders)
    BY <1>1, <1>2, MoneyFacts
  <1>6. m.payload[1] = Orders[next]
    BY <1>1, <1>5 DEF MoneyOk
  <1>7. Orders[next] \in TransferOrder
    BY <1>5, Pa3Assumption, ElementOfSeq
  <1> QED
    BY <1>1, <1>2, <1>3, <1>4, <1>5, <1>6, <1>7, MoneyFacts DEF AcceptsTransfer

LEMMA OrderStep ==
  ASSUME BankInv, TypeInv', PcMoves, NEW p \in Node, NEW q \in Node \ {p}, ReceiveOrder(p, q)
  PROVE  BankInv'
  <1> USE NodeFacts
  <1>0. PICK m, order, now, sent, dst, to, f :
          /\ m = Received(p, q) /\ order = m.payload[1] /\ now = TimeOfReceipt(p, q)
          /\ sent = ClockSend(now) /\ dst = order.dst /\ to = {dst}
          /\ f = [type |-> "TRANSFER", time |-> sent, payload |-> <<order>>]
    OBVIOUS
  <1>1. /\ TypeOK /\ TypeOK' /\ OrderInv
        /\ Takes(p, q, "TRANSFER") /\ IsDebit(p, q, order)
        /\ outgoing' = Append(outgoing, [order |-> order, time |-> sent])
        /\ Sends(p, now, "TRANSFER", <<order>>, to)
        /\ UNCHANGED <<pc, protocol, history, incoming>>
        /\ \A a \in Worker : a # p => ledger'[a] = ledger[a]
    BY <1>0 DEF ReceiveOrder, BankInv, TypeInv, TypeOK
  <1>2. /\ p \in Worker /\ pc[p] = "serving" /\ m \in Frames(q, p) /\ m.type = "TRANSFER"
        /\ MoneyOk(q, p, m) /\ order = Orders[next] /\ next \in 1..Len(Orders)
        /\ order \in TransferOrder /\ ValidOrder(order) /\ CanSend(now)
        /\ ~Stopping /\ stopped = {} /\ AllBorn
        /\ pc[PARENT_ID] \notin {"boot", "starting", "robbing"}
        /\ \A c, d \in Node : \A k \in Frames(c, d) : Money(k) => c = q /\ d = p /\ k = m
    BY <1>0, <1>1, TransferTaken
  <1>3. q = PARENT_ID /\ p = order.src /\ dst \in Worker /\ dst \in Node /\ dst # p
        /\ dst # PARENT_ID
    BY <1>0, <1>1, <1>2 DEF IsDebit, ValidOrder
  <1>4. now \in Timestamp /\ now \in Nat /\ m.time < now /\ m.time \in Nat /\ clock[p] <= now
        /\ clock[p] \in Nat
    <2>1. Takes(p, q, "TRANSFER")
      BY <1>1
    <2>2. m = Received(p, q) /\ now = TimeOfReceipt(p, q)
      BY <1>0
    <2>3. /\ now \in Timestamp /\ now \in Nat /\ m.time < now /\ m.time \in Nat
          /\ clock[p] < now /\ clock[p] <= now /\ clock[p] \in Nat
      BY <1>1, <2>1, <2>2, NamedTakeTimes
    <2> QED
      BY <2>3
  <1>5. sent \in Timestamp /\ sent = now + 1 /\ f \in Frame /\ f.type = "TRANSFER"
        /\ f.time = sent /\ f.payload = <<order>>
    <2>1. sent \in Timestamp /\ sent = now + 1
      BY <1>0, <1>2, <1>4, ClockFacts DEF ClockSend
    <2>2. "TRANSFER" \in MessageType /\ <<order>> \in OneOrder
      BY <1>2, OneOrderType DEF MessageType
    <2> QED
      BY <1>0, <2>1, <2>2, FrameType
  <1>6. \A x \in Frames(p, dst) : Rank(x) < Rank(f)
    <2>1. ASSUME NEW x \in Frames(p, dst) PROVE x.type = "STARTED"
      <3>1. FrameOk(p, dst, x) /\ ~Money(x)
        BY <1>2, <1>3 DEF BankInv, SenderInv
      <3> QED
        BY <1>2, <1>3, <3>1 DEF FrameOk, Money
    <2> QED
      BY <1>5, <2>1, RankOf
  <1>7. Gets(p, q, m, f, to) /\ New(p, f, to) /\ OrderInv'
    <2>1. \A b \in Node : b \in to => \A x \in Frames(p, b) : Rank(x) < Rank(f)
      BY <1>0, <1>6
    <2> QED
      BY <1>0, <1>1, <1>5, <2>1, ReplyStep
  <1>8. Grows
    <2>1. \A n \in Node : clock[n] <= clock'[n]
      BY <1>1, <1>4, SendGrows
    <2> QED
      BY <1>1, <1>2, <2>1 DEF Grows, protocol
  <1>9. SenderInv'
    <2>1. ASSUME NEW b \in Node, b \in to PROVE FrameOk(p, b, f)'
      BY <1>0, <1>1, <1>2, <1>3, <1>5, <2>1 DEF FrameOk, Born
    <2> QED
      BY <1>7, <1>8, <2>1, SenderKept DEF BankInv
  <1>10. ReceiverInv'
    <2>1. Fresh(p, f, to)
      BY <1>2 DEF Fresh, Reported
    <2> QED
      BY <1>1, <1>2, <1>7, <1>8, <2>1, ReceiverKept DEF BankInv, protocol
  <1>11. PhaseInv'
    <2>1. outbox'[PARENT_ID] = outbox[PARENT_ID]
      BY <1>1, <1>2 DEF Sends, TypeOK
    <2> QED
      BY <1>1, <1>2, <1>7, <2>1, PhaseKept DEF BankInv, protocol
  <1>12. MoneyInv'
    <2>1. \A a, b \in Node : \A k \in Frames(a, b)' : Money(k) => a = p /\ b = dst /\ k = f
      BY <1>0, <1>2, <1>7 DEF Gets
    <2>2. Len(outgoing) = next - 1 /\ Len(incoming) = next - 1
      BY <1>2, <1>3 DEF MoneyOk
    <2>3. Len(outgoing') = next /\ outgoing'[next].time = sent
      <3>1. outgoing \in Seq(Event) /\ next \in Nat
        BY <1>1, <1>2, Pa3Assumption DEF TypeOK
      <3>2. [order |-> order, time |-> sent] \in Event
        BY <1>2, <1>5 DEF Event
      <3> QED
        BY <1>1, <2>2, <3>1, <3>2, AppendProperties
    <2>4. MoneyOk(p, dst, f)'
      BY <1>0, <1>1, <1>2, <1>3, <1>5, <2>2, <2>3 DEF MoneyOk, protocol
    <2> QED
      BY <1>1, <1>2, <1>3, <2>1, <2>4, MoneyMoved
  <1> QED
    BY <1>7, <1>9, <1>10, <1>11, <1>12 DEF BankInv

LEMMA TransferStep ==
  ASSUME BankInv, TypeInv', PcMoves, NEW p \in Node, NEW q \in Node \ {p}, ReceiveTransfer(p, q)
  PROVE  BankInv'
  <1> USE NodeFacts
  <1>0. PICK m, order, now, to, f :
          /\ m = Received(p, q) /\ order = m.payload[1] /\ now = TimeOfReceipt(p, q)
          /\ to = {PARENT_ID}
          /\ f = [type |-> "ACK", time |-> ClockSend(now), payload |-> Nothing]
    OBVIOUS
  <1>1. /\ TypeOK /\ TypeOK' /\ OrderInv
        /\ Takes(p, q, "TRANSFER") /\ IsCredit(p, q, order)
        /\ incoming' = Append(incoming, [order |-> order, time |-> now])
        /\ Sends(p, now, "ACK", Nothing, to)
        /\ UNCHANGED <<pc, protocol, history, outgoing>>
        /\ \A a \in Worker : a # p => ledger'[a] = ledger[a]
    BY <1>0 DEF ReceiveTransfer, BankInv, TypeInv, TypeOK
  <1>2. /\ p \in Worker /\ pc[p] = "serving" /\ m \in Frames(q, p) /\ m.type = "TRANSFER"
        /\ MoneyOk(q, p, m) /\ order = Orders[next] /\ next \in 1..Len(Orders)
        /\ order \in TransferOrder /\ ValidOrder(order) /\ CanSend(now)
        /\ ~Stopping /\ stopped = {} /\ AllBorn
        /\ pc[PARENT_ID] \notin {"boot", "starting", "robbing"}
        /\ \A c, d \in Node : \A k \in Frames(c, d) : Money(k) => c = q /\ d = p /\ k = m
    BY <1>0, <1>1, TransferTaken
  <1>3. q = order.src /\ p = order.dst /\ q \in Worker /\ q # PARENT_ID /\ p # PARENT_ID
    BY <1>0, <1>1, <1>2 DEF IsCredit, ValidOrder
  <1>4. now \in Timestamp /\ now \in Nat /\ clock[p] <= now /\ clock[p] \in Nat
    <2>1. Takes(p, q, "TRANSFER")
      BY <1>1
    <2>2. m = Received(p, q) /\ now = TimeOfReceipt(p, q)
      BY <1>0
    <2>3. /\ now \in Timestamp /\ now \in Nat /\ m.time < now /\ m.time \in Nat
          /\ clock[p] < now /\ clock[p] <= now /\ clock[p] \in Nat
      BY <1>1, <2>1, <2>2, NamedTakeTimes
    <2> QED
      BY <2>3
  <1>5. f \in Frame /\ f.type = "ACK" /\ f.time = now + 1
    <2>1. ClockSend(now) \in Timestamp /\ ClockSend(now) = now + 1
      BY <1>2, <1>4, ClockFacts DEF ClockSend
    <2>2. "ACK" \in MessageType
      BY DEF MessageType
    <2> QED
      BY <1>0, <2>1, <2>2, FrameType
  <1>6. \A x \in Frames(p, PARENT_ID) : Rank(x) < Rank(f)
    <2>1. ASSUME NEW x \in Frames(p, PARENT_ID) PROVE x.type = "STARTED"
      <3>1. FrameOk(p, PARENT_ID, x) /\ ~Money(x)
        BY <1>2, <1>3 DEF BankInv, SenderInv
      <3> QED
        BY <1>2, <1>3, <3>1 DEF FrameOk, Money, Reported
    <2> QED
      BY <1>5, <2>1, RankOf
  <1>7. Gets(p, q, m, f, to) /\ New(p, f, to) /\ OrderInv'
    <2>1. \A b \in Node : b \in to => \A x \in Frames(p, b) : Rank(x) < Rank(f)
      BY <1>0, <1>6
    <2> QED
      BY <1>0, <1>1, <1>5, <2>1, ReplyStep
  <1>8. Grows
    <2>1. \A n \in Node : clock[n] <= clock'[n]
      BY <1>1, <1>4, SendGrows
    <2> QED
      BY <1>1, <1>2, <2>1 DEF Grows, protocol
  <1>9. SenderInv'
    <2>1. ASSUME NEW b \in Node, b \in to PROVE FrameOk(p, b, f)'
      BY <1>0, <1>1, <1>2, <1>3, <1>5, <2>1 DEF FrameOk, Born
    <2> QED
      BY <1>7, <1>8, <2>1, SenderKept DEF BankInv
  <1>10. ReceiverInv'
    <2>1. Fresh(p, f, to)
      BY <1>2, <1>3 DEF Fresh, Reported
    <2> QED
      BY <1>1, <1>2, <1>3, <1>7, <1>8, <2>1, ReceiverKept DEF BankInv, protocol
  <1>11. PhaseInv'
    <2>1. outbox'[PARENT_ID] = outbox[PARENT_ID]
      BY <1>1, <1>3 DEF Sends, TypeOK
    <2> QED
      BY <1>1, <1>2, <1>3, <1>7, <2>1, PhaseKept DEF BankInv, protocol
  <1>12. MoneyInv'
    <2>1. \A a, b \in Node : \A k \in Frames(a, b)' :
            Money(k) => a = p /\ b = PARENT_ID /\ k = f
      BY <1>0, <1>2, <1>3, <1>7 DEF Gets
    <2>2. Len(outgoing) = next /\ Len(incoming) = next - 1
      BY <1>2, <1>3 DEF MoneyOk
    <2>3. Len(incoming') = next /\ incoming'[next].time = now
      <3>1. incoming \in Seq(Event) /\ next \in Nat
        BY <1>1, <1>2, Pa3Assumption DEF TypeOK
      <3>2. [order |-> order, time |-> now] \in Event
        BY <1>2, <1>4 DEF Event
      <3> QED
        BY <1>1, <2>2, <3>1, <3>2, AppendProperties
    <2>4. MoneyOk(p, PARENT_ID, f)'
      BY <1>0, <1>1, <1>2, <1>3, <1>4, <1>5, <2>2, <2>3 DEF MoneyOk, protocol
    <2> QED
      BY <1>1, <1>2, <1>3, <2>1, <2>4, MoneyMoved
  <1> QED
    BY <1>7, <1>9, <1>10, <1>11, <1>12 DEF BankInv

-----------------------------------------------------------------------------
(* The steps that take a frame and send nothing. *)

LEMMA TakesIn ==
  ASSUME TypeOK, NEW n \in Node, NEW q \in Node, NEW any, Takes(n, q, any)
  PROVE  /\ any = "STARTED" => pc[n] = "starting"
         /\ any = "DONE" => pc[n] = "collecting" \/ (pc[n] = "serving" /\ q # PARENT_ID)
         /\ any = "STOP" => pc[n] = "serving" /\ q = PARENT_ID /\ n \notin stopped
         /\ any = "ACK" => pc[n] = "acking"
         /\ any = "BALANCE_HISTORY" => pc[n] = "gathering"
         /\ pc[n] = "serving" => n \in Worker
         /\ pc[n] \in {"starting", "collecting", "gathering"} => q = peer[n] /\ q \in Worker
  <1>1. CASE pc[n] = "serving"
    <2>1. n \in Worker /\ Received(n, q).type = any
          /\ AcceptsByWorker(n, q, Received(n, q), TimeOfReceipt(n, q))
      BY <1>1, TakesWhen, TypeTakes
    <2> QED
      BY <1>1, <2>1 DEF AcceptsByWorker
  <1>2. CASE pc[n] # "serving"
    <2>1. any = Expected(n)
      BY <1>2, TakesWhen
    <2>2. pc[n] \in {"starting", "collecting", "gathering"} => q = peer[n] /\ q \in Worker
      BY TakesWhen
    <2> QED
      BY <1>2, <2>1, <2>2 DEF Expected
  <1> QED
    BY <1>1, <1>2

LEMMA NextPeer ==
  ASSUME TypeOK, NEW n \in Node, ToNextPeer(n)
  PROVE  peer'[PARENT_ID] = IF n = PARENT_ID THEN peer[PARENT_ID] + 1 ELSE peer[PARENT_ID]
  <1>1. peer[PARENT_ID] \in Nat /\ peer[PARENT_ID] + 1 # PARENT_ID
    BY NodeFacts DEF TypeOK, PARENT_ID
  <1> QED
    BY <1>1, NodeFacts DEF ToNextPeer, TypeOK, PeerFrom

LEMMA TickKeeps ==
  ASSUME BankInv, TypeInv', PcMoves, NEW n \in Node, NEW q \in Node \ {n}, NEW m, NEW any,
         m = Received(n, q), Takes(n, q, any), Ticks(n, q), UNCHANGED <<outbox, stopped, ledger>>,
         \A p \in Worker : done[p] \subseteq done'[p]
  PROVE  /\ TypeOK /\ TypeOK' /\ Grows /\ OrderInv' /\ SenderInv'
         /\ Gets(n, q, m, m, {}) /\ New(n, m, {})
         /\ m \in Frames(q, n) /\ m.type = any /\ FrameOk(q, n, m)
  <1>1. TypeOK /\ TypeOK' /\ OrderInv
    BY DEF BankInv, TypeInv
  <1>2. Gets(n, q, m, m, {}) /\ New(n, m, {}) /\ OrderInv'
    BY <1>1, TickStep
  <1>3. Grows
    BY <1>1, TickGrows
  <1>4. SenderInv'
    BY <1>2, <1>3, SenderKept DEF BankInv
  <1>5. m \in Frames(q, n) /\ m.type = any /\ FrameOk(q, n, m)
    BY <1>1, TakenFrame DEF BankInv, SenderInv
  <1> QED
    BY <1>1, <1>2, <1>3, <1>4, <1>5

LEMMA StartedStep ==
  ASSUME BankInv, TypeInv', PcMoves, NEW p \in Node, NEW q \in Node \ {p}, AwaitStarted(p, q)
  PROVE  BankInv'
  <1> USE NodeFacts
  <1>0. PICK m : m = Received(p, q)
    OBVIOUS
  <1>1. /\ Takes(p, q, "STARTED") /\ Ticks(p, q) /\ ToNextPeer(p)
        /\ UNCHANGED <<pc, outbox, next, stopped, done, accounts>>
    BY DEF AwaitStarted
  <1>2. /\ TypeOK /\ TypeOK' /\ Grows /\ OrderInv' /\ SenderInv'
        /\ Gets(p, q, m, m, {}) /\ New(p, m, {}) /\ FrameOk(q, p, m)
    BY <1>0, <1>1, TickKeeps DEF accounts
  <1>3. pc[p] = "starting" /\ q = peer[p] /\ q \in Worker /\ Born(q)
    <2>1. pc[p] = "starting" /\ q = peer[p] /\ q \in Worker
      BY <1>1, <1>2, TakesIn
    <2> QED
      BY <1>2, <2>1 DEF FrameOk
  <1>4. p = PARENT_ID => peer'[PARENT_ID] = q + 1
    BY <1>1, <1>2, <1>3, NextPeer
  <1>5. p # PARENT_ID => peer'[PARENT_ID] = peer[PARENT_ID]
    BY <1>1, <1>2, NextPeer
  <1>6. ReceiverInv'
    <2>1. \A r \in Worker :
            (DoneHeard(r)' => DoneHeard(r)) /\ (HistoryHeard(r)' => HistoryHeard(r))
      BY <1>1, <1>3, <1>5 DEF DoneHeard, HistoryHeard
    <2> QED
      BY <1>1, <1>2, <2>1, ReceiverHeard DEF BankInv, accounts
  <1>7. PhaseInv'
    <2>1. \/ peer'[PARENT_ID] = peer[PARENT_ID]
          \/ \A r \in Worker : r < peer'[PARENT_ID] => r < peer[PARENT_ID] \/ Born(r)
      BY <1>3, <1>4, <1>5
    <2> QED
      BY <1>1, <1>2, <2>1, PhaseKept DEF BankInv, accounts, events, PhaseInv, Stopping, Started
  <1>8. MoneyInv'
    BY <1>1, <1>2, MoneyKept DEF BankInv, accounts, events
  <1> QED
    BY <1>2, <1>6, <1>7, <1>8 DEF BankInv

LEMMA DoneStep ==
  ASSUME BankInv, TypeInv', PcMoves, NEW p \in Node, NEW q \in Node \ {p}, ReceiveDone(p, q)
  PROVE  BankInv'
  <1> USE NodeFacts
  <1>0. PICK m : m = Received(p, q)
    OBVIOUS
  <1>1. /\ p \in Worker /\ Takes(p, q, "DONE") /\ Ticks(p, q)
        /\ done' = [done EXCEPT ![p] = @ \cup {q}]
        /\ UNCHANGED <<pc, outbox, peer, next, stopped, accounts>>
    BY DEF ReceiveDone
  <1>2. done'[p] = done[p] \cup {q} /\ \A r \in Worker : r # p => done'[r] = done[r]
    BY <1>1 DEF BankInv, TypeInv, TypeOK
  <1>3. /\ TypeOK /\ TypeOK' /\ Grows /\ OrderInv' /\ SenderInv'
        /\ Gets(p, q, m, m, {}) /\ New(p, m, {}) /\ FrameOk(q, p, m) /\ m.type = "DONE"
    <2>1. \A r \in Worker : done[r] \subseteq done'[r]
      BY <1>2
    <2> QED
      BY <1>0, <1>1, <2>1, TickKeeps DEF accounts
  <1>4. pc[p] = "serving" /\ q \in stopped
    <2>1. pc[p] \in {"collecting", "serving"}
      BY <1>1, <1>3, TakesIn
    <2>2. pc[p] = "collecting" => p = PARENT_ID
      BY DEF BankInv, ReceiverInv, Over
    <2> QED
      BY <1>1, <1>3, <2>1, <2>2 DEF FrameOk
  <1>5. ReceiverInv'
    <2>1. \A x \in Frames(q, p)' : Rank(x) > 3
      BY <1>1, <1>3, RankOf DEF Gets
    <2> QED
      BY <1>1, <1>2, <1>3, <1>4, <2>1, ReceiverHeard
         DEF BankInv, accounts, DoneHeard, HistoryHeard
  <1>6. PhaseInv'
    BY <1>1, <1>3, PhaseKept DEF BankInv, accounts, events, PhaseInv, Stopping, Started
  <1>7. MoneyInv'
    BY <1>1, <1>3, MoneyKept DEF BankInv, accounts, events
  <1> QED
    BY <1>3, <1>5, <1>6, <1>7 DEF BankInv

LEMMA CollectStep ==
  ASSUME BankInv, TypeInv', PcMoves, NEW q \in Worker, AwaitDone(q)
  PROVE  BankInv'
  <1> USE NodeFacts
  <1>0. PICK m : m = Received(PARENT_ID, q)
    OBVIOUS
  <1>1. /\ Takes(PARENT_ID, q, "DONE") /\ Ticks(PARENT_ID, q) /\ ToNextPeer(PARENT_ID)
        /\ UNCHANGED <<pc, outbox, next, stopped, done, accounts>>
        /\ q \in Node \ {PARENT_ID}
    BY DEF AwaitDone
  <1>2. /\ TypeOK /\ TypeOK' /\ Grows /\ OrderInv' /\ SenderInv'
        /\ Gets(PARENT_ID, q, m, m, {}) /\ New(PARENT_ID, m, {}) /\ FrameOk(q, PARENT_ID, m)
        /\ m.type = "DONE"
    BY <1>0, <1>1, TickKeeps DEF accounts
  <1>3. pc[PARENT_ID] = "collecting" /\ q = peer[PARENT_ID] /\ q \in stopped
    <2>1. pc[PARENT_ID] # "serving"
      BY <1>2 DEF TypeOK
    <2>2. pc[PARENT_ID] = "collecting" /\ q = peer[PARENT_ID]
      BY <1>1, <1>2, <2>1, TakesIn
    <2> QED
      BY <1>2, <2>2 DEF FrameOk
  <1>4. peer'[PARENT_ID] = q + 1
    BY <1>1, <1>2, <1>3, NextPeer
  <1>5. ReceiverInv'
    <2>1. \A x \in Frames(q, PARENT_ID)' : Rank(x) > 3
      BY <1>1, <1>2, RankOf DEF Gets
    <2>2. \A r \in Worker : DoneHeard(r)' => DoneHeard(r) \/ r = q
      BY <1>1, <1>3, <1>4 DEF DoneHeard
    <2>3. \A r \in Worker : ~HistoryHeard(r)'
      BY <1>1, <1>3 DEF HistoryHeard
    <2> QED
      BY <1>1, <1>2, <1>3, <2>1, <2>2, <2>3, ReceiverHeard DEF BankInv, accounts
  <1>6. PhaseInv'
    BY <1>1, <1>2, <1>3, PhaseKept DEF BankInv, accounts, events, PhaseInv, Stopping, Started
  <1>7. MoneyInv'
    BY <1>1, <1>2, MoneyKept DEF BankInv, accounts, events
  <1> QED
    BY <1>2, <1>5, <1>6, <1>7 DEF BankInv

LEMMA GatherStep ==
  ASSUME BankInv, TypeInv', PcMoves, NEW q \in Worker, AwaitHistory(q)
  PROVE  BankInv'
  <1> USE NodeFacts
  <1>0. PICK m : m = Received(PARENT_ID, q)
    OBVIOUS
  <1>1. /\ Takes(PARENT_ID, q, "BALANCE_HISTORY") /\ Ticks(PARENT_ID, q)
        /\ ToNextPeer(PARENT_ID) /\ history' = [history EXCEPT ![q] = m.payload]
        /\ UNCHANGED <<pc, outbox, next, stopped, done, ledger, events>>
        /\ q \in Node \ {PARENT_ID}
    BY <1>0 DEF AwaitHistory
  <1>2. /\ TypeOK /\ TypeOK' /\ Grows /\ OrderInv' /\ SenderInv'
        /\ Gets(PARENT_ID, q, m, m, {}) /\ New(PARENT_ID, m, {}) /\ FrameOk(q, PARENT_ID, m)
        /\ m.type = "BALANCE_HISTORY"
    BY <1>0, <1>1, TickKeeps
  <1>3. pc[PARENT_ID] = "gathering" /\ q = peer[PARENT_ID]
    <2>1. pc[PARENT_ID] # "serving"
      BY <1>2 DEF TypeOK
    <2>2. pc[PARENT_ID] = "gathering" /\ q = peer[PARENT_ID]
      BY <1>1, <1>2, <2>1, TakesIn
    <2> QED
      BY <2>2
  <1>4. peer'[PARENT_ID] = q + 1
    BY <1>1, <1>2, <1>3, NextPeer
  <1>5. history'[q] = m.payload /\ \A r \in Worker : r # q => history'[r] = history[r]
    BY <1>1, <1>2 DEF TypeOK
  <1>6. ReceiverInv'
    <2>1. Frames(q, PARENT_ID)' = {} /\ history'[q] = ledger'[q] /\ Reported(q)'
      <3>1. \A x \in Frames(q, PARENT_ID) : Rank(x) > 3
        BY <1>3 DEF BankInv, ReceiverInv, DoneHeard
      <3>2. Frames(q, PARENT_ID)' = {}
        BY <1>1, <1>2, <3>1, RankOf, RankFacts DEF Gets
      <3> QED
        BY <1>1, <1>2, <1>5, <3>2 DEF FrameOk, Reported
    <2>2. \A r \in Worker : HistoryHeard(r)' => (HistoryHeard(r) /\ r # q) \/ r = q
      BY <1>1, <1>3, <1>4 DEF HistoryHeard
    <2>3. \A r \in Worker : DoneHeard(r)' => DoneHeard(r)
      BY <1>1, <1>3 DEF DoneHeard
    <2> QED
      BY <1>1, <1>2, <1>3, <1>5, <2>1, <2>2, <2>3, ReceiverHeard DEF BankInv
  <1>7. PhaseInv'
    BY <1>1, <1>2, <1>3, PhaseKept DEF BankInv, events, PhaseInv, Stopping, Started
  <1>8. MoneyInv'
    BY <1>1, <1>2, MoneyKept DEF BankInv, events
  <1> QED
    BY <1>2, <1>6, <1>7, <1>8 DEF BankInv

LEMMA AckStep ==
  ASSUME BankInv, TypeInv', PcMoves, NEW q \in Worker, AwaitAck(q)
  PROVE  BankInv'
  <1> USE NodeFacts
  <1>0. PICK m : m = Received(PARENT_ID, q)
    OBVIOUS
  <1>1. /\ Takes(PARENT_ID, q, "ACK") /\ Ticks(PARENT_ID, q)
        /\ next' = next + 1 /\ pc' = [pc EXCEPT ![PARENT_ID] = "robbing"]
        /\ UNCHANGED <<outbox, peer, stopped, done, accounts>>
        /\ q \in Node \ {PARENT_ID}
    BY DEF AwaitAck, Goto
  <1>2. /\ TypeOK /\ TypeOK' /\ Grows /\ OrderInv' /\ SenderInv'
        /\ Gets(PARENT_ID, q, m, m, {}) /\ New(PARENT_ID, m, {})
        /\ m \in Frames(q, PARENT_ID) /\ m.type = "ACK" /\ Money(m)
    BY <1>0, <1>1, TickKeeps DEF accounts, Money
  <1>3. pc'[PARENT_ID] = "robbing" /\ ~Writing(PARENT_ID)
    BY <1>1, <1>2 DEF TypeOK, Takes, Reading
  <1>4. /\ MoneyOk(q, PARENT_ID, m) /\ ~Stopping /\ stopped = {} /\ AllBorn
        /\ pc[PARENT_ID] \notin {"boot", "starting", "robbing"}
        /\ \A c, d \in Node : \A k \in Frames(c, d) : Money(k) => c = q /\ d = PARENT_ID /\ k = m
        /\ next \in 1..Len(Orders)
    BY <1>1, <1>2, MoneyFacts
  <1>5. ReceiverInv'
    BY <1>1, <1>2, <1>3, ReceiverKept DEF BankInv, accounts
  <1>6. PhaseInv'
    BY <1>1, <1>2, <1>3, <1>4, PhaseKept DEF BankInv, accounts, events
  <1>7. MoneyInv'
    <2>1. NoMoney'
      BY <1>1, <1>2, <1>4 DEF Gets, NoMoney, Money
    <2>2. Len(outgoing) = next /\ Len(incoming) = next /\ incoming[next].time < m.time
      BY <1>4 DEF MoneyOk
    <2>3. incoming[next].time < clock'[PARENT_ID]
      <3>1. clock'[PARENT_ID] = TimeOfReceipt(PARENT_ID, q)
        BY <1>1, <1>2 DEF Ticks, TypeOK
      <3>2. /\ m.time \in Nat /\ TimeOfReceipt(PARENT_ID, q) \in Nat
            /\ m.time < TimeOfReceipt(PARENT_ID, q)
        BY <1>0, <1>1, <1>2, TakeTimes
      <3>3. incoming[next].time \in Nat
        <4>1. incoming \in Seq(Event) /\ next \in DOMAIN incoming
          BY <1>2, <1>4, <2>2 DEF TypeOK
        <4>2. incoming[next] \in Event
          BY <4>1, ElementOfSeq
        <4> QED
          BY <4>2, ClockFacts DEF Event
      <3> QED
        BY <2>2, <3>1, <3>2, <3>3
    <2>4. next \in Nat /\ next' - 1 = next
      BY <1>1, <1>4, Pa3Assumption
    <2> QED
      BY <1>1, <2>1, <2>2, <2>3, <2>4 DEF MoneyInv, NoMoney, accounts, events
  <1> QED
    BY <1>2, <1>5, <1>6, <1>7 DEF BankInv

-----------------------------------------------------------------------------
(* The end: STOP, DONE and the histories. *)

LEMMA BroadcastStep ==
  ASSUME BankInv, TypeInv', PcMoves, BroadcastStop
  PROVE  BankInv'
  <1> USE NodeFacts
  <1>0. PICK t, f : /\ t = ClockSend(clock[PARENT_ID])
                    /\ f = [type |-> "STOP", time |-> t, payload |-> Nothing]
    OBVIOUS
  <1>1. /\ TypeOK /\ TypeOK' /\ OrderInv /\ pc[PARENT_ID] = "robbing" /\ ~MoreOrders
        /\ Sends(PARENT_ID, clock[PARENT_ID], "STOP", Nothing, Worker)
        /\ peer' = [peer EXCEPT ![PARENT_ID] = 1] /\ pc' = [pc EXCEPT ![PARENT_ID] = "collecting"]
        /\ UNCHANGED <<channel, next, stopped, done, accounts>>
        /\ clock[PARENT_ID] \in Timestamp
    BY DEF BroadcastStop, Robbing, Goto, BankInv, TypeInv, TypeOK
  <1>2. ~Stopping /\ stopped = {} /\ NoMoney /\ ~Writing(PARENT_ID) /\ AllBorn
    BY <1>1 DEF BankInv, PhaseInv, Stopping, MoneyInv, Started
  <1>3. \A b \in Node : Frames(PARENT_ID, b) = {}
    BY <1>2 DEF BankInv, SenderInv, FrameOk, Stopping, NoMoney, Money
  <1>4. t \in Timestamp /\ f \in Frame /\ f.type = "STOP" /\ ~Money(f)
    <2>1. t \in Timestamp
      BY <1>0, <1>1, ClockFacts DEF Sends
    <2>2. "STOP" \in MessageType
      BY DEF MessageType
    <2> QED
      BY <1>0, <2>1, <2>2, FrameType DEF Money
  <1>5. New(PARENT_ID, f, Worker) /\ OrderInv'
    BY <1>0, <1>1, <1>2, <1>3, <1>4, SendStep
  <1>6. Grows
    <2>1. clock[PARENT_ID] \in Nat /\ clock[PARENT_ID] <= clock[PARENT_ID]
      BY <1>1, ClockFacts
    <2> QED
      BY <1>1, <2>1, SendGrows DEF Grows, accounts
  <1>7. pc'[PARENT_ID] = "collecting" /\ peer'[PARENT_ID] = 1
    BY <1>1 DEF TypeOK
  <1>8. SenderInv'
    <2>1. ASSUME NEW b \in Node, b \in Worker PROVE FrameOk(PARENT_ID, b, f)'
      BY <1>4, <1>7, <2>1 DEF FrameOk
    <2> QED
      BY <1>5, <1>6, <2>1, SenderKept DEF BankInv
  <1>9. ReceiverInv'
    <2>1. Fresh(PARENT_ID, f, Worker)
      BY <1>2 DEF Fresh
    <2>2. \A p \in Worker : ~DoneHeard(p)' /\ ~HistoryHeard(p)'
      BY <1>7 DEF DoneHeard, HistoryHeard, Worker
    <2> QED
      BY <1>1, <1>5, <1>6, <2>1, <2>2, ReceiverHeard DEF BankInv
  <1>10. NoMoney'
    BY <1>2, <1>4, <1>5 DEF NoMoney, New, Money
  <1>11. PhaseInv'
    <2>1. next = Len(Orders) + 1
      <3>1. next \in 1..(Len(Orders) + 1) /\ ~(next <= Len(Orders)) /\ Len(Orders) \in Nat
        BY <1>1, Pa3Assumption, LenProperties DEF TypeOK, MoreOrders
      <3> QED
        BY <3>1
    <2>2. Len(outgoing) = next - 1 /\ Len(incoming) = next - 1
      BY <1>1 DEF BankInv, MoneyInv
    <2>3. AllBorn'
      BY <1>2, BornStays DEF AllBorn
    <2>4. Len(Orders) \in Nat
      BY Pa3Assumption
    <2> QED
      BY <1>1, <1>7, <1>10, <2>1, <2>2, <2>3, <2>4 DEF PhaseInv, accounts, events
  <1>12. MoneyInv'
    BY <1>1, <1>4, <1>5, <1>6, <1>7, MoneyKept DEF BankInv, accounts, events
  <1> QED
    BY <1>5, <1>8, <1>9, <1>11, <1>12 DEF BankInv

LEMMA StopStep ==
  ASSUME BankInv, TypeInv', PcMoves, NEW p \in Node, NEW q \in Node \ {p}, ReceiveStop(p, q)
  PROVE  BankInv'
  <1> USE NodeFacts
  <1>0. PICK m, now, to, f :
          /\ m = Received(p, q) /\ now = TimeOfReceipt(p, q) /\ to = Node \ {p}
          /\ f = [type |-> "DONE", time |-> ClockSend(now), payload |-> Nothing]
    OBVIOUS
  <1>1. /\ TypeOK /\ TypeOK' /\ OrderInv
        /\ Takes(p, q, "STOP") /\ stopped' = stopped \cup {p}
        /\ Sends(p, now, "DONE", Nothing, to)
        /\ UNCHANGED <<pc, peer, next, done, history, events>>
        /\ \A a \in Worker : a # p => ledger'[a] = ledger[a]
    BY <1>0 DEF ReceiveStop, BankInv, TypeInv, TypeOK
  <1>2. /\ p \in Worker /\ pc[p] = "serving" /\ q = PARENT_ID /\ p \notin stopped
        /\ m \in Frames(PARENT_ID, p) /\ m.type = "STOP"
    BY <1>0, <1>1, TakesIn, TakenFrame
  <1>3. now \in Timestamp /\ now \in Nat /\ clock[p] <= now /\ clock[p] \in Nat
    <2>1. Takes(p, q, "STOP")
      BY <1>1
    <2>2. m = Received(p, q) /\ now = TimeOfReceipt(p, q)
      BY <1>0
    <2>3. /\ now \in Timestamp /\ now \in Nat /\ m.time < now /\ m.time \in Nat
          /\ clock[p] < now /\ clock[p] <= now /\ clock[p] \in Nat
      BY <1>1, <2>1, <2>2, NamedTakeTimes
    <2> QED
      BY <2>3
  <1>4. f \in Frame /\ f.type = "DONE" /\ ~Money(f)
    <2>1. ClockSend(now) \in Timestamp
      BY <1>1, <1>3, ClockFacts DEF Sends
    <2>2. "DONE" \in MessageType
      BY DEF MessageType
    <2> QED
      BY <1>0, <2>1, <2>2, FrameType DEF Money
  <1>5. ASSUME NEW b \in Node, NEW x \in Frames(p, b) PROVE Rank(x) < Rank(f)
    <2>1. FrameOk(p, b, x)
      BY DEF BankInv, SenderInv
    <2>2. x.type \in {"STARTED", "TRANSFER", "ACK"}
      BY <1>2, <2>1 DEF FrameOk, Reported
    <2> QED
      BY <1>4, <2>2, RankOf
  <1>6. Gets(p, q, m, f, to) /\ New(p, f, to) /\ OrderInv'
    BY <1>0, <1>1, <1>4, <1>5, ReplyStep
  <1>7. Grows
    <2>1. \A n \in Node : clock[n] <= clock'[n]
      BY <1>1, <1>3, SendGrows
    <2> QED
      BY <1>1, <1>2, <2>1 DEF Grows
  <1>8. SenderInv'
    <2>1. ASSUME NEW b \in Node, b \in to PROVE FrameOk(p, b, f)'
      BY <1>0, <1>1, <1>2, <1>4, <2>1 DEF FrameOk, Born
    <2> QED
      BY <1>6, <1>7, <2>1, SenderKept DEF BankInv
  <1>9. ReceiverInv'
    <2>1. Fresh(p, f, to)
      BY <1>2 DEF Fresh, Reported
    <2>2. \A x \in Frames(PARENT_ID, p)' : Rank(x) > 3
      BY <1>2, <1>6, RankOf DEF Gets
    <2> QED
      BY <1>1, <1>2, <1>6, <1>7, <2>1, <2>2, ReceiverHeard DEF BankInv, DoneHeard, HistoryHeard
  <1>10. Stopping /\ AllBorn
    BY <1>2 DEF BankInv, PhaseInv, Started, Stopping
  <1>11. PhaseInv'
    <2>1. outbox'[PARENT_ID] = outbox[PARENT_ID]
      BY <1>1, <1>2 DEF Sends, TypeOK
    <2> QED
      BY <1>1, <1>2, <1>4, <1>6, <1>10, <2>1, PhaseKept DEF BankInv, events
  <1>12. MoneyInv'
    BY <1>1, <1>4, <1>6, <1>7, MoneyKept DEF BankInv, events
  <1> QED
    BY <1>6, <1>8, <1>9, <1>11, <1>12 DEF BankInv

LEMMA ReportStep ==
  ASSUME BankInv, TypeInv', PcMoves, NEW p \in Node, ReportHistory(p)
  PROVE  BankInv'
  <1> USE NodeFacts
  <1>0. PICK t, book, to, f :
          /\ t = ClockSend(clock[p]) /\ book = ledger'[p] /\ to = {PARENT_ID}
          /\ f = [type |-> "BALANCE_HISTORY", time |-> t, payload |-> book]
    OBVIOUS
  <1>1. /\ TypeOK /\ TypeOK' /\ OrderInv /\ Served(p)
        /\ Sends(p, clock[p], "BALANCE_HISTORY", book, to)
        /\ pc' = [pc EXCEPT ![p] = "reporting"]
        /\ UNCHANGED <<channel, protocol, history, events>>
        /\ \A a \in Worker : a # p => ledger'[a] = ledger[a]
        /\ clock[p] \in Timestamp
    BY <1>0 DEF ReportHistory, Goto, BankInv, TypeInv, TypeOK
  <1>2. /\ p \in Worker /\ p # PARENT_ID /\ pc[p] = "serving" /\ ~Writing(p) /\ p \in stopped
        /\ pc'[p] = "reporting" /\ pc'[PARENT_ID] = pc[PARENT_ID]
    BY <1>1 DEF Served, TypeOK
  <1>3. f \in Frame /\ f.type = "BALANCE_HISTORY" /\ f.payload = book /\ ~Money(f)
    <2>1. t \in Timestamp
      BY <1>0, <1>1, ClockFacts DEF Sends
    <2>2. "BALANCE_HISTORY" \in MessageType /\ book \in History
      BY <1>0, <1>1, <1>2 DEF MessageType, TypeOK
    <2> QED
      BY <1>0, <2>1, <2>2, FrameType DEF Money
  <1>4. ASSUME NEW x \in Frames(p, PARENT_ID) PROVE Rank(x) < Rank(f)
    <2>1. FrameOk(p, PARENT_ID, x)
      BY DEF BankInv, SenderInv
    <2>2. x.type \in {"STARTED", "ACK", "DONE"}
      BY <1>2, <2>1 DEF FrameOk, Reported
    <2> QED
      BY <1>3, <2>2, RankOf
  <1>5. New(p, f, to) /\ OrderInv'
    BY <1>0, <1>1, <1>2, <1>3, <1>4, SendStep
  <1>6. Grows
    <2>1. clock[p] \in Nat /\ clock[p] <= clock[p]
      BY <1>1, ClockFacts
    <2> QED
      BY <1>1, <1>2, <2>1, SendGrows DEF Grows, protocol
  <1>7. SenderInv'
    <2>1. ASSUME NEW b \in Node, b \in to PROVE FrameOk(p, b, f)'
      BY <1>0, <1>2, <1>3, <2>1 DEF FrameOk, Born, Reported
    <2> QED
      BY <1>5, <1>6, <2>1, SenderKept DEF BankInv
  <1>8. ReceiverInv'
    <2>1. Fresh(p, f, to)
      BY <1>0, <1>2, <1>3, RankOf DEF Fresh, Reported
    <2> QED
      BY <1>1, <1>2, <1>5, <1>6, <2>1, ReceiverKept DEF BankInv, protocol
  <1>9. PhaseInv'
    <2>1. outbox'[PARENT_ID] = outbox[PARENT_ID]
      BY <1>1, <1>2 DEF Sends, TypeOK
    <2>2. Stopping /\ AllBorn
      BY <1>2 DEF BankInv, PhaseInv, Stopping, Started
    <2> QED
      BY <1>1, <1>2, <1>3, <1>5, <2>1, <2>2, PhaseKept DEF BankInv, protocol, events
  <1>10. MoneyInv'
    BY <1>1, <1>2, <1>3, <1>5, <1>6, MoneyKept DEF BankInv, protocol, events, MoneyInv
  <1> QED
    BY <1>5, <1>7, <1>8, <1>9, <1>10 DEF BankInv

LEMMA AllDoneStep ==
  ASSUME BankInv, TypeInv', PcMoves, AllDone
  PROVE  BankInv'
  <1> USE NodeFacts
  <1> DEFINE f == Sending(PARENT_ID)
  <1>1. /\ TypeOK /\ TypeOK' /\ pc[PARENT_ID] = "collecting" /\ Passed
        /\ peer' = [peer EXCEPT ![PARENT_ID] = 1] /\ pc' = [pc EXCEPT ![PARENT_ID] = "gathering"]
        /\ UNCHANGED <<clock, channel, outbox, next, stopped, done, accounts>>
    BY DEF AllDone, PastTheLast, Passed, Goto, BankInv, TypeInv
  <1>2. pc'[PARENT_ID] = "gathering" /\ peer'[PARENT_ID] = 1
    BY <1>1 DEF TypeOK
  <1>3. OrderInv' /\ New(PARENT_ID, f, {}) /\ Grows
    <2>1. Silent /\ OrderInv'
      BY <1>1, SamePipes, SilentFrames DEF BankInv
    <2> QED
      BY <1>1, <2>1, NewFrames, SameGrows DEF accounts
  <1> HIDE DEF f
  <1>4. SenderInv'
    BY <1>3, SenderKept DEF BankInv
  <1>5. ReceiverInv'
    <2>1. \A p \in Worker : p < peer[PARENT_ID]
      BY <1>1, PassedAll
    <2>2. \A p \in Worker : DoneHeard(p)
      BY <1>1, <2>1 DEF DoneHeard
    <2>3. \A p \in Worker : ~HistoryHeard(p)'
      BY <1>2 DEF HistoryHeard, Worker
    <2> QED
      BY <1>1, <1>3, <2>2, <2>3, ReceiverHeard DEF BankInv, accounts
  <1>6. PhaseInv'
    BY <1>1, <1>2, <1>3, PhaseKept DEF BankInv, accounts, events, PhaseInv, Stopping, Started
  <1>7. MoneyInv'
    BY <1>1, <1>2, <1>3, MoneyKept DEF BankInv, accounts, events
  <1> QED
    BY <1>3, <1>4, <1>5, <1>6, <1>7 DEF BankInv

-----------------------------------------------------------------------------
(* The invariant. *)

LEMMA BankInit == Init => BankInv
  <1> SUFFICES ASSUME Init PROVE BankInv
    OBVIOUS
  <1> USE NodeFacts
  <1>1. TypeInv /\ TypeOK
    BY TypeInit DEF TypeInv
  <1>2. \A a, b \in Node : Way(a, b) = <<>> /\ Frames(a, b) = {}
    BY DEF Init, Way, Idle, Frames, Range
  <1>3. pc[PARENT_ID] = "boot" /\ \A p \in Worker : pc[p] = "unborn"
    BY DEF Init, NothingForked
  <1>4. OrderInv /\ SenderInv
    BY <1>2 DEF OrderInv, SenderInv, Ascending
  <1>5. ReceiverInv
    BY <1>3 DEF Init, ReceiverInv, DoneHeard, HistoryHeard
  <1>6. PhaseInv
    <2>1. peer[PARENT_ID] = 1
      BY DEF Init, PeerFrom, PARENT_ID, Node
    <2> QED
      BY <1>2, <1>3, <2>1 DEF Init, PhaseInv, Started, Stopping, Worker
  <1>7. MoneyInv
    BY <1>2 DEF Init, MoneyInv, NoMoney
  <1> QED
    BY <1>1, <1>4, <1>5, <1>6, <1>7 DEF BankInv

LEMMA BankStep == BankInv /\ [Next]_vars => BankInv'
<1> SUFFICES ASSUME BankInv, [Next]_vars PROVE BankInv'
  OBVIOUS
<1> USE NodeFacts
<1>0. TypeOK /\ TypeInv' /\ PcMoves
  BY TypeStep, StepMoves DEF BankInv, TypeInv
<1>1. ASSUME NEW n \in Node, NodeNext(n) PROVE BankInv'
  <2>1. CASE AnnounceStarted(n)
    BY <1>0, <2>1, AnnounceStep
  <2>2. CASE ReportHistory(n)
    BY <1>0, <2>2, ReportStep
  <2>3. CASE PassStarted(n) \/ ExitChild(n)
    <3>1. /\ pc'[PARENT_ID] \notin {"collecting", "gathering"} \/ pc'[PARENT_ID] = pc[PARENT_ID]
          /\ pc'[PARENT_ID] = "robbing" => pc[PARENT_ID] # "acking"
      BY <1>0, <2>3 DEF PassStarted, ExitChild, Goto, TypeOK
    <3> QED
      BY <1>0, <2>3, <3>1, GotoStep DEF PassStarted, ExitChild
  <2>4. ASSUME NEW q \in Node \ {n}, WriteFrame(n, q) PROVE BankInv'
    BY <1>0, <2>4, WriteStep
  <2>5. ASSUME NEW q \in Node \ {n}, BrokenPipe(n, q) \/ RejectFrame(n, q) PROVE BankInv'
    BY <1>0, <2>5, FatalStep DEF BrokenPipe, RejectFrame
  <2>6. ASSUME NEW q \in Node \ {n}, AwaitStarted(n, q) PROVE BankInv'
    BY <1>0, <2>6, StartedStep
  <2>7. ASSUME NEW q \in Node \ {n}, ReceiveOrder(n, q) PROVE BankInv'
    BY <1>0, <2>7, OrderStep
  <2>8. ASSUME NEW q \in Node \ {n}, ReceiveTransfer(n, q) PROVE BankInv'
    BY <1>0, <2>8, TransferStep
  <2>9. ASSUME NEW q \in Node \ {n}, ReceiveStop(n, q) PROVE BankInv'
    BY <1>0, <2>9, StopStep
  <2>10. ASSUME NEW q \in Node \ {n}, ReceiveDone(n, q) PROVE BankInv'
    BY <1>0, <2>10, DoneStep
  <2>11. CASE PeersClosed(n) \/ Refuse(n)
    BY <1>0, <2>11, FatalStep DEF PeersClosed, Refuse
  <2> QED
    BY <1>1, <2>1, <2>2, <2>3, <2>4, <2>5, <2>6, <2>7, <2>8, <2>9, <2>10, <2>11 DEF NodeNext
<1>2. CASE ParentNext
  <2>1. CASE RequestTransfer
    BY <1>0, <2>1, RequestStep
  <2>2. CASE BroadcastStop
    BY <1>0, <2>2, BroadcastStep
  <2>3. CASE AllDone
    BY <1>0, <2>3, AllDoneStep
  <2>4. CASE FinishHistory
    <3>1. pc'[PARENT_ID] = "reaping"
      BY <1>0, <2>4 DEF FinishHistory, Goto, TypeOK
    <3> QED
      BY <1>0, <2>4, <3>1, GotoStep DEF FinishHistory
  <2>5. ASSUME NEW q \in Worker, AwaitAck(q) PROVE BankInv'
    BY <1>0, <2>5, AckStep
  <2>6. ASSUME NEW q \in Worker, AwaitDone(q) PROVE BankInv'
    BY <1>0, <2>6, CollectStep
  <2>7. ASSUME NEW q \in Worker, AwaitHistory(q) PROVE BankInv'
    BY <1>0, <2>7, GatherStep
  <2> QED
    BY <1>2, <2>1, <2>2, <2>3, <2>4, <2>5, <2>6, <2>7 DEF ParentNext
<1>3. CASE Supervision \/ Signals
  <2>1. /\ pc'[PARENT_ID] \notin {"collecting", "gathering"} \/ pc'[PARENT_ID] = pc[PARENT_ID]
        /\ pc'[PARENT_ID] = "robbing" => pc[PARENT_ID] # "acking"
    <3>1. CASE Supervision
      BY <1>0, <3>1 DEF Supervision, Supervise, AllForked, Reap, Fork, ForkFails, StopWorker,
                        Goto, TypeOK
    <3>2. CASE Signals
      BY <1>0, <3>2 DEF Signals, Kill, Goto, TypeOK
    <3> QED
      BY <1>3, <3>1, <3>2
  <2> QED
    BY <1>0, <1>3, <2>1, GotoStep DEF Supervision, Signals
<1>4. CASE UNCHANGED vars
  BY <1>0, <1>4, GotoStep DEF vars, protocol, accounts, events
<1> QED
  BY <1>1, <1>2, <1>3, <1>4 DEF Next

LEMMA BankAlways == Spec => []BankInv
  BY BankInit, BankStep, PTL DEF Spec

-----------------------------------------------------------------------------
(* The log of the transfers. *)

LogInv ==
  /\ Len(incoming) <= Len(outgoing) /\ Len(outgoing) <= Len(incoming) + 1
  /\ \A i \in DOMAIN outgoing : outgoing[i].order = Orders[i]
  /\ \A i \in DOMAIN incoming :
       /\ incoming[i].order = Orders[i]
       /\ outgoing[i].time < incoming[i].time
       /\ i + 1 \in DOMAIN outgoing => incoming[i].time < outgoing[i + 1].time

LEMMA EventsMove ==
  [Next]_vars =>
    \/ UNCHANGED events
    \/ \E p \in Node : \E q \in Node \ {p} : ReceiveOrder(p, q) \/ ReceiveTransfer(p, q)
<1> SUFFICES ASSUME [Next]_vars,
                    ~\E p \in Node : \E q \in Node \ {p} :
                        ReceiveOrder(p, q) \/ ReceiveTransfer(p, q)
             PROVE  UNCHANGED events
  OBVIOUS
<1>1. ASSUME NEW p \in Node, NodeNext(p) PROVE UNCHANGED events
  BY <1>1 DEF NodeNext, AnnounceStarted, PassStarted, ReportHistory, ExitChild, WriteFrame,
              BrokenPipe, AwaitStarted, RejectFrame, ReceiveStop, ReceiveDone, PeersClosed,
              Refuse, Fatal, accounts, events
<1>2. CASE ParentNext
  BY <1>2 DEF ParentNext, RequestTransfer, BroadcastStop, AllDone, FinishHistory,
              AwaitAck, AwaitDone, AwaitHistory, accounts
<1>3. CASE Supervision \/ Signals \/ UNCHANGED vars
  BY <1>3 DEF Supervision, Signals, accounts, vars, events
<1> QED
  BY <1>1, <1>2, <1>3 DEF Next

(* What the step of a source and of a target write down. *)
LEMMA DebitFacts ==
  ASSUME BankInv, NEW p \in Node, NEW q \in Node \ {p}, ReceiveOrder(p, q),
         NEW now, now = TimeOfReceipt(p, q)
  PROVE  /\ next \in 1..Len(Orders) /\ ValidOrder(Orders[next]) /\ Orders[next] \in TransferOrder
         /\ p = Orders[next].src /\ p \in Worker /\ pc[p] = "serving"
         /\ now \in Nat /\ clock[p] < now /\ clock' = [clock EXCEPT ![p] = now + 1]
         /\ Len(outgoing) = next - 1 /\ Len(incoming) = next - 1
         /\ next > 1 => incoming[next - 1].time < now
         /\ outgoing' = Append(outgoing, [order |-> Orders[next], time |-> now + 1])
         /\ incoming' = incoming
         /\ ledger' = [ledger EXCEPT ![p] = Debit(@, now + 1, Orders[next].amount)]
  <1> USE NodeFacts
  <1>0. PICK m : m = Received(p, q)
    OBVIOUS
  <1>1. TypeOK /\ Takes(p, q, "TRANSFER") /\ IsDebit(p, q, m.payload[1])
    BY <1>0 DEF ReceiveOrder, BankInv, TypeInv
  <1>2. /\ p \in Worker /\ pc[p] = "serving" /\ MoneyOk(q, p, m) /\ m.payload[1] = Orders[next]
        /\ next \in 1..Len(Orders) /\ ValidOrder(Orders[next]) /\ Orders[next] \in TransferOrder
    BY <1>0, <1>1, TransferTaken
  <1>3. q = PARENT_ID /\ p = Orders[next].src
    BY <1>1, <1>2 DEF IsDebit
  <1>4. now \in Nat /\ clock[p] < now /\ m.time < now /\ m.time \in Nat
    BY <1>0, <1>1, TakeTimes
  <1>5. /\ Len(outgoing) = next - 1 /\ Len(incoming) = next - 1
        /\ next > 1 => incoming[next - 1].time < m.time
    BY <1>2, <1>3 DEF MoneyOk
  <1>6. next > 1 => incoming[next - 1].time < now
    <2>1. SUFFICES ASSUME next > 1 PROVE incoming[next - 1].time < now
      OBVIOUS
    <2>2. incoming \in Seq(Event) /\ next - 1 \in 1..Len(incoming)
      BY <1>1, <1>2, <1>5, <2>1, Pa3Assumption DEF TypeOK
    <2>3. incoming[next - 1] \in Event
      BY <2>2, ElementOfSeq
    <2>4. incoming[next - 1].time \in Nat
      BY <2>3, ClockFacts DEF Event
    <2> QED
      BY <1>4, <1>5, <2>1, <2>4
  <1>7. /\ clock' = [clock EXCEPT ![p] = now + 1] /\ incoming' = incoming
        /\ outgoing' = Append(outgoing, [order |-> Orders[next], time |-> now + 1])
        /\ ledger' = [ledger EXCEPT ![p] = Debit(@, now + 1, Orders[next].amount)]
    BY <1>0, <1>2 DEF ReceiveOrder, Sends, ClockSend
  <1> QED
    BY <1>2, <1>3, <1>4, <1>5, <1>6, <1>7

LEMMA CreditFacts ==
  ASSUME BankInv, NEW p \in Node, NEW q \in Node \ {p}, ReceiveTransfer(p, q),
         NEW now, now = TimeOfReceipt(p, q)
  PROVE  /\ next \in 1..Len(Orders) /\ ValidOrder(Orders[next]) /\ Orders[next] \in TransferOrder
         /\ p = Orders[next].dst /\ p \in Worker /\ pc[p] = "serving"
         /\ now \in Nat /\ clock[p] < now /\ clock' = [clock EXCEPT ![p] = now + 1]
         /\ Len(outgoing) = next /\ Len(incoming) = next - 1 /\ outgoing[next].time < now
         /\ incoming' = Append(incoming, [order |-> Orders[next], time |-> now])
         /\ outgoing' = outgoing
         /\ ledger' = [ledger EXCEPT ![p] =
                         Credit(@, outgoing[next].time, now, Orders[next].amount)]
         /\ CanCredit(ledger[p], outgoing[next].time, now, Orders[next].amount)
  <1> USE NodeFacts
  <1>0. PICK m : m = Received(p, q)
    OBVIOUS
  <1>1. TypeOK /\ Takes(p, q, "TRANSFER") /\ IsCredit(p, q, m.payload[1])
    BY <1>0 DEF ReceiveTransfer, BankInv, TypeInv
  <1>2. /\ p \in Worker /\ pc[p] = "serving" /\ MoneyOk(q, p, m) /\ m.payload[1] = Orders[next]
        /\ next \in 1..Len(Orders) /\ ValidOrder(Orders[next]) /\ Orders[next] \in TransferOrder
        /\ AcceptsTransfer(p, q, m, now)
    BY <1>0, <1>1, TransferTaken
  <1>3. q = Orders[next].src /\ p = Orders[next].dst /\ q \in Worker /\ q # PARENT_ID
    BY <1>1, <1>2 DEF IsCredit, ValidOrder
  <1>4. now \in Nat /\ clock[p] < now /\ m.time < now /\ m.time \in Nat
    BY <1>0, <1>1, TakeTimes
  <1>5. Len(outgoing) = next /\ Len(incoming) = next - 1 /\ m.time = outgoing[next].time
    BY <1>2, <1>3 DEF MoneyOk
  <1>6. CanCredit(ledger[p], outgoing[next].time, now, Orders[next].amount)
    BY <1>2, <1>3, <1>5 DEF AcceptsTransfer, IsDebit
  <1>7. /\ clock' = [clock EXCEPT ![p] = now + 1] /\ outgoing' = outgoing
        /\ incoming' = Append(incoming, [order |-> Orders[next], time |-> now])
        /\ ledger' = [ledger EXCEPT ![p] = Credit(@, m.time, now, Orders[next].amount)]
    BY <1>0, <1>2 DEF ReceiveTransfer, Sends, ClockSend
  <1> QED
    BY <1>2, <1>3, <1>4, <1>5, <1>6, <1>7

LEMMA LogStep == BankInv /\ LogInv /\ [Next]_vars => LogInv'
<1> SUFFICES ASSUME BankInv, LogInv, [Next]_vars PROVE LogInv'
  OBVIOUS
<1>0. outgoing \in Seq(Event) /\ incoming \in Seq(Event) /\ next \in Nat
  BY Pa3Assumption DEF BankInv, TypeInv, TypeOK
<1>1. ASSUME NEW p \in Node, NEW q \in Node \ {p}, ReceiveOrder(p, q) PROVE LogInv'
  <2>1. PICK now : now = TimeOfReceipt(p, q)
    OBVIOUS
  <2>2. PICK e : e = [order |-> Orders[next], time |-> now + 1]
    OBVIOUS
  <2>3. /\ Len(outgoing) = next - 1 /\ Len(incoming) = next - 1 /\ now \in Nat
        /\ next > 1 => incoming[next - 1].time < now
        /\ outgoing' = Append(outgoing, e) /\ incoming' = incoming
    BY <1>1, <2>1, <2>2, DebitFacts
  <2>4. /\ Len(outgoing') = next /\ DOMAIN outgoing' = 1..next /\ DOMAIN incoming = 1..(next - 1)
        /\ outgoing'[next] = e
        /\ \A i \in 1..(next - 1) : outgoing'[i] = outgoing[i]
        /\ DOMAIN outgoing = 1..(next - 1)
    BY <1>0, <2>3, AppendProperties
  <2>5. next > 1 => incoming[next - 1].time < now + 1
    <3>1. SUFFICES ASSUME next > 1 PROVE incoming[next - 1].time < now + 1
      OBVIOUS
    <3>2. incoming[next - 1] \in Event
      BY <1>0, <2>4, <3>1, ElementOfSeq
    <3>3. incoming[next - 1].time \in Nat
      BY <3>2, ClockFacts DEF Event
    <3> QED
      BY <2>3, <3>1, <3>3
  <2>6. ASSUME NEW i \in DOMAIN outgoing' PROVE outgoing'[i].order = Orders[i]
    BY <1>0, <2>2, <2>4 DEF LogInv
  <2>7. ASSUME NEW i \in DOMAIN incoming
        PROVE  /\ incoming[i].order = Orders[i]
               /\ outgoing'[i].time < incoming[i].time
               /\ i + 1 \in DOMAIN outgoing' => incoming[i].time < outgoing'[i + 1].time
    <3>1. incoming[i].order = Orders[i] /\ outgoing'[i].time < incoming[i].time
      BY <2>4 DEF LogInv
    <3>2. i + 1 \in DOMAIN outgoing => incoming[i].time < outgoing'[i + 1].time
      BY <1>0, <2>4 DEF LogInv
    <3>3. i + 1 = next => incoming[i].time < outgoing'[i + 1].time
      BY <1>0, <2>2, <2>4, <2>5
    <3> QED
      BY <1>0, <2>4, <3>1, <3>2, <3>3
  <2> QED
    BY <1>0, <2>3, <2>4, <2>6, <2>7 DEF LogInv
<1>2. ASSUME NEW p \in Node, NEW q \in Node \ {p}, ReceiveTransfer(p, q) PROVE LogInv'
  <2>1. PICK now : now = TimeOfReceipt(p, q)
    OBVIOUS
  <2>2. PICK e : e = [order |-> Orders[next], time |-> now]
    OBVIOUS
  <2>3. /\ Len(outgoing) = next /\ Len(incoming) = next - 1 /\ next \in 1..Len(Orders)
        /\ outgoing[next].time < now
        /\ incoming' = Append(incoming, e) /\ outgoing' = outgoing
    BY <1>2, <2>1, <2>2, CreditFacts
  <2>4. /\ Len(incoming') = next /\ DOMAIN incoming' = 1..next /\ DOMAIN outgoing = 1..next
        /\ incoming'[next] = e
        /\ \A i \in 1..(next - 1) : incoming'[i] = incoming[i]
        /\ DOMAIN incoming = 1..(next - 1)
    BY <1>0, <2>3, AppendProperties
  <2>5. ASSUME NEW i \in DOMAIN incoming'
        PROVE  /\ incoming'[i].order = Orders[i]
               /\ outgoing[i].time < incoming'[i].time
               /\ i + 1 \in DOMAIN outgoing => incoming'[i].time < outgoing[i + 1].time
    BY <1>0, <2>2, <2>3, <2>4 DEF LogInv
  <2> QED
    BY <1>0, <2>3, <2>4, <2>5 DEF LogInv
<1>3. CASE UNCHANGED events
  BY <1>3 DEF events, LogInv
<1> QED
  BY <1>1, <1>2, <1>3, EventsMove

LEMMA LogAlways == Spec => []LogInv
  <1>1. Init => LogInv
    BY DEF Init, LogInv
  <1> QED
    BY <1>1, LogStep, BankAlways, PTL DEF Spec

(* Transfers do not overlap, in logical time either, whoever is killed: each  *)
(* is the order bank_robbery gave, booked after it was sent and before the    *)
(* next is sent (transfer() of bank.c waits for the ACK).                     *)
THEOREM TransfersKeepOrder == Spec => []TransfersInOrder
  <1>1. BankInv /\ LogInv => TransfersInOrder
    <2> SUFFICES ASSUME BankInv, LogInv PROVE TransfersInOrder
      OBVIOUS
    <2>1. DOMAIN incoming \subseteq DOMAIN outgoing
      BY DEF BankInv, TypeInv, TypeOK, LogInv
    <2> QED
      BY <2>1 DEF LogInv, TransfersInOrder
  <1> QED
    BY <1>1, BankAlways, LogAlways, PTL

-----------------------------------------------------------------------------
(* The phases, the ends of the processes and of their pipes. *)

(* No account moves before every worker has announced itself, none after the *)
(* first STOP, and no history leaves a worker before all have stopped: the    *)
(* two barriers of child_run and parent_run in bank.c.                        *)
THEOREM BarriersKept == Spec => []BarriersHold
  <1>1. BankInv => BarriersHold
    <2> SUFFICES ASSUME BankInv PROVE BarriersHold
      OBVIOUS
    <2>1. outgoing # <<>> => \A p \in Worker : pc[p] \notin {"unborn", "boot"}
      BY DEF BankInv, PhaseInv, Started, AllBorn, Born
    <2>2. stopped # {} => Len(incoming) = Len(Orders)
      BY DEF BankInv, PhaseInv, Stopping
    <2>3. ASSUME NEW p \in Worker, pc[p] \in {"reporting", "exited"} PROVE stopped = Worker
      <3>1. p \in stopped /\ Worker \ {p} \subseteq stopped
        BY <2>3 DEF BankInv, ReceiverInv, Peers
      <3>2. stopped \subseteq Worker
        BY DEF BankInv, TypeInv, TypeOK
      <3> QED
        BY <3>1, <3>2
    <2> QED
      BY <2>1, <2>2, <2>3 DEF BarriersHold
  <1> QED
    BY <1>1, BankAlways, PTL

(* A node that closes its pipes with channels_close leaves nothing unread in  *)
(* them, and nobody is about to write to it.                                  *)
THEOREM PipesEmpty == Spec => []NothingUnread
  <1> USE NodeFacts
  <1>1. BankInv => NothingUnread
    <2> SUFFICES ASSUME BankInv, NEW p \in Node, NEW q \in Node, pc[p] \in {"reaping", "exited"}
                 PROVE  channel[q][p] = <<>> /\ p \notin outbox[q].to
      BY DEF NothingUnread
    <2>1. Frames(q, p) = {}
      <3>1. CASE p \in Worker
        <4>1. pc[p] = "exited" /\ p \in stopped /\ done[p] = Worker \ {p}
          BY <3>1 DEF BankInv, ReceiverInv, Peers, Over
        <4>2. ASSUME NEW m \in Frames(q, p) PROVE FALSE
          <5>1. FrameOk(q, p, m)
            BY DEF BankInv, SenderInv
          <5>2. Rank(m) > 3
            BY <3>1, <4>1, <5>1 DEF BankInv, ReceiverInv, FrameOk
          <5>3. m.type \in {"STARTED", "DONE", "TRANSFER", "STOP"}
            BY <3>1, <5>1 DEF FrameOk
          <5> QED
            BY <5>2, <5>3, RankOf
        <4> QED
          BY <4>2
      <3>2. CASE p = PARENT_ID
        <4>1. q \in Worker => Frames(q, p) = {}
          BY <3>2 DEF BankInv, ReceiverInv, HistoryHeard
        <4>2. q = p => Frames(q, p) = {}
          BY DEF BankInv, SenderInv, FrameOk
        <4> QED
          BY <3>2, <4>1, <4>2
      <3> QED
        BY <3>1, <3>2
    <2>2. Way(q, p) \in Seq(Frame) /\ channel[q][p] \in Seq(Frame)
      BY WayType DEF BankInv, TypeInv
    <2>3. Way(q, p) = <<>>
      <3>1. \A w \in Seq(Frame) : w # <<>> => w[1] \in Range(w)
        BY DEF Range
      <3> QED
        BY <2>1, <2>2, <3>1 DEF Frames
    <2> QED
      BY <2>2, <2>3 DEF Way
  <1> QED
    BY <1>1, BankAlways, PTL

EndInv ==
  /\ pc[PARENT_ID] \in {"exited", "failed"} => \A p \in Worker : pc[p] \in Over \cup {"unborn"}
  /\ pc[PARENT_ID] = "exited" => \A p \in Worker : pc[p] = "exited"

(* The parent's exit status is true: success means that every order was       *)
(* carried out and every worker exited with success, and unless it is killed  *)
(* the parent never ends before its children have (the waitpid loops of       *)
(* main.c and of stop_workers).                                               *)
THEOREM ParentIsRight == Spec => []ParentReports
  <1>1. Init => EndInv
    BY NodeFacts DEF Init, NothingForked, EndInv
  <1>2. TypeOK /\ EndInv /\ [Next]_vars => EndInv'
    <2> SUFFICES ASSUME EndInv, PcMoves PROVE EndInv'
      BY StepMoves
    <2> QED
      BY DEF EndInv, PcMoves, ParentMoves, WorkerMoves, Over
  <1>3. EndInv /\ BankInv => ParentReports
    BY DEF EndInv, BankInv, PhaseInv, Stopping, ParentReports
  <1>4. BankInv => TypeOK
    BY DEF BankInv, TypeInv
  <1> QED
    BY <1>1, <1>2, <1>3, <1>4, BankAlways, PTL DEF Spec

-----------------------------------------------------------------------------
(* The accounts: at every time they are what the log says. *)

LEMMA PicksNone == \A log : Sum(log, {}) = 0
  BY SumOfNone DEF Sum

LEMMA PicksSame ==
  ASSUME NEW S, NEW log, NEW more, \A i \in S : more[i] = log[i]
  PROVE  Sum(more, S) = Sum(log, S)
  <1>1. [i \in S |-> more[i].order.amount] = [i \in S |-> log[i].order.amount]
    OBVIOUS
  <1> QED
    BY <1>1 DEF Sum

LEMMA PicksMore ==
  ASSUME NEW S, IsFiniteSet(S), NEW n, n \notin S, NEW log,
         \A i \in S \cup {n} : log[i].order.amount \in Int
  PROVE  Sum(log, S \cup {n}) = Sum(log, S) + log[n].order.amount
  <1> DEFINE f == [i \in S |-> log[i].order.amount]
             g == [i \in S \cup {n} |-> log[i].order.amount]
  <1>1. /\ DOMAIN f = S /\ DOMAIN g = S \cup {n} /\ g[n] \in Int
        /\ \A i \in S : f[i] \in Int /\ g[i] = f[i]
        /\ g[n] = log[n].order.amount
    OBVIOUS
  <1>2. SumFunction(f) \in Int /\ SumFunction(g) = SumFunction(f) + g[n]
    <2> HIDE DEF f, g
    <2> QED
      BY <1>1, SumOneMore
  <1> QED
    BY <1>1, <1>2 DEF Sum

(* The lines of a log that an account's cell at a time is made of. *)
Spent(out, a, t) == {i \in DOMAIN out : out[i].order.src = a /\ out[i].time <= t}
Earned(in, a, t) == {i \in DOMAIN in : in[i].order.dst = a /\ in[i].time <= t}
Pending(out, in, a, t) ==
  {i \in DOMAIN in : in[i].order.dst = a /\ ~(in[i].time <= t) /\ out[i].time <= t}

Cell(out, in, a, t) ==
  [balance |-> Initial[a] - Sum(out, Spent(out, a, t)) + Sum(in, Earned(in, a, t)),
   pending_in |-> Sum(in, Pending(out, in, a, t))]

LEMMA CellParts ==
  \A a, t : /\ CellFromEvents(a, t) = Cell(outgoing, incoming, a, t)
            /\ CellFromEvents(a, t)' = Cell(outgoing', incoming', a, t)
  <1> TAKE a, t
  <1>1. ASSUME NEW out, NEW in
        PROVE  /\ {i \in {j \in DOMAIN in : in[j].order.dst = a} : in[i].time <= t}
                    = Earned(in, a, t)
               /\ {i \in {j \in DOMAIN in : in[j].order.dst = a}
                         \ {i \in {j \in DOMAIN in : in[j].order.dst = a} : in[i].time <= t} :
                      out[i].time <= t}
                    = Pending(out, in, a, t)
    BY DEF Earned, Pending
  <1> QED
    BY <1>1 DEF CellFromEvents, Spent, Cell

LEMMA LogTypes ==
  ASSUME NEW log \in Seq(Event)
  PROVE  /\ \A i \in DOMAIN log :
              log[i] \in Event /\ log[i].order.amount \in Int /\ log[i].time \in Nat
         /\ \A S \in SUBSET DOMAIN log : IsFiniteSet(S) /\ Sum(log, S) \in Int
  <1>1. \A i \in DOMAIN log : log[i] \in Event
    BY ElementOfSeq
  <1>2. \A i \in DOMAIN log : log[i].order.amount \in Int /\ log[i].time \in Nat
    BY <1>1, ClockFacts DEF Event, TransferOrder
  <1>3. IsFiniteSet(DOMAIN log)
    BY FS_Interval
  <1>4. ASSUME NEW S \in SUBSET DOMAIN log PROVE IsFiniteSet(S) /\ Sum(log, S) \in Int
    <2>1. IsFiniteSet(S)
      BY <1>3, FS_Subset
    <2>2. \A f : DOMAIN f = S /\ (\A i \in S : f[i] \in Int) => SumFunction(f) \in Int
      BY <2>1, SumType DEF SumFunction
    <2> QED
      BY <1>2, <2>1, <2>2 DEF Sum
  <1> QED
    BY <1>1, <1>2, <1>4

LEMMA LogAppend ==
  ASSUME NEW log \in Seq(Event), NEW e \in Event
  PROVE  /\ Append(log, e) \in Seq(Event)
         /\ Len(log) \in Nat /\ DOMAIN log = 1..Len(log)
         /\ DOMAIN Append(log, e) = 1..(Len(log) + 1)
         /\ Append(log, e)[Len(log) + 1] = e
         /\ \A i \in 1..Len(log) : Append(log, e)[i] = log[i]
  BY AppendProperties

(* What a sum makes of a line that is new in the log. *)
NewLine(more, log, n, amount) ==
  /\ log \in Seq(Event) /\ more \in Seq(Event)
  /\ n \in DOMAIN more /\ n \notin DOMAIN log /\ more[n].order.amount = amount
  /\ \A i \in DOMAIN log : i \in DOMAIN more /\ more[i] = log[i]

LEMMA SumAppend ==
  ASSUME NEW log, NEW more, NEW n, NEW amount, NewLine(more, log, n, amount),
         NEW S, S \subseteq DOMAIN log
  PROVE  /\ Sum(log, S) \in Int /\ amount \in Int
         /\ Sum(more, S) = Sum(log, S)
         /\ Sum(more, S \cup {n}) = Sum(log, S) + amount
  <1>1. IsFiniteSet(S) /\ Sum(log, S) \in Int
    BY LogTypes DEF NewLine
  <1>2. n \notin S /\ \A i \in S \cup {n} : more[i].order.amount \in Int
    BY LogTypes DEF NewLine
  <1>3. Sum(more, S) = Sum(log, S)
    BY PicksSame DEF NewLine
  <1>4. Sum(more, S \cup {n}) = Sum(more, S) + more[n].order.amount
    BY <1>1, <1>2, PicksMore
  <1>5. more[n].order.amount = amount /\ more[n].order.amount \in Int
    BY <1>2 DEF NewLine
  <1> QED
    BY <1>1, <1>3, <1>4, <1>5

(* What a line more on the outgoing or the incoming log does to a cell. *)
CellDebited(out, in, e, a, t) ==
  Cell(Append(out, e), in, a, t) =
    [balance |-> Cell(out, in, a, t).balance
                   - (IF a = e.order.src /\ e.time <= t THEN e.order.amount ELSE 0),
     pending_in |-> Cell(out, in, a, t).pending_in]

CellCredited(out, in, n, e, a, t) ==
  Cell(out, Append(in, e), a, t) =
    [balance |-> Cell(out, in, a, t).balance
                   + (IF a = e.order.dst /\ e.time <= t THEN e.order.amount ELSE 0),
     pending_in |-> Cell(out, in, a, t).pending_in
                   + (IF a = e.order.dst /\ out[n].time <= t /\ ~(e.time <= t)
                      THEN e.order.amount ELSE 0)]

(* A source's line adds to what it has spent; a target's to what it has      *)
(* earned or, before that time, is waiting for.                              *)
LEMMA CellDebit ==
  ASSUME NEW out \in Seq(Event), NEW in \in Seq(Event), Len(in) = Len(out),
         NEW e \in Event, NEW a \in Worker, NEW t \in Nat
  PROVE  CellDebited(out, in, e, a, t)
  <1>0. PICK n, more : n = Len(out) + 1 /\ more = Append(out, e)
    OBVIOUS
  <1>1. /\ more \in Seq(Event) /\ n \in DOMAIN more
        /\ n \notin DOMAIN out /\ DOMAIN more = DOMAIN out \cup {n}
        /\ more[n] = e /\ \A i \in DOMAIN out : i \in DOMAIN more /\ more[i] = out[i]
        /\ DOMAIN in = DOMAIN out
    BY <1>0, LogAppend
  <1>2. e.order.amount \in Int
    BY DEF Event, TransferOrder
  <1>3. NewLine(more, out, n, e.order.amount)
    BY <1>1 DEF NewLine
  <1>4. Pending(more, in, a, t) = Pending(out, in, a, t)
    BY <1>1 DEF Pending
  <1>5. Spent(more, a, t) =
          IF a = e.order.src /\ e.time <= t THEN Spent(out, a, t) \cup {n} ELSE Spent(out, a, t)
    BY <1>1 DEF Spent
  <1>6. Spent(out, a, t) \subseteq DOMAIN out /\ Earned(in, a, t) \subseteq DOMAIN in
    BY DEF Spent, Earned
  <1>7. /\ Sum(out, Spent(out, a, t)) \in Int
        /\ Sum(more, Spent(more, a, t)) = Sum(out, Spent(out, a, t))
             + (IF a = e.order.src /\ e.time <= t THEN e.order.amount ELSE 0)
    <2>0. PICK s, d : s = Spent(out, a, t) /\ d = e.order.amount
      OBVIOUS
    <2>1. NewLine(more, out, n, d) /\ s \subseteq DOMAIN out
      BY <1>6, <1>3, <2>0
    <2>2. /\ Sum(out, s) \in Int /\ d \in Int
          /\ Sum(more, s) = Sum(out, s)
          /\ Sum(more, s \cup {n}) = Sum(out, s) + d
      BY <2>1, SumAppend
    <2>3. /\ Sum(out, Spent(out, a, t)) \in Int /\ e.order.amount \in Int
          /\ Sum(more, Spent(out, a, t)) = Sum(out, Spent(out, a, t))
          /\ Sum(more, Spent(out, a, t) \cup {n})
               = Sum(out, Spent(out, a, t)) + e.order.amount
      BY <2>0, <2>2
    <2>4. CASE a = e.order.src /\ e.time <= t
      BY <1>5, <2>3, <2>4
    <2>5. CASE ~(a = e.order.src /\ e.time <= t)
      BY <1>5, <2>3, <2>5
    <2> QED
      BY <2>4, <2>5
  <1>8. Sum(in, Earned(in, a, t)) \in Int /\ Initial[a] \in Int
    BY <1>6, LogTypes, Pa3Assumption, BalanceTFacts
  <1> QED
    BY <1>0, <1>1, <1>2, <1>4, <1>7, <1>8 DEF Cell, CellDebited

LEMMA CellCredit ==
  ASSUME NEW out \in Seq(Event), NEW in \in Seq(Event), NEW n \in Nat,
         Len(out) = n, Len(in) = n - 1,
         NEW e \in Event, NEW a \in Worker, NEW t \in Nat
  PROVE  CellCredited(out, in, n, e, a, t)
  <1>0. PICK more : more = Append(in, e)
    OBVIOUS
  <1>1. /\ more \in Seq(Event) /\ n \in DOMAIN more
        /\ n \notin DOMAIN in /\ DOMAIN more = DOMAIN in \cup {n}
        /\ more[n] = e /\ \A i \in DOMAIN in : i \in DOMAIN more /\ more[i] = in[i]
    BY <1>0, LogAppend
  <1>2. e.order.amount \in Int
    BY DEF Event, TransferOrder
  <1>3. NewLine(more, in, n, e.order.amount)
    BY <1>1 DEF NewLine
  <1>4. Earned(more, a, t) =
          IF a = e.order.dst /\ e.time <= t THEN Earned(in, a, t) \cup {n} ELSE Earned(in, a, t)
    BY <1>1 DEF Earned
  <1>5. Pending(out, more, a, t) =
          IF a = e.order.dst /\ out[n].time <= t /\ ~(e.time <= t)
          THEN Pending(out, in, a, t) \cup {n} ELSE Pending(out, in, a, t)
    BY <1>1 DEF Pending
  <1>6. /\ Spent(out, a, t) \subseteq DOMAIN out /\ Earned(in, a, t) \subseteq DOMAIN in
        /\ Pending(out, in, a, t) \subseteq DOMAIN in
    BY DEF Spent, Earned, Pending
  <1>7. /\ Sum(in, Earned(in, a, t)) \in Int
        /\ Sum(more, Earned(more, a, t)) = Sum(in, Earned(in, a, t))
             + (IF a = e.order.dst /\ e.time <= t THEN e.order.amount ELSE 0)
    <2>0. PICK s, d : s = Earned(in, a, t) /\ d = e.order.amount
      OBVIOUS
    <2>1. NewLine(more, in, n, d) /\ s \subseteq DOMAIN in
      BY <1>6, <1>3, <2>0
    <2>2. /\ Sum(in, s) \in Int /\ d \in Int
          /\ Sum(more, s) = Sum(in, s)
          /\ Sum(more, s \cup {n}) = Sum(in, s) + d
      BY <2>1, SumAppend
    <2>3. /\ Sum(in, Earned(in, a, t)) \in Int /\ e.order.amount \in Int
          /\ Sum(more, Earned(in, a, t)) = Sum(in, Earned(in, a, t))
          /\ Sum(more, Earned(in, a, t) \cup {n})
               = Sum(in, Earned(in, a, t)) + e.order.amount
      BY <2>0, <2>2
    <2>4. CASE a = e.order.dst /\ e.time <= t
      BY <1>4, <2>3, <2>4
    <2>5. CASE ~(a = e.order.dst /\ e.time <= t)
      BY <1>4, <2>3, <2>5
    <2> QED
      BY <2>4, <2>5
  <1>8. /\ Sum(in, Pending(out, in, a, t)) \in Int
        /\ Sum(more, Pending(out, more, a, t)) = Sum(in, Pending(out, in, a, t))
             + (IF a = e.order.dst /\ out[n].time <= t /\ ~(e.time <= t)
                THEN e.order.amount ELSE 0)
    <2>0. PICK s, d : s = Pending(out, in, a, t) /\ d = e.order.amount
      OBVIOUS
    <2>1. NewLine(more, in, n, d) /\ s \subseteq DOMAIN in
      BY <1>6, <1>3, <2>0
    <2>2. /\ Sum(in, s) \in Int /\ d \in Int
          /\ Sum(more, s) = Sum(in, s)
          /\ Sum(more, s \cup {n}) = Sum(in, s) + d
      BY <2>1, SumAppend
    <2>3. /\ Sum(in, Pending(out, in, a, t)) \in Int /\ e.order.amount \in Int
          /\ Sum(more, Pending(out, in, a, t)) = Sum(in, Pending(out, in, a, t))
          /\ Sum(more, Pending(out, in, a, t) \cup {n})
               = Sum(in, Pending(out, in, a, t)) + e.order.amount
      BY <2>0, <2>2
    <2>4. CASE a = e.order.dst /\ out[n].time <= t /\ ~(e.time <= t)
      BY <1>5, <2>3, <2>4
    <2>5. CASE ~(a = e.order.dst /\ out[n].time <= t /\ ~(e.time <= t))
      BY <1>5, <2>3, <2>5
    <2> QED
      BY <2>4, <2>5
  <1>9. Sum(out, Spent(out, a, t)) \in Int /\ Initial[a] \in Int
    BY <1>6, LogTypes, Pa3Assumption, BalanceTFacts
  <1> QED
    BY <1>0, <1>1, <1>2, <1>7, <1>8, <1>9 DEF Cell, CellCredited

(* What a debit and a credit leave in every cell of a history. *)
DebitedBook(h, time, amount) ==
  \A u \in Nat : At(Debit(h, time, amount), u) =
    IF u < time THEN At(h, u)
    ELSE [balance |-> At(h, u).balance - amount, pending_in |-> 0]

LEMMA DebitAt ==
  ASSUME NEW h \in History, NEW time \in Nat, NEW amount \in Int,
         CanDebit(h, time, amount), Settled(h), Len(h) <= time
  PROVE  /\ DebitedBook(h, time, amount)
         /\ Settled(Debit(h, time, amount))
         /\ Debit(h, time, amount)[1] = h[1]
         /\ Len(Debit(h, time, amount)) = time + 1
  BY AtDebit DEF DebitedBook

CreditedBook(h, sent, now, amount) ==
  \A u \in Nat : At(Credit(h, sent, now, amount), u) =
    [balance |-> At(h, u).balance + (IF u >= now THEN amount ELSE 0),
     pending_in |-> At(h, u).pending_in + (IF sent <= u /\ u < now THEN amount ELSE 0)]

LEMMA CreditAt ==
  ASSUME NEW h \in History, NEW sent \in Nat, NEW now \in Nat, NEW amount \in Int,
         CanCredit(h, sent, now, amount), Settled(h), Len(h) <= now
  PROVE  /\ CreditedBook(h, sent, now, amount)
         /\ Settled(Credit(h, sent, now, amount))
         /\ Credit(h, sent, now, amount)[1].balance = h[1].balance
         /\ Len(Credit(h, sent, now, amount)) = now + 1
  BY AtCredit DEF CreditedBook

-----------------------------------------------------------------------------
(* The accounts: each history says what the log says, at every time, and ends *)
(* no later than the clock of its worker.                                     *)

Agrees(book, out, in, a, now) ==
  /\ Len(book) <= now + 1
  /\ Settled(book) /\ book[1].balance = Initial[a]
  /\ \A t \in Nat : At(book, t) = Cell(out, in, a, t) /\ At(book, t).pending_in >= 0

AccountInv == \A a \in Worker : Agrees(ledger[a], outgoing, incoming, a, clock[a])

LEMMA AgreesLater ==
  ASSUME NEW book \in History, NEW out, NEW in, NEW more, NEW from, NEW a,
         NEW now \in Nat, NEW later \in Nat,
         now <= later, Agrees(book, out, in, a, now),
         \A t \in Nat : Cell(more, from, a, t) = Cell(out, in, a, t)
  PROVE  Agrees(book, more, from, a, later)
  <1>1. Len(book) \in Nat
    BY AtType
  <1> QED
    BY <1>1 DEF Agrees

LEMMA AgreesExtend ==
  ASSUME NEW book \in History, NEW out, NEW in, NEW a, NEW now \in Nat, NEW later \in Nat,
         now <= later, Agrees(book, out, in, a, now),
         NEW time \in Nat, FitsHistory(time), time <= later
  PROVE  Agrees(Extend(book, time), out, in, a, later)
  <1>1. Len(book) \in Nat /\ Settled(book) /\ Len(book) <= now + 1
    BY AtType DEF Agrees
  <1>2. /\ Settled(Extend(book, time)) /\ Extend(book, time)[1] = book[1]
        /\ \A t \in Nat : At(Extend(book, time), t) = At(book, t)
        /\ Len(Extend(book, time)) = IF time >= Len(book) THEN time + 1 ELSE Len(book)
    BY <1>1, AtExtend
  <1>3. Len(Extend(book, time)) <= later + 1
    BY <1>1, <1>2
  <1> QED
    BY <1>2, <1>3 DEF Agrees

LEMMA AgreesDebit ==
  ASSUME NEW book \in History, NEW out \in Seq(Event), NEW in \in Seq(Event), Len(in) = Len(out),
         NEW e \in Event, NEW a \in Worker, NEW now \in Nat, Agrees(book, out, in, a, now),
         a = e.order.src, NEW sent \in Nat, sent = e.time, now < sent,
         NEW amount \in Nat, amount = e.order.amount, CanDebit(book, sent, amount)
  PROVE  Agrees(Debit(book, sent, amount), Append(out, e), in, a, sent)
  <1>1. Len(book) \in Nat /\ Settled(book) /\ Len(book) <= sent
    BY AtType DEF Agrees
  <1>2. PICK b : b = Debit(book, sent, amount)
    OBVIOUS
  <1>3. /\ Settled(b) /\ b[1] = book[1] /\ Len(b) = sent + 1
        /\ \A t \in Nat : At(b, t) = IF t < sent THEN At(book, t)
                          ELSE [balance |-> At(book, t).balance - amount, pending_in |-> 0]
    <2>1. amount \in Int
      OBVIOUS
    <2>2. /\ DebitedBook(book, sent, amount)
          /\ Settled(Debit(book, sent, amount)) /\ Debit(book, sent, amount)[1] = book[1]
          /\ Len(Debit(book, sent, amount)) = sent + 1
      BY <1>1, <2>1, DebitAt
    <2> QED
      BY <1>2, <2>2 DEF DebitedBook
  <1>4. ASSUME NEW t \in Nat
        PROVE  At(b, t) = Cell(Append(out, e), in, a, t) /\ At(b, t).pending_in >= 0
    <2>1. At(book, t) = Cell(out, in, a, t) /\ At(book, t).pending_in >= 0
      BY DEF Agrees
    <2>2. PICK s : s = At(book, t)
      OBVIOUS
    <2>3. /\ s \in BalanceState /\ s.balance \in Int /\ s.pending_in \in Int
          /\ t >= sent => s.pending_in = 0
      BY <1>1, <2>2, AtType DEF Settled
    <2>4. Cell(Append(out, e), in, a, t) =
            [balance |-> s.balance - (IF sent <= t THEN amount ELSE 0),
             pending_in |-> s.pending_in]
      <3>1. CellDebited(out, in, e, a, t)
        BY CellDebit
      <3> QED
        BY <2>1, <2>2, <3>1 DEF CellDebited
    <2>5. CASE t < sent
      <3>1. At(b, t) = s
        BY <1>3, <2>2, <2>5
      <3>2. s.balance - 0 = s.balance /\ ~(sent <= t)
        BY <2>3, <2>5
      <3>3. s = [balance |-> s.balance, pending_in |-> s.pending_in]
        BY <2>3 DEF BalanceState
      <3> QED
        BY <2>1, <2>2, <2>4, <3>1, <3>2, <3>3
    <2>6. CASE ~(t < sent)
      <3>1. At(b, t) = [balance |-> s.balance - amount, pending_in |-> 0]
        BY <1>3, <2>2, <2>6
      <3>2. sent <= t /\ t >= sent
        BY <2>6
      <3> QED
        BY <2>3, <2>4, <3>1, <3>2
    <2> QED
      BY <2>5, <2>6
  <1>5. b[1].balance = Initial[a] /\ Len(b) <= sent + 1
    BY <1>3 DEF Agrees
  <1> QED
    BY <1>2, <1>3, <1>4, <1>5 DEF Agrees

LEMMA AgreesCredit ==
  ASSUME NEW book \in History, NEW out \in Seq(Event), NEW in \in Seq(Event),
         NEW n \in Nat, Len(out) = n, Len(in) = n - 1,
         NEW e \in Event, NEW a \in Worker, NEW now \in Nat, Agrees(book, out, in, a, now),
         a = e.order.dst, NEW received \in Nat, e.time = received, now < received,
         NEW sent \in Nat, out[n].time = sent,
         NEW amount \in Nat, e.order.amount = amount, CanCredit(book, sent, received, amount)
  PROVE  Agrees(Credit(book, sent, received, amount), out, Append(in, e), a, received)
  <1>1. Len(book) \in Nat /\ Settled(book) /\ Len(book) <= received
    BY AtType DEF Agrees
  <1>2. PICK b : b = Credit(book, sent, received, amount)
    OBVIOUS
  <1>3. /\ Settled(b) /\ b[1].balance = book[1].balance /\ Len(b) = received + 1
        /\ \A t \in Nat : At(b, t) =
             [balance |-> At(book, t).balance + (IF t >= received THEN amount ELSE 0),
              pending_in |-> At(book, t).pending_in
                               + (IF sent <= t /\ t < received THEN amount ELSE 0)]
    <2>1. amount \in Int
      OBVIOUS
    <2>2. /\ CreditedBook(book, sent, received, amount)
          /\ Settled(Credit(book, sent, received, amount))
          /\ Credit(book, sent, received, amount)[1].balance = book[1].balance
          /\ Len(Credit(book, sent, received, amount)) = received + 1
      BY <1>1, <2>1, CreditAt
    <2> QED
      BY <1>2, <2>2 DEF CreditedBook
  <1>4. ASSUME NEW t \in Nat
        PROVE  At(b, t) = Cell(out, Append(in, e), a, t) /\ At(b, t).pending_in >= 0
    <2>1. At(book, t) = Cell(out, in, a, t) /\ At(book, t).pending_in >= 0
      BY DEF Agrees
    <2>2. PICK s : s = At(book, t)
      OBVIOUS
    <2>3. s.balance \in Int /\ s.pending_in \in Int
      BY <2>2, AtType
    <2>4. Cell(out, Append(in, e), a, t) =
            [balance |-> s.balance + (IF received <= t THEN amount ELSE 0),
             pending_in |-> s.pending_in
                              + (IF sent <= t /\ ~(received <= t) THEN amount ELSE 0)]
      <3>1. CellCredited(out, in, n, e, a, t)
        BY CellCredit
      <3> QED
        BY <2>1, <2>2, <3>1 DEF CellCredited
    <2>5. At(b, t) = [balance |-> s.balance + (IF t >= received THEN amount ELSE 0),
                      pending_in |-> s.pending_in
                                       + (IF sent <= t /\ t < received THEN amount ELSE 0)]
      BY <1>3, <2>2
    <2>6. At(b, t).pending_in >= 0
      BY <2>1, <2>2, <2>3, <2>5
    <2>7. (t >= received <=> received <= t) /\ (t < received <=> ~(received <= t))
      OBVIOUS
    <2> QED
      BY <2>4, <2>5, <2>6, <2>7
  <1>5. b[1].balance = Initial[a] /\ Len(b) <= received + 1
    <2>1. book[1].balance = Initial[a] /\ received + 1 <= received + 1
      BY DEF Agrees
    <2> QED
      BY <1>3, <2>1
  <1> QED
    BY <1>2, <1>3, <1>4, <1>5 DEF Agrees

-----------------------------------------------------------------------------
(* Clocks never go back, and a history grows by a debit, a credit, or time.  *)

Later == \A p \in Node : clock[p] <= clock'[p]

LEMMA TickLater ==
  ASSUME TypeOK, NEW n \in Node, NEW q \in Node, NEW any, Takes(n, q, any), Ticks(n, q)
  PROVE  Later
  <1>1. /\ TimeOfReceipt(n, q) \in Nat /\ clock[n] <= TimeOfReceipt(n, q)
        /\ clock' = [clock EXCEPT ![n] = TimeOfReceipt(n, q)]
    BY TakeTimes DEF Ticks
  <1> QED
    BY <1>1, ClockGrows DEF Later

LEMMA SendLater ==
  ASSUME TypeOK, NEW n \in Node, NEW type, NEW payload, NEW to,
         Sends(n, clock[n], type, payload, to)
  PROVE  Later
  <1>1. clock[n] \in Nat
    BY ClockFacts DEF TypeOK
  <1>2. clock[n] <= clock[n]
    BY <1>1
  <1> QED
    BY <1>1, <1>2, SendGrows DEF Later

LEMMA ReplyLater ==
  ASSUME TypeOK, NEW n \in Node, NEW q \in Node, NEW any, Takes(n, q, any),
         NEW type, NEW payload, NEW to, Sends(n, TimeOfReceipt(n, q), type, payload, to)
  PROVE  Later
  <1>1. TimeOfReceipt(n, q) \in Nat /\ clock[n] <= TimeOfReceipt(n, q)
    BY TakeTimes
  <1> QED
    BY <1>1, SendGrows DEF Later

LEMMA ClockStep == TypeOK /\ [Next]_vars => Later
<1> SUFFICES ASSUME TypeOK, [Next]_vars PROVE Later
  OBVIOUS
<1> USE NodeFacts
<1>0. UNCHANGED clock => Later
  <2>1. \A p \in Node : clock[p] \in Nat
    BY ClockFacts DEF TypeOK
  <2> QED
    BY <2>1 DEF Later
<1>1. ASSUME NEW n \in Node, NodeNext(n) PROVE Later
  <2>1. CASE AnnounceStarted(n) \/ ReportHistory(n)
    BY <2>1, SendLater DEF AnnounceStarted, ReportHistory
  <2>2. CASE PassStarted(n) \/ ExitChild(n) \/ PeersClosed(n) \/ Refuse(n)
    BY <1>0, <2>2 DEF PassStarted, ExitChild, PeersClosed, Refuse, Fatal
  <2>3. ASSUME NEW q \in Node \ {n}, WriteFrame(n, q) \/ BrokenPipe(n, q) \/ RejectFrame(n, q)
        PROVE  Later
    BY <1>0, <2>3 DEF WriteFrame, BrokenPipe, RejectFrame, Fatal
  <2>4. ASSUME NEW q \in Node \ {n}, AwaitStarted(n, q) \/ ReceiveDone(n, q) PROVE Later
    BY <2>4, TickLater DEF AwaitStarted, ReceiveDone
  <2>5. ASSUME NEW q \in Node \ {n}, ReceiveOrder(n, q) PROVE Later
    BY <2>5, ReplyLater DEF ReceiveOrder
  <2>6. ASSUME NEW q \in Node \ {n}, ReceiveTransfer(n, q) PROVE Later
    BY <2>6, ReplyLater DEF ReceiveTransfer
  <2>7. ASSUME NEW q \in Node \ {n}, ReceiveStop(n, q) PROVE Later
    BY <2>7, ReplyLater DEF ReceiveStop
  <2> QED
    BY <1>1, <2>1, <2>2, <2>3, <2>4, <2>5, <2>6, <2>7 DEF NodeNext
<1>2. CASE ParentNext
  <2>1. CASE RequestTransfer
    BY <2>1, SendLater DEF RequestTransfer
  <2>2. CASE BroadcastStop
    BY <2>2, SendLater DEF BroadcastStop
  <2>3. CASE AllDone \/ FinishHistory
    BY <1>0, <2>3 DEF AllDone, FinishHistory
  <2>4. ASSUME NEW q \in Worker, AwaitAck(q) \/ AwaitDone(q) \/ AwaitHistory(q) PROVE Later
    BY <2>4, TickLater DEF AwaitAck, AwaitDone, AwaitHistory
  <2> QED
    BY <1>2, <2>1, <2>2, <2>3, <2>4 DEF ParentNext
<1>3. CASE Supervision \/ Signals \/ UNCHANGED vars
  BY <1>0, <1>3 DEF Supervision, Signals, vars
<1> QED
  BY <1>1, <1>2, <1>3 DEF Next

(* p's history is brought up to the time t. *)
Extends(p, t) ==
  /\ t \in Nat /\ FitsHistory(t) /\ t <= clock'[p]
  /\ ledger' = [ledger EXCEPT ![p] = Extend(@, t)]

LEMMA StopExtends ==
  ASSUME TypeOK, NEW p \in Node, NEW q \in Node \ {p}, ReceiveStop(p, q),
         NEW now, now = TimeOfReceipt(p, q)
  PROVE  p \in Worker /\ Extends(p, now) /\ UNCHANGED <<history, events>>
  <1>1. Takes(p, q, "STOP") /\ Sends(p, now, "DONE", Nothing, Node \ {p})
    BY DEF ReceiveStop
  <1>2. pc[p] = "serving" /\ p \in Worker
    BY <1>1, TakesIn
  <1>3. now \in Nat /\ now \in Timestamp
    BY <1>1, TakeTimes, TypeTakes
  <1>4. FitsHistory(now)
    <2>1. Received(p, q).type = "STOP" /\ AcceptsByWorker(p, q, Received(p, q), now)
      BY <1>1, <1>2, TakesWhen, TypeTakes
    <2> QED
      BY <2>1 DEF AcceptsByWorker
  <1>5. clock'[p] = now + 1
    BY <1>1 DEF Sends, ClockSend, TypeOK
  <1> QED
    BY <1>2, <1>3, <1>4, <1>5 DEF ReceiveStop, Extends

LEMMA ReportExtends ==
  ASSUME TypeOK, NEW p \in Node, ReportHistory(p)
  PROVE  p \in Worker /\ Extends(p, clock[p]) /\ UNCHANGED <<history, events>>
  <1>1. pc[p] = "serving" /\ p \in Worker
    BY NodeFacts DEF ReportHistory, Served, TypeOK
  <1>2. clock[p] \in Nat
    BY ClockFacts DEF TypeOK
  <1>3. clock'[p] = clock[p] + 1
    BY DEF ReportHistory, Sends, ClockSend, TypeOK
  <1> QED
    BY <1>1, <1>2, <1>3 DEF ReportHistory, Extends

LEMMA LedgerMoves ==
  TypeOK /\ [Next]_vars =>
    \/ UNCHANGED <<ledger, events>>
    \/ \E p \in Node : \E q \in Node \ {p} : ReceiveOrder(p, q) \/ ReceiveTransfer(p, q)
    \/ \E p \in Worker : \E t : Extends(p, t) /\ UNCHANGED events
<1> SUFFICES ASSUME TypeOK, [Next]_vars,
                    ~\E p \in Node : \E q \in Node \ {p} :
                        ReceiveOrder(p, q) \/ ReceiveTransfer(p, q),
                    ~\E p \in Worker : \E t : Extends(p, t) /\ UNCHANGED events
             PROVE  UNCHANGED <<ledger, events>>
  OBVIOUS
<1>1. ASSUME NEW p \in Node, NodeNext(p) PROVE UNCHANGED <<ledger, events>>
  <2>1. ~ReportHistory(p)
    BY ReportExtends
  <2>2. ~\E q \in Node \ {p} : ReceiveStop(p, q)
    BY StopExtends
  <2> QED
    BY <1>1, <2>1, <2>2 DEF NodeNext, AnnounceStarted, PassStarted, ExitChild, WriteFrame,
              BrokenPipe, AwaitStarted, RejectFrame, ReceiveDone, PeersClosed,
              Refuse, Fatal, accounts, events
<1>2. CASE ParentNext
  BY <1>2 DEF ParentNext, RequestTransfer, BroadcastStop, AllDone, FinishHistory,
              AwaitAck, AwaitDone, AwaitHistory, accounts
<1>3. CASE Supervision \/ Signals \/ UNCHANGED vars
  BY <1>3 DEF Supervision, Signals, accounts, vars, events
<1> QED
  BY <1>1, <1>2, <1>3 DEF Next

LEMMA AcceptsDebit ==
  ASSUME BankInv, NEW p \in Node, NEW q \in Node \ {p}, ReceiveOrder(p, q),
         NEW now, now = TimeOfReceipt(p, q)
  PROVE  CanDebit(ledger[p], now + 1, Orders[next].amount)
  <1>0. PICK m : m = Received(p, q)
    OBVIOUS
  <1>1. TypeOK /\ Takes(p, q, "TRANSFER") /\ IsDebit(p, q, m.payload[1])
    BY <1>0 DEF ReceiveOrder, BankInv, TypeInv
  <1>2. /\ m.payload[1] = Orders[next] /\ AcceptsTransfer(p, q, m, now)
        /\ ValidOrder(Orders[next])
    BY <1>0, <1>1, TransferTaken
  <1>3. ~IsCredit(p, q, Orders[next])
    BY <1>1, <1>2 DEF IsDebit, IsCredit, ValidOrder
  <1> QED
    BY <1>2, <1>3 DEF AcceptsTransfer, ClockSend

LEMMA AccountStep ==
  BankInv /\ BankInv' /\ AccountInv /\ [Next]_vars => AccountInv'
<1> SUFFICES ASSUME BankInv, BankInv', AccountInv, [Next]_vars,
                    NEW a \in Worker
             PROVE  Agrees(ledger'[a], outgoing', incoming', a, clock'[a])
  BY DEF AccountInv
<1> USE NodeFacts
<1>0. /\ TypeOK /\ ledger[a] \in History
      /\ clock \in [Node -> Timestamp] /\ clock' \in [Node -> Timestamp]
      /\ ledger \in [Worker -> History] /\ ledger' \in [Worker -> History]
      /\ outgoing \in Seq(Event) /\ incoming \in Seq(Event)
      /\ outgoing' \in Seq(Event) /\ incoming' \in Seq(Event)
      /\ clock[a] \in Nat /\ clock'[a] \in Nat /\ clock[a] <= clock'[a]
      /\ Agrees(ledger[a], outgoing, incoming, a, clock[a])
  <2>1. TypeOK /\ TypeOK' /\ Later
    BY ClockStep DEF BankInv, TypeInv
  <2>2. clock[a] \in Timestamp /\ clock'[a] \in Timestamp /\ clock[a] <= clock'[a]
    BY <2>1 DEF TypeOK, Later
  <2> QED
    BY <2>1, <2>2, ClockFacts DEF TypeOK, AccountInv
<1>1. ASSUME NEW p \in Node, NEW q \in Node \ {p}, ReceiveOrder(p, q)
      PROVE  Agrees(ledger'[a], outgoing', incoming', a, clock'[a])
  <2>1. PICK now : now = TimeOfReceipt(p, q)
    OBVIOUS
  <2>2. PICK e, amount, sent :
          e = [order |-> Orders[next], time |-> now + 1] /\ amount = Orders[next].amount
          /\ sent = now + 1
    OBVIOUS
  <2>3. /\ Orders[next] \in TransferOrder /\ ValidOrder(Orders[next])
        /\ p = Orders[next].src /\ p \in Worker
        /\ now \in Nat /\ clock[p] < now /\ clock' = [clock EXCEPT ![p] = sent]
        /\ Len(outgoing) = Len(incoming)
        /\ outgoing' = Append(outgoing, e) /\ incoming' = incoming
        /\ ledger' = [ledger EXCEPT ![p] = Debit(@, sent, amount)]
    BY <1>1, <2>1, <2>2, DebitFacts
  <2>4. CanDebit(ledger[p], sent, amount)
    BY <1>1, <2>1, <2>2, AcceptsDebit
  <2>5. clock'[p] = sent /\ sent \in Nat
    <3>1. clock'[p] = sent
      BY <1>0, <2>3
    <3>2. sent \in Nat
      BY <2>2, <2>3
    <3> QED
      BY <3>1, <3>2
  <2>6. e \in Event /\ e.order = Orders[next] /\ e.time = sent /\ e.order.amount = amount
    <3>1. sent \in Timestamp
      BY <1>0, <2>3, <2>5
    <3> QED
      BY <2>2, <2>3, <3>1 DEF Event
  <2>7. amount \in Nat
    BY <2>2, <2>3 DEF ValidOrder, TransferOrder
  <2>8. CASE a = p
    <3>1. /\ ledger'[a] = Debit(ledger[a], sent, amount) /\ a = e.order.src
          /\ clock[a] < sent /\ clock'[a] = sent /\ CanDebit(ledger[a], sent, amount)
      <4>1. ledger'[a] = Debit(ledger[a], sent, amount) /\ a = e.order.src
        BY <1>0, <2>3, <2>6, <2>8
      <4>2. clock[a] < sent
        BY <1>0, <2>2, <2>3, <2>8
      <4> QED
        BY <2>4, <2>5, <2>8, <4>1, <4>2
    <3>2. Agrees(Debit(ledger[a], sent, amount), Append(outgoing, e), incoming, a, sent)
      BY <1>0, <2>3, <2>5, <2>6, <2>7, <3>1, AgreesDebit
    <3> QED
      BY <2>3, <3>1, <3>2
  <2>9. CASE a # p
    <3>1. ledger'[a] = ledger[a] /\ a # e.order.src
      BY <1>0, <2>3, <2>6, <2>9
    <3>2. \A t \in Nat : Cell(outgoing', incoming', a, t) = Cell(outgoing, incoming, a, t)
      <4> SUFFICES ASSUME NEW t \in Nat
                   PROVE  Cell(outgoing', incoming', a, t) = Cell(outgoing, incoming, a, t)
        OBVIOUS
      <4>1. At(ledger[a], t) = Cell(outgoing, incoming, a, t)
        BY <1>0 DEF Agrees
      <4>2. PICK s : s = At(ledger[a], t)
        OBVIOUS
      <4>3. s \in BalanceState /\ s.balance \in Int
        BY <1>0, <4>2, AtType
      <4>4. Cell(outgoing', incoming', a, t) = [balance |-> s.balance - 0, pending_in |-> s.pending_in]
        <5>1. Cell(Append(outgoing, e), incoming, a, t) =
                [balance |-> Cell(outgoing, incoming, a, t).balance
                               - (IF a = e.order.src /\ e.time <= t THEN e.order.amount ELSE 0),
                 pending_in |-> Cell(outgoing, incoming, a, t).pending_in]
          <6> PICK out, in : out = outgoing /\ in = incoming
            OBVIOUS
          <6>1. out \in Seq(Event) /\ in \in Seq(Event) /\ Len(in) = Len(out)
            BY <1>0, <2>3
          <6>2. CellDebited(out, in, e, a, t)
            BY <2>6, <6>1, CellDebit
          <6> QED
            BY <6>2 DEF CellDebited
        <5>2. (IF a = e.order.src /\ e.time <= t THEN e.order.amount ELSE 0) = 0
          BY <3>1
        <5>3. Cell(outgoing', incoming', a, t) = Cell(Append(outgoing, e), incoming, a, t)
          BY <2>3
        <5> QED
          BY <4>1, <4>2, <5>1, <5>2, <5>3
      <4> QED
        BY <4>1, <4>2, <4>3, <4>4 DEF BalanceState
    <3> QED
      BY <1>0, <3>1, <3>2, AgreesLater
  <2> QED
    BY <2>8, <2>9
<1>2. ASSUME NEW p \in Node, NEW q \in Node \ {p}, ReceiveTransfer(p, q)
      PROVE  Agrees(ledger'[a], outgoing', incoming', a, clock'[a])
  <2>1. PICK now : now = TimeOfReceipt(p, q)
    OBVIOUS
  <2>2. PICK e, amount, sent :
          e = [order |-> Orders[next], time |-> now] /\ amount = Orders[next].amount
          /\ sent = outgoing[next].time
    OBVIOUS
  <2>3. /\ Orders[next] \in TransferOrder /\ ValidOrder(Orders[next])
        /\ p = Orders[next].dst /\ p \in Worker
        /\ now \in Nat /\ clock[p] < now /\ clock' = [clock EXCEPT ![p] = now + 1]
        /\ Len(outgoing) = next /\ Len(incoming) = next - 1 /\ next \in 1..Len(Orders)
        /\ incoming' = Append(incoming, e) /\ outgoing' = outgoing
        /\ ledger' = [ledger EXCEPT ![p] = Credit(@, sent, now, amount)]
        /\ CanCredit(ledger[p], sent, now, amount)
    BY <1>2, <2>1, <2>2, CreditFacts
  <2>4. next \in Nat /\ now \in Timestamp
    <3>1. Len(Orders) \in Nat
      BY Pa3Assumption
    <3>2. Takes(p, q, "TRANSFER")
      BY <1>2 DEF ReceiveTransfer
    <3> QED
      <4>1. now \in Timestamp
        BY <1>0, <2>1, <3>2, TypeTakes
      <4>2. next \in Nat
        BY <2>3, <3>1
      <4> QED
        BY <4>1, <4>2
  <2>5. sent \in Nat
    <3>1. outgoing[next] \in Event
      BY <1>0, <2>3, <2>4, ElementOfSeq
    <3> QED
      BY <2>2, <3>1, ClockFacts DEF Event
  <2>6. e \in Event /\ e.order = Orders[next] /\ e.time = now /\ e.order.amount = amount
    BY <2>2, <2>3, <2>4 DEF Event
  <2>7. amount \in Nat
    BY <2>2, <2>3 DEF ValidOrder, TransferOrder
  <2>8. CASE a = p
    <3>1. /\ ledger'[a] = Credit(ledger[a], sent, now, amount) /\ a = e.order.dst
          /\ clock[a] < now /\ clock'[a] = now + 1 /\ CanCredit(ledger[a], sent, now, amount)
      BY <1>0, <2>2, <2>3, <2>6, <2>8
    <3>2. Agrees(Credit(ledger[a], sent, now, amount), outgoing, Append(incoming, e), a, now)
      BY <1>0, <2>2, <2>3, <2>4, <2>5, <2>6, <2>7, <3>1, AgreesCredit
    <3>3. Credit(ledger[a], sent, now, amount) \in History
      BY <1>0, <3>1
    <3>4. now <= now + 1 /\ now + 1 \in Nat
      BY <2>3
    <3>5. Agrees(Credit(ledger[a], sent, now, amount), outgoing, Append(incoming, e), a, now + 1)
      BY <2>3, <3>2, <3>3, <3>4, AgreesLater
    <3> QED
      BY <2>3, <3>1, <3>5
  <2>9. CASE a # p
    <3>1. ledger'[a] = ledger[a] /\ a # e.order.dst
      BY <1>0, <2>3, <2>6, <2>9
    <3>2. \A t \in Nat : Cell(outgoing', incoming', a, t) = Cell(outgoing, incoming, a, t)
      <4> SUFFICES ASSUME NEW t \in Nat
                   PROVE  Cell(outgoing', incoming', a, t) = Cell(outgoing, incoming, a, t)
        OBVIOUS
      <4>1. At(ledger[a], t) = Cell(outgoing, incoming, a, t)
        BY <1>0 DEF Agrees
      <4>2. PICK s : s = At(ledger[a], t)
        OBVIOUS
      <4>3. s \in BalanceState /\ s.balance \in Int /\ s.pending_in \in Int
        BY <1>0, <4>2, AtType
      <4>4. Cell(outgoing', incoming', a, t)
              = [balance |-> s.balance + 0, pending_in |-> s.pending_in + 0]
        <5> PICK out, in, n : out = outgoing /\ in = incoming /\ n = next
          OBVIOUS
        <5>1. /\ out \in Seq(Event) /\ in \in Seq(Event) /\ n \in Nat
              /\ Len(out) = n /\ Len(in) = n - 1
          BY <1>0, <2>3, <2>4
        <5>2. CellCredited(out, in, n, e, a, t)
          BY <2>6, <5>1, CellCredit
        <5>3. a # e.order.dst
          BY <3>1
        <5>4. Cell(out, Append(in, e), a, t) =
                [balance |-> Cell(out, in, a, t).balance + 0,
                 pending_in |-> Cell(out, in, a, t).pending_in + 0]
          BY <5>2, <5>3 DEF CellCredited
        <5>5. Cell(out, in, a, t) = s
          BY <4>1, <4>2
        <5>6. Cell(outgoing', incoming', a, t) = Cell(out, Append(in, e), a, t)
          BY <2>3
        <5> QED
          BY <5>4, <5>5, <5>6
      <4> QED
        BY <4>1, <4>2, <4>3, <4>4 DEF BalanceState
    <3> QED
      BY <1>0, <3>1, <3>2, AgreesLater
  <2> QED
    BY <2>8, <2>9
<1>3. ASSUME NEW p \in Worker, NEW t, Extends(p, t), UNCHANGED events
      PROVE  Agrees(ledger'[a], outgoing', incoming', a, clock'[a])
  <2>1. CASE a = p
    <3>1. ledger'[a] = Extend(ledger[a], t) /\ t \in Nat /\ FitsHistory(t) /\ t <= clock'[a]
      BY <1>0, <1>3, <2>1 DEF Extends
    <3> QED
      BY <1>0, <1>3, <3>1, AgreesExtend DEF events
  <2>2. CASE a # p
    <3>1. ledger'[a] = ledger[a]
      BY <1>0, <1>3, <2>2 DEF Extends
    <3> QED
      BY <1>0, <1>3, <3>1, AgreesLater DEF events
  <2> QED
    BY <2>1, <2>2
<1>4. CASE UNCHANGED <<ledger, events>>
  BY <1>0, <1>4, AgreesLater DEF events
<1> QED
  BY <1>0, <1>1, <1>2, <1>3, <1>4, LedgerMoves

-----------------------------------------------------------------------------
(* The total: what one account loses or gains goes to or comes from what is  *)
(* under way.                                                                *)

Worth(book, t) == At(book, t).balance + At(book, t).pending_in
Wealth(books, t) == SumFunction([a \in Worker |-> Worth(books[a], t)])
Outstanding(out, in, t) == {i \in DOMAIN out \ DOMAIN in : out[i].time <= t}

Balanced(books, out, in) ==
  \A t \in Nat : Wealth(books, t) + Sum(out, Outstanding(out, in, t)) = SumFunction(Initial)

TotalInv == Balanced(ledger, outgoing, incoming)

LEMMA WorkersFinite == IsFiniteSet(Worker)
  BY NodeFacts, FS_Interval DEF Worker

LEMMA WealthType ==
  ASSUME NEW books \in [Worker -> History], NEW t \in Nat
  PROVE  Wealth(books, t) \in Int
  <1>0. PICK f : f = [a \in Worker |-> Worth(books[a], t)]
    OBVIOUS
  <1>1. \A a \in Worker : Worth(books[a], t) \in Int
    BY AtType DEF Worth
  <1>2. DOMAIN f = Worker /\ \A a \in Worker : f[a] \in Int
    BY <1>0, <1>1
  <1>3. SumFunction(f) \in Int
    BY <1>2, WorkersFinite, SumType DEF SumFunction
  <1> QED
    BY <1>0, <1>3 DEF Wealth

OneMoves(books, more, t, p, d) ==
  \A a \in Worker : Worth(more[a], t) = IF a = p THEN Worth(books[a], t) + d
                                        ELSE Worth(books[a], t)

LEMMA WealthChange ==
  ASSUME NEW books \in [Worker -> History], NEW more \in [Worker -> History], NEW t \in Nat,
         NEW p \in Worker, NEW d \in Int, OneMoves(books, more, t, p, d)
  PROVE  Wealth(books, t) \in Int /\ Wealth(more, t) = Wealth(books, t) + d
  <1>0. PICK f, g : /\ f = [a \in Worker |-> Worth(books[a], t)]
                    /\ g = [a \in Worker |-> Worth(more[a], t)]
    OBVIOUS
  <1>1. \A a \in Worker : Worth(books[a], t) \in Int
    BY AtType DEF Worth
  <1>2. /\ DOMAIN f = Worker /\ DOMAIN g = Worker /\ \A a \in Worker : f[a] \in Int
        /\ \A a \in Worker : g[a] = IF a = p THEN f[a] + d ELSE f[a]
    BY <1>0, <1>1 DEF OneMoves
  <1>3. SumFunction(f) \in Int /\ SumFunction(g) = SumFunction(f) + d
    BY <1>2, WorkersFinite, SumOneChanged
  <1> QED
    BY <1>0, <1>3 DEF Wealth

LEMMA WealthSame ==
  ASSUME NEW books, NEW more, NEW t, \A a \in Worker : Worth(more[a], t) = Worth(books[a], t)
  PROVE  Wealth(more, t) = Wealth(books, t)
  <1>1. [a \in Worker |-> Worth(more[a], t)] = [a \in Worker |-> Worth(books[a], t)]
    OBVIOUS
  <1> QED
    BY <1>1 DEF Wealth

(* The line that is under way, alone. *)
LEMMA OneOutstanding ==
  ASSUME NEW out \in Seq(Event), NEW n \in DOMAIN out, NEW amount, out[n].order.amount = amount
  PROVE  amount \in Int /\ Sum(out, {n}) = amount
  <1>1. out[n].order.amount \in Int
    BY LogTypes
  <1>2. PICK none : none = {}
    OBVIOUS
  <1>3. IsFiniteSet(none) /\ n \notin none /\ \A i \in none \cup {n} : out[i].order.amount \in Int
    BY <1>1, <1>2, FS_EmptySet
  <1>4. Sum(out, none \cup {n}) = Sum(out, none) + out[n].order.amount
    BY <1>3, PicksMore
  <1>5. Sum(out, none) = 0 /\ none \cup {n} = {n}
    BY <1>2, PicksNone
  <1>6. Sum(out, {n}) = out[n].order.amount
    <2>1. PICK d : d = out[n].order.amount
      OBVIOUS
    <2>2. Sum(out, {n}) = 0 + d /\ d \in Int
      BY <1>1, <1>4, <1>5, <2>1
    <2> QED
      BY <2>1, <2>2
  <1> QED
    BY <1>1, <1>6

(* From a time on one account is worth d more. *)
MovesFrom(books, more, p, time, d) ==
  \A a \in Worker, t \in Nat :
    Worth(more[a], t) = IF a = p /\ time <= t THEN Worth(books[a], t) + d
                        ELSE Worth(books[a], t)

LEMMA BalancedDebit ==
  ASSUME NEW books \in [Worker -> History], NEW more \in [Worker -> History],
         NEW out \in Seq(Event), NEW in \in Seq(Event), Len(in) = Len(out),
         NEW e \in Event, NEW sent \in Nat, e.time = sent,
         NEW amount \in Int, e.order.amount = amount,
         Append(out, e) \in Seq(Event),
         NEW p \in Worker, Balanced(books, out, in), NEW d \in Int, d + amount = 0,
         MovesFrom(books, more, p, sent, d)
  PROVE  Balanced(more, Append(out, e), in)
  <1>0. PICK n, log : n = Len(out) + 1 /\ log = Append(out, e)
    OBVIOUS
  <1>1. log \in Seq(Event) /\ n \in DOMAIN log /\ log[n] = e
        /\ DOMAIN in = DOMAIN out /\ DOMAIN log \ DOMAIN in = {n}
    BY <1>0, LogAppend
  <1>2. Sum(log, {n}) = amount
    BY <1>1, OneOutstanding
  <1>3. ASSUME NEW t \in Nat
        PROVE  Wealth(more, t) + Sum(log, Outstanding(log, in, t)) = SumFunction(Initial)
    <2>1. Outstanding(out, in, t) = {}
      BY <1>1 DEF Outstanding
    <2>2. Wealth(books, t) + 0 = SumFunction(Initial)
      BY <2>1, PicksNone DEF Balanced
    <2>3. CASE sent <= t
      <3>1. Outstanding(log, in, t) = {n}
        BY <1>1, <2>3 DEF Outstanding
      <3>2. \A a \in Worker : Worth(books[a], t) \in Int
        BY AtType DEF Worth
      <3>3. OneMoves(books, more, t, p, d)
        BY <2>3, <3>2 DEF OneMoves, MovesFrom
      <3>4. Wealth(books, t) \in Int /\ Wealth(more, t) = Wealth(books, t) + d
        BY <3>3, WealthChange
      <3> QED
        BY <1>2, <2>2, <3>1, <3>4
    <2>4. CASE ~(sent <= t)
      <3>1. Outstanding(log, in, t) = {}
        BY <1>1, <2>4 DEF Outstanding
      <3>2. \A a \in Worker : Worth(more[a], t) = Worth(books[a], t)
        BY <2>4 DEF MovesFrom
      <3>3. Wealth(more, t) = Wealth(books, t)
        BY <3>2, WealthSame
      <3> QED
        BY <2>2, <3>1, <3>3, PicksNone
    <2> QED
      BY <2>3, <2>4
  <1> QED
    BY <1>0, <1>3 DEF Balanced

LEMMA BalancedCredit ==
  ASSUME NEW books \in [Worker -> History], NEW more \in [Worker -> History],
         NEW out \in Seq(Event), NEW in \in Seq(Event),
         NEW n \in Nat \ {0}, Len(out) = n, Len(in) = n - 1,
         NEW e \in Event, NEW sent \in Nat, out[n].time = sent,
         NEW amount \in Int, out[n].order.amount = amount,
         NEW p \in Worker, Balanced(books, out, in), MovesFrom(books, more, p, sent, amount)
  PROVE  Balanced(more, out, Append(in, e))
  <1>0. PICK log : log = Append(in, e)
    OBVIOUS
  <1>1. /\ DOMAIN log = DOMAIN out /\ n \in DOMAIN out /\ DOMAIN out \ DOMAIN in = {n}
    BY <1>0, LogAppend
  <1>2. Sum(out, {n}) = amount
    BY <1>1, OneOutstanding
  <1>3. ASSUME NEW t \in Nat
        PROVE  Wealth(more, t) + Sum(out, Outstanding(out, log, t)) = SumFunction(Initial)
    <2>1. Sum(out, Outstanding(out, log, t)) = 0
      <3>1. Outstanding(out, log, t) = {}
        BY <1>1 DEF Outstanding
      <3> QED
        BY <3>1, PicksNone
    <2>2. Wealth(books, t) + Sum(out, Outstanding(out, in, t)) = SumFunction(Initial)
      BY DEF Balanced
    <2>3. CASE sent <= t
      <3>1. Outstanding(out, in, t) = {n}
        BY <1>1, <2>3 DEF Outstanding
      <3>2. OneMoves(books, more, t, p, amount)
        BY <2>3 DEF OneMoves, MovesFrom
      <3>3. Wealth(books, t) \in Int /\ Wealth(more, t) = Wealth(books, t) + amount
        BY <3>2, WealthChange
      <3> QED
        BY <1>2, <2>1, <2>2, <3>1, <3>3
    <2>4. CASE ~(sent <= t)
      <3>1. Sum(out, Outstanding(out, in, t)) = 0
        <4>1. Outstanding(out, in, t) = {}
          BY <1>1, <2>4 DEF Outstanding
        <4> QED
          BY <4>1, PicksNone
      <3>2. \A a \in Worker : Worth(more[a], t) = Worth(books[a], t)
        BY <2>4 DEF MovesFrom
      <3>3. Wealth(more, t) = Wealth(books, t)
        BY <3>2, WealthSame
      <3> QED
        BY <2>1, <2>2, <3>1, <3>3
    <2> QED
      BY <2>3, <2>4
  <1> QED
    BY <1>0, <1>3 DEF Balanced

LEMMA TotalStep ==
  BankInv /\ BankInv' /\ LogInv /\ AccountInv /\ TotalInv /\ [Next]_vars => TotalInv'
<1> SUFFICES ASSUME BankInv, BankInv', LogInv, AccountInv, TotalInv, [Next]_vars
             PROVE  Balanced(ledger', outgoing', incoming')
  BY DEF TotalInv
<1> USE NodeFacts
<1>0. /\ TypeOK
      /\ outgoing \in Seq(Event) /\ incoming \in Seq(Event)
      /\ outgoing' \in Seq(Event) /\ incoming' \in Seq(Event)
      /\ clock \in [Node -> Timestamp] /\ clock' \in [Node -> Timestamp]
      /\ ledger \in [Worker -> History] /\ ledger' \in [Worker -> History]
      /\ Balanced(ledger, outgoing, incoming)
  BY DEF BankInv, TypeInv, TypeOK, TotalInv
<1>1. \A a \in Worker : /\ Settled(ledger[a]) /\ Len(ledger[a]) <= clock[a] + 1
                        /\ Len(ledger[a]) \in Nat /\ clock[a] \in Nat
                        /\ \A t \in Nat : /\ At(ledger[a], t).balance \in Int
                                          /\ At(ledger[a], t).pending_in \in Int
                                          /\ t >= Len(ledger[a]) => At(ledger[a], t).pending_in = 0
  <2> SUFFICES ASSUME NEW a \in Worker
               PROVE  /\ Settled(ledger[a]) /\ Len(ledger[a]) <= clock[a] + 1
                      /\ Len(ledger[a]) \in Nat /\ clock[a] \in Nat
                      /\ \A t \in Nat : /\ At(ledger[a], t).balance \in Int
                                        /\ At(ledger[a], t).pending_in \in Int
                                        /\ t >= Len(ledger[a]) => At(ledger[a], t).pending_in = 0
    OBVIOUS
  <2>1. Settled(ledger[a]) /\ Len(ledger[a]) <= clock[a] + 1
    BY DEF AccountInv, Agrees
  <2>2. ledger[a] \in History /\ clock[a] \in Nat
    BY <1>0, ClockFacts
  <2>3. Len(ledger[a]) \in Nat
    BY <2>2 DEF History
  <2> QED
    BY <2>1, <2>2, <2>3, AtType DEF Settled
<1>2. ASSUME NEW p \in Node, NEW q \in Node \ {p}, ReceiveOrder(p, q)
      PROVE  Balanced(ledger', outgoing', incoming')
  <2>1. PICK now : now = TimeOfReceipt(p, q)
    OBVIOUS
  <2>2. PICK e, amount, sent :
          e = [order |-> Orders[next], time |-> now + 1] /\ amount = Orders[next].amount
          /\ sent = now + 1
    OBVIOUS
  <2>3. /\ Orders[next] \in TransferOrder /\ p \in Worker
        /\ now \in Nat /\ clock[p] < now /\ clock' = [clock EXCEPT ![p] = sent]
        /\ Len(outgoing) = Len(incoming)
        /\ outgoing' = Append(outgoing, e) /\ incoming' = incoming
        /\ ledger' = [ledger EXCEPT ![p] = Debit(@, sent, amount)]
    BY <1>2, <2>1, <2>2, DebitFacts
  <2>4. CanDebit(ledger[p], sent, amount)
    BY <1>2, <2>1, <2>2, AcceptsDebit
  <2>5. clock'[p] = sent /\ sent \in Nat
    BY <1>0, <2>2, <2>3
  <2>6. e \in Event /\ e.time = sent /\ e.order.amount = amount /\ amount \in Int
    <3>1. sent \in Timestamp
      BY <1>0, <2>3, <2>5
    <3> QED
      BY <2>2, <2>3, <3>1 DEF Event, TransferOrder
  <2>7. PICK d \in Int : d + amount = 0
    <3>1. -amount \in Int /\ -amount + amount = 0
      BY <2>6
    <3> QED
      BY <3>1
  <2>8. ASSUME NEW a \in Worker, NEW t \in Nat
        PROVE  Worth(ledger'[a], t) = IF a = p /\ sent <= t THEN Worth(ledger[a], t) + d
                                      ELSE Worth(ledger[a], t)
    <3>1. CASE a # p
      <4>1. ledger'[a] = ledger[a]
        BY <1>0, <2>3, <3>1
      <4> QED
        BY <3>1, <4>1
    <3>2. CASE a = p
      <4>1. ledger'[a] = Debit(ledger[a], sent, amount)
        BY <1>0, <2>3, <3>2
      <4>2. ledger[p] \in History /\ Settled(ledger[p]) /\ Len(ledger[p]) <= sent
        BY <1>0, <1>1, <2>2, <2>3
      <4>3. At(Debit(ledger[p], sent, amount), t) = IF t < sent THEN At(ledger[p], t)
              ELSE [balance |-> At(ledger[p], t).balance - amount, pending_in |-> 0]
        BY <2>3, <2>4, <2>5, <2>6, <4>2, AtDebit
      <4>4. PICK s, z : s = At(ledger[p], t) /\ z = At(Debit(ledger[p], sent, amount), t)
        OBVIOUS
      <4>5. /\ s.balance \in Int /\ s.pending_in \in Int
            /\ t >= sent => s.pending_in = 0
        <5>1. t >= sent => t >= Len(ledger[p])
          BY <1>1, <2>3, <2>5, <4>2
        <5> QED
          BY <1>1, <2>3, <4>4, <5>1
      <4>6. z = IF t < sent THEN s ELSE [balance |-> s.balance - amount, pending_in |-> 0]
        BY <4>3, <4>4
      <4>7. z.balance + z.pending_in = IF sent <= t THEN s.balance + s.pending_in + d
                                       ELSE s.balance + s.pending_in
        BY <2>5, <2>6, <2>7, <4>5, <4>6
      <4>8. /\ Worth(ledger'[a], t) = z.balance + z.pending_in
            /\ Worth(ledger[a], t) = s.balance + s.pending_in
        BY <3>2, <4>1, <4>4 DEF Worth
      <4> QED
        BY <3>2, <4>7, <4>8
    <3> QED
      BY <3>1, <3>2
  <2>9. MovesFrom(ledger, ledger', p, sent, d)
    BY <2>8 DEF MovesFrom
  <2>10. Balanced(ledger', Append(outgoing, e), incoming)
    BY <1>0, <2>3, <2>5, <2>6, <2>9, <2>7, BalancedDebit
  <2> QED
    BY <2>3, <2>10
<1>3. ASSUME NEW p \in Node, NEW q \in Node \ {p}, ReceiveTransfer(p, q)
      PROVE  Balanced(ledger', outgoing', incoming')
  <2>1. PICK now : now = TimeOfReceipt(p, q)
    OBVIOUS
  <2>2. PICK e, amount, sent :
          e = [order |-> Orders[next], time |-> now] /\ amount = Orders[next].amount
          /\ sent = outgoing[next].time
    OBVIOUS
  <2>3. /\ Orders[next] \in TransferOrder /\ p \in Worker
        /\ now \in Nat /\ clock[p] < now
        /\ Len(outgoing) = next /\ Len(incoming) = next - 1 /\ next \in 1..Len(Orders)
        /\ incoming' = Append(incoming, e) /\ outgoing' = outgoing
        /\ ledger' = [ledger EXCEPT ![p] = Credit(@, sent, now, amount)]
        /\ CanCredit(ledger[p], sent, now, amount) /\ sent < now
    BY <1>3, <2>1, <2>2, CreditFacts
  <2>4. next \in Nat \ {0} /\ now \in Timestamp
    <3>1. Len(Orders) \in Nat
      BY Pa3Assumption
    <3>2. Takes(p, q, "TRANSFER")
      BY <1>3 DEF ReceiveTransfer
    <3>3. now \in Timestamp
      BY <1>0, <2>1, <3>2, TypeTakes
    <3>4. next \in Nat \ {0}
      BY <2>3, <3>1
    <3> QED
      BY <3>3, <3>4
  <2>5. sent \in Nat /\ outgoing[next].order.amount = amount
    <3>1. next \in DOMAIN outgoing
      BY <1>0, <2>3, <2>4
    <3>2. outgoing[next] \in Event
      BY <1>0, <3>1, LogTypes
    <3> QED
      BY <2>2, <3>1, <3>2, ClockFacts DEF Event, LogInv
  <2>6. e \in Event /\ amount \in Int
    BY <2>2, <2>3, <2>4 DEF Event, TransferOrder
  <2>7. ASSUME NEW a \in Worker, NEW t \in Nat
        PROVE  Worth(ledger'[a], t) = IF a = p /\ sent <= t THEN Worth(ledger[a], t) + amount
                                      ELSE Worth(ledger[a], t)
    <3>1. CASE a # p
      <4>1. ledger'[a] = ledger[a]
        BY <1>0, <2>3, <3>1
      <4> QED
        BY <3>1, <4>1
    <3>2. CASE a = p
      <4>1. ledger'[a] = Credit(ledger[a], sent, now, amount)
        BY <1>0, <2>3, <3>2
      <4>2. ledger[p] \in History /\ Settled(ledger[p]) /\ Len(ledger[p]) <= now
        BY <1>0, <1>1, <2>3
      <4>3. \A u \in Nat : At(Credit(ledger[p], sent, now, amount), u) =
              [balance |-> At(ledger[p], u).balance + (IF u >= now THEN amount ELSE 0),
               pending_in |-> At(ledger[p], u).pending_in
                                + (IF sent <= u /\ u < now THEN amount ELSE 0)]
        <5>1. CanCredit(ledger[p], sent, now, amount)
          BY <2>3
        <5> PICK h : h = ledger[p]
          OBVIOUS
        <5>2. /\ h \in History /\ Settled(h) /\ Len(h) <= now
              /\ CanCredit(h, sent, now, amount)
              /\ sent \in Nat /\ now \in Nat /\ amount \in Int
          BY <2>3, <2>5, <2>6, <4>2, <5>1
        <5>3. /\ CreditedBook(h, sent, now, amount)
              /\ Settled(Credit(h, sent, now, amount))
              /\ Credit(h, sent, now, amount)[1].balance = h[1].balance
              /\ Len(Credit(h, sent, now, amount)) = now + 1
          BY ONLY <5>2, CreditAt
        <5> QED
          BY <5>3 DEF CreditedBook
      <4>4. PICK s, d : s = At(ledger[p], t) /\ d = At(Credit(ledger[p], sent, now, amount), t)
        OBVIOUS
      <4>5. s.balance \in Int /\ s.pending_in \in Int
        BY <1>1, <2>3, <4>4
      <4>6. d = [balance |-> s.balance + (IF t >= now THEN amount ELSE 0),
                 pending_in |-> s.pending_in + (IF sent <= t /\ t < now THEN amount ELSE 0)]
        BY <4>3, <4>4
      <4>7. d.balance + d.pending_in = IF sent <= t THEN s.balance + s.pending_in + amount
                                       ELSE s.balance + s.pending_in
        BY <2>3, <2>5, <2>6, <4>5, <4>6
      <4>8. /\ Worth(ledger'[a], t) = d.balance + d.pending_in
            /\ Worth(ledger[a], t) = s.balance + s.pending_in
        BY <3>2, <4>1, <4>4 DEF Worth
      <4> QED
        BY <3>2, <4>7, <4>8
    <3> QED
      BY <3>1, <3>2
  <2>8. MovesFrom(ledger, ledger', p, sent, amount)
    BY <2>7 DEF MovesFrom
  <2>9. Balanced(ledger', outgoing, Append(incoming, e))
    BY <1>0, <2>2, <2>3, <2>4, <2>5, <2>6, <2>8, BalancedCredit
  <2> QED
    BY <2>3, <2>9
<1>4. ASSUME NEW p \in Worker, NEW t, Extends(p, t), UNCHANGED events
      PROVE  Balanced(ledger', outgoing', incoming')
  <2>1. ASSUME NEW a \in Worker, NEW u \in Nat PROVE Worth(ledger'[a], u) = Worth(ledger[a], u)
    <3>1. CASE a # p
      <4>1. ledger'[a] = ledger[a]
        BY <1>0, <1>4, <3>1 DEF Extends
      <4> QED
        BY <4>1
    <3>2. CASE a = p
      <4>1. ledger'[a] = Extend(ledger[a], t) /\ t \in Nat /\ FitsHistory(t)
        BY <1>0, <1>4, <3>2 DEF Extends
      <4>2. \A v \in Nat : At(Extend(ledger[a], t), v) = At(ledger[a], v)
        BY <1>0, <1>1, <4>1, AtExtend
      <4> QED
        BY <4>1, <4>2 DEF Worth
    <3> QED
      BY <3>1, <3>2
  <2>2. \A u \in Nat : Wealth(ledger', u) = Wealth(ledger, u)
    BY <2>1, WealthSame
  <2> QED
    BY <1>0, <1>4, <2>2 DEF events, Balanced
<1>5. CASE UNCHANGED <<ledger, events>>
  BY <1>0, <1>5 DEF events
<1> QED
  BY <1>0, <1>2, <1>3, <1>4, <1>5, LedgerMoves

LEMMA AccountInit == Init => AccountInv /\ TotalInv
<1> SUFFICES ASSUME Init PROVE AccountInv /\ TotalInv
  OBVIOUS
<1>1. outgoing = <<>> /\ incoming = <<>> /\ clock = [p \in Node |-> 0]
      /\ ledger = [p \in Worker |-> Opening(Initial[p])]
  BY DEF Init
<1>2. \A a \in Worker : Initial[a] \in Int
  BY Pa3Assumption, BalanceTFacts
<1>3. ASSUME NEW a \in Worker, NEW t \in Nat
      PROVE  At(ledger[a], t) = [balance |-> Initial[a], pending_in |-> 0]
  BY <1>1 DEF Opening, At, Closing
<1>4. ASSUME NEW a \in Worker PROVE Agrees(ledger[a], outgoing, incoming, a, clock[a])
  <2>1. /\ Len(ledger[a]) = 1 /\ clock[a] = 0 /\ Settled(ledger[a])
        /\ ledger[a][1].balance = Initial[a]
    BY <1>1, NodeFacts DEF Opening, Settled, Closing
  <2>2. ASSUME NEW t \in Nat
        PROVE  Cell(outgoing, incoming, a, t) = [balance |-> Initial[a], pending_in |-> 0]
    <3>1. /\ Spent(outgoing, a, t) = {} /\ Earned(incoming, a, t) = {}
          /\ Pending(outgoing, incoming, a, t) = {}
      BY <1>1 DEF Spent, Earned, Pending
    <3>2. Cell(outgoing, incoming, a, t) = [balance |-> Initial[a] - 0 + 0, pending_in |-> 0]
      BY <3>1, PicksNone DEF Cell
    <3> QED
      BY <1>2, <3>2
  <2> QED
    BY <1>3, <2>1, <2>2 DEF Agrees
<1>5. ASSUME NEW t \in Nat
      PROVE  Wealth(ledger, t) + Sum(outgoing, Outstanding(outgoing, incoming, t))
               = SumFunction(Initial)
  <2>1. Outstanding(outgoing, incoming, t) = {}
    BY <1>1 DEF Outstanding
  <2>2. \A a \in Worker : Worth(ledger[a], t) = Initial[a]
    <3> SUFFICES ASSUME NEW a \in Worker PROVE Worth(ledger[a], t) = Initial[a]
      OBVIOUS
    <3>1. PICK s : s = At(ledger[a], t)
      OBVIOUS
    <3>2. s = [balance |-> Initial[a], pending_in |-> 0] /\ Initial[a] \in Int
      BY <1>2, <1>3, <3>1
    <3> QED
      BY <3>1, <3>2 DEF Worth
  <2>3. [a \in Worker |-> Worth(ledger[a], t)] = Initial
    BY <2>2, Pa3Assumption
  <2>4. Wealth(ledger, t) = SumFunction(Initial)
    BY <2>3 DEF Wealth
  <2>5. SumFunction(Initial) \in Int
    BY <1>2, Pa3Assumption, WorkersFinite, SumType DEF SumFunction
  <2> QED
    BY <2>1, <2>4, <2>5, PicksNone
<1> QED
  BY <1>4, <1>5 DEF AccountInv, TotalInv, Balanced

LEMMA AccountAlways == Spec => [](AccountInv /\ TotalInv)
  BY AccountInit, AccountStep, TotalStep, BankAlways, LogAlways, PTL DEF Spec

(* Every cell of every history is what the events say, at every time and      *)
(* while transfers are under way, whoever is killed; and the histories that   *)
(* the parent prints are those of the workers (history_debit, history_credit, *)
(* history_extend, and parent_run's collection).                              *)
THEOREM HistoriesAreRight == Spec => []HistoriesMatchEvents
  <1>1. BankInv /\ AccountInv => HistoriesMatchEvents
    <2> SUFFICES ASSUME BankInv, AccountInv PROVE HistoriesMatchEvents
      OBVIOUS
    <2>0. ledger \in [Worker -> History] /\ history \in [Worker -> {Nothing} \cup History]
      BY DEF BankInv, TypeInv, TypeOK
    <2>1. ASSUME NEW a \in Worker, NEW time \in 0..(Len(ledger[a]) - 1)
          PROVE  ledger[a][time + 1] = CellFromEvents(a, time)
      <3>1. Len(ledger[a]) \in Nat
        BY <2>0 DEF History
      <3>2. time \in Nat /\ time < Len(ledger[a])
        BY <3>1
      <3>3. At(ledger[a], time) = Cell(outgoing, incoming, a, time)
        BY <3>2 DEF AccountInv, Agrees
      <3> QED
        BY <3>2, <3>3, CellParts DEF At
    <2>2. pc[PARENT_ID] \in {"reaping", "exited"} => history = ledger
      <3>1. SUFFICES ASSUME pc[PARENT_ID] \in {"reaping", "exited"} PROVE history = ledger
        OBVIOUS
      <3>2. \A a \in Worker : history[a] = ledger[a]
        BY <3>1 DEF BankInv, ReceiverInv, HistoryHeard
      <3> QED
        BY <2>0, <3>2
    <2> QED
      BY <2>1, <2>2 DEF HistoriesMatchEvents
  <1> QED
    BY <1>1, BankAlways, AccountAlways, PTL

(* Money is neither made nor lost: at every logical time the balances, the    *)
(* pending amounts and what is under way add up to what there was at the      *)
(* start, also past the end of the histories.                                 *)
THEOREM MoneyIsConserved == Spec => []MoneyConserved
  <1>1. TotalInv => MoneyConserved
    <2> SUFFICES ASSUME TotalInv, NEW time \in 0..Horizon(ledger, Worker)
                 PROVE  SumFunction([a \in Worker |-> At(ledger[a], time).balance
                                                        + At(ledger[a], time).pending_in])
                          + Sum(outgoing, {i \in DOMAIN outgoing \ DOMAIN incoming :
                                             outgoing[i].time <= time})
                        = SumFunction(Initial)
      BY DEF MoneyConserved
    <2>1. time \in Nat
      OBVIOUS
    <2> QED
      BY <2>1 DEF TotalInv, Balanced, Wealth, Worth, Outstanding
  <1> QED
    BY <1>1, AccountAlways, PTL

(* What history_finish checks of the histories it is given. *)
Finished == Gathered => AddsUp(history, Initial, Worker)

(* The check of history_finish never fails: when the parent has the histories *)
(* of all its workers they add up at every time, nothing is pending at the    *)
(* end, and no pending amount was ever negative.  So whoever is killed, the   *)
(* parent never ends in that check.                                           *)
THEOREM HistoriesAreAccepted == Spec => []Finished
  <1>1. BankInv /\ AccountInv /\ TotalInv => Finished
    <2> SUFFICES ASSUME BankInv, AccountInv, TotalInv, Gathered
                 PROVE  AddsUp(history, Initial, Worker)
      BY DEF Finished
    <2>0. /\ TypeOK /\ ledger \in [Worker -> History]
          /\ history \in [Worker -> {Nothing} \cup History]
      BY DEF BankInv, TypeInv, TypeOK
    <2>1. history = ledger
      <3>1. ASSUME NEW a \in Worker PROVE history[a] = ledger[a]
        <4>1. pc[PARENT_ID] = "gathering" /\ a < peer[PARENT_ID]
          BY <2>0, PassedAll DEF Gathered, PastTheLast, Passed
        <4> QED
          BY <4>1 DEF BankInv, ReceiverInv, HistoryHeard
      <3> QED
        BY <2>0, <3>1
    <2>2. ASSUME NEW a \in Worker
          PROVE  /\ ledger[a] # <<>> /\ ledger[a][1].balance = Initial[a]
                 /\ Closing(ledger[a]).pending_in = 0
                 /\ \A i \in DOMAIN ledger[a] : ledger[a][i].pending_in >= 0
      <3>1. ledger[a] \in Seq(BalanceState) /\ Len(ledger[a]) \in Nat /\ Len(ledger[a]) >= 1
        BY <2>0 DEF History
      <3>2. ASSUME NEW i \in DOMAIN ledger[a] PROVE ledger[a][i].pending_in >= 0
        <4>1. i - 1 \in Nat /\ i - 1 < Len(ledger[a]) /\ (i - 1) + 1 = i
          BY <3>1
        <4>2. At(ledger[a], i - 1) = ledger[a][i]
          BY <4>1 DEF At
        <4> QED
          BY <4>1, <4>2 DEF AccountInv, Agrees
      <3> QED
        BY <3>1, <3>2 DEF AccountInv, Agrees, Settled
    <2>3. ASSUME NEW time \in 0..Horizon(ledger, Worker)
          PROVE  SumFunction([a \in Worker |-> At(ledger[a], time).balance
                                                 + At(ledger[a], time).pending_in])
                   = SumFunction([a \in Worker |-> Initial[a]])
      <3>1. time \in Nat
        OBVIOUS
      <3>2. Wealth(ledger, time) + Sum(outgoing, Outstanding(outgoing, incoming, time))
              = SumFunction(Initial)
        BY <3>1 DEF TotalInv, Balanced
      <3>3. DOMAIN outgoing \ DOMAIN incoming = {}
        BY DEF Gathered, BankInv, TypeInv, TypeOK, PhaseInv, Stopping
      <3>4. Outstanding(outgoing, incoming, time) = {}
        BY <3>3 DEF Outstanding
      <3>5. Wealth(ledger, time) \in Int
        BY <2>0, <3>1, WealthType
      <3>6. Wealth(ledger, time) = SumFunction(Initial)
        BY <3>2, <3>4, <3>5, PicksNone
      <3>7. Initial = [a \in Worker |-> Initial[a]]
        BY Pa3Assumption
      <3> QED
        BY <3>6, <3>7 DEF Wealth, Worth
    <2> QED
      BY <2>1, <2>2, <2>3 DEF AddsUp
  <1> QED
    BY <1>1, BankAlways, AccountAlways, PTL

-----------------------------------------------------------------------------
(* The refinement: what is under way follows from the log, for a frame about *)
(* money is lost with nobody.                                                *)

CarryInv ==
  /\ Len(incoming) \in {next - 1, next}
  /\ Len(incoming) # Len(outgoing) =>
       \E p, q \in Worker : \E m \in Frames(p, q) : m.type = "TRANSFER"
  /\ Len(incoming) = next =>
       \E p \in Worker : \E m \in Frames(p, PARENT_ID) : m.type = "ACK"

(* The frames of the types that stay. *)
Keeps(types) == \A a, b \in Node : \A m \in Frames(a, b) : m.type \in types => m \in Frames(a, b)'

LEMMA AppendKeeps ==
  ASSUME NEW s \in Seq(Frame), NEW f
  PROVE  Range(Append(s, f)) = Range(s) \cup {f}
  <1>1. s \in Seq(Frame \cup {f}) /\ f \in Frame \cup {f}
    OBVIOUS
  <1>2. PICK t : t = Append(s, f)
    OBVIOUS
  <1>3. /\ Len(s) \in Nat /\ DOMAIN s = 1..Len(s) /\ DOMAIN t = 1..(Len(s) + 1)
        /\ t[Len(s) + 1] = f /\ \A i \in 1..Len(s) : t[i] = s[i]
    BY <1>1, <1>2, AppendProperties
  <1>4. Range(t) = Range(s) \cup {f}
    <2>1. Range(t) \subseteq Range(s) \cup {f}
      BY <1>3 DEF Range
    <2>2. Range(s) \subseteq Range(t)
      BY <1>3 DEF Range
    <2>3. f \in Range(t)
      BY <1>3 DEF Range
    <2> QED
      BY <2>1, <2>2, <2>3
  <1> QED
    BY <1>2, <1>4

LEMMA TailKeeps ==
  ASSUME NEW s \in Seq(Frame), s # <<>>
  PROVE  Range(s) \subseteq {Head(s)} \cup Range(Tail(s))
  <1>1. PICK t : t = Tail(s)
    OBVIOUS
  <1>2. /\ Len(s) \in Nat \ {0} /\ DOMAIN s = 1..Len(s) /\ DOMAIN t = 1..(Len(s) - 1)
        /\ Head(s) = s[1] /\ \A i \in 1..(Len(s) - 1) : t[i] = s[i + 1]
    BY <1>1, HeadTailProperties
  <1>3. ASSUME NEW i \in DOMAIN s, i # 1 PROVE s[i] \in Range(t)
    <2>1. i - 1 \in 1..(Len(s) - 1) /\ (i - 1) + 1 = i
      BY <1>2, <1>3
    <2>2. t[i - 1] = s[i] /\ i - 1 \in DOMAIN t
      BY <1>2, <2>1
    <2> QED
      BY <2>2 DEF Range
  <1> QED
    BY <1>1, <1>2, <1>3 DEF Range

LEMMA SentKeeps ==
  ASSUME TypeOK, NEW n \in Node, NEW f, NEW to, Sent(n, f, to)
  PROVE  /\ \A types : Keeps(types)
         /\ \A b \in Node : b \in to => f \in Frames(n, b)'
  <1>1. ASSUME NEW a \in Node, NEW b \in Node
        PROVE  /\ Frames(a, b) \subseteq Frames(a, b)'
               /\ a = n /\ b \in to => f \in Frames(a, b)'
    <2>1. Way(a, b)' = IF a = n /\ b \in to THEN Append(Way(a, b), f) ELSE Way(a, b)
      BY DEF Sent
    <2>2. Way(a, b) \in Seq(Frame)
      BY WayType
    <2>3. Range(Append(Way(a, b), f)) = Range(Way(a, b)) \cup {f}
      BY <2>2, AppendKeeps
    <2>4. Frames(a, b) = Range(Way(a, b)) /\ Frames(a, b)' = Range(Way(a, b)')
      BY DEF Frames
    <2> QED
      BY <2>1, <2>3, <2>4
  <1> QED
    BY <1>1 DEF Keeps

LEMMA TookKeeps ==
  ASSUME TypeOK, NEW n \in Node, NEW q \in Node \ {n}, NEW f, NEW to, NEW types,
         Took(n, q, f, to), Way(q, n) # <<>>, Head(Way(q, n)).type \notin types
  PROVE  /\ Keeps(types)
         /\ \A b \in Node : b \in to => f \in Frames(n, b)'
  <1>1. ASSUME NEW a \in Node, NEW b \in Node
        PROVE  /\ \A m \in Frames(a, b) : m.type \in types => m \in Frames(a, b)'
               /\ a = n /\ b \in to => f \in Frames(a, b)'
    <2>1. Way(a, b)' = IF a = n /\ b \in to THEN Append(Way(a, b), f)
                       ELSE IF a = q /\ b = n THEN Tail(Way(a, b)) ELSE Way(a, b)
      BY DEF Took
    <2>2. Way(a, b) \in Seq(Frame)
      BY WayType
    <2>3. Range(Append(Way(a, b), f)) = Range(Way(a, b)) \cup {f}
      BY <2>2, AppendKeeps
    <2>4. Frames(a, b) = Range(Way(a, b)) /\ Frames(a, b)' = Range(Way(a, b)')
      BY DEF Frames
    <2>5. a = q /\ b = n => Range(Way(a, b)) \subseteq {Head(Way(q, n))} \cup Range(Tail(Way(a, b)))
      BY <2>2, TailKeeps
    <2> QED
      BY <2>1, <2>3, <2>4, <2>5
  <1> QED
    BY <1>1 DEF Keeps

MoneyTypes == {"TRANSFER", "ACK"}

LEMMA SendKeeps ==
  ASSUME TypeOK, NEW n \in Node, ~Writing(n), UNCHANGED channel,
         NEW time, NEW type, NEW payload, NEW to, Sends(n, time, type, payload, to)
  PROVE  Keeps(MoneyTypes)
  <1>1. PICK f : f = [type |-> type, time |-> ClockSend(time), payload |-> payload]
    OBVIOUS
  <1>2. Puts(n, f, to)
    BY <1>1, WaySends
  <1>3. Sent(n, f, to)
    BY <1>2, PutsSent
  <1> QED
    BY <1>3, SentKeeps

LEMMA ReplyKeeps ==
  ASSUME TypeOK, NEW n \in Node, NEW q \in Node \ {n}, NEW any, Takes(n, q, any),
         NEW time, NEW type, NEW payload, NEW to, Sends(n, time, type, payload, to)
  PROVE  /\ any \notin MoneyTypes => Keeps(MoneyTypes)
         /\ \A b \in Node : b \in to => \E m \in Frames(n, b)' : m.type = type
  <1>1. PICK f : f = [type |-> type, time |-> ClockSend(time), payload |-> payload]
    OBVIOUS
  <1>2. Puts(n, f, to)
    BY <1>1, WaySends
  <1>3. Took(n, q, f, to) /\ Way(q, n) # <<>> /\ Received(n, q) = Head(Way(q, n))
    BY <1>2, PutsTook
  <1>4. Head(Way(q, n)).type = any
    BY <1>3 DEF Takes
  <1>5. any \notin MoneyTypes => Keeps(MoneyTypes)
    BY <1>3, <1>4, TookKeeps
  <1>6. any \notin {} => \A b \in Node : b \in to => f \in Frames(n, b)'
    <2>1. PICK types : types = {}
      OBVIOUS
    <2>2. Head(Way(q, n)).type \notin types
      BY <2>1
    <2> QED
      BY <1>3, <2>2, TookKeeps
  <1> QED
    BY <1>1, <1>5, <1>6

LEMMA TickKept ==
  ASSUME TypeOK, NEW n \in Node, NEW q \in Node \ {n}, NEW any, Takes(n, q, any), Ticks(n, q),
         UNCHANGED outbox, any \notin MoneyTypes
  PROVE  Keeps(MoneyTypes)
  <1>1. PICK f : f = Received(n, q)
    OBVIOUS
  <1>2. Puts(n, f, {})
    BY WayTicks DEF Ticks, Takes, Reading
  <1>3. Took(n, q, f, {}) /\ Way(q, n) # <<>> /\ Received(n, q) = Head(Way(q, n))
    BY <1>2, PutsTook
  <1>4. Head(Way(q, n)).type \notin MoneyTypes
    BY <1>3 DEF Takes
  <1> QED
    BY <1>3, <1>4, TookKeeps

LEMMA StillKeeps ==
  (\A a, b \in Node : Way(a, b)' = Way(a, b)) => Keeps(MoneyTypes)
  BY DEF Keeps, Frames, Range

(* A frame about money stays where it is until it is answered. *)
LEMMA MoneyStays ==
  BankInv /\ [Next]_vars =>
    \/ Keeps(MoneyTypes) /\ UNCHANGED <<next, events>>
    \/ \E p \in Node : \E q \in Node \ {p} : ReceiveOrder(p, q) \/ ReceiveTransfer(p, q)
    \/ \E q \in Worker : AwaitAck(q)
<1> SUFFICES ASSUME BankInv, [Next]_vars,
                    ~\E p \in Node : \E q \in Node \ {p} :
                        ReceiveOrder(p, q) \/ ReceiveTransfer(p, q),
                    ~\E q \in Worker : AwaitAck(q)
             PROVE  Keeps(MoneyTypes) /\ UNCHANGED <<next, events>>
  OBVIOUS
<1> USE NodeFacts
<1>0. TypeOK
  BY DEF BankInv, TypeInv
<1>1. UNCHANGED <<clock, channel, outbox, protocol, accounts>> =>
        Keeps(MoneyTypes) /\ UNCHANGED <<next, events>>
  BY SamePipes, StillKeeps DEF protocol, accounts
<1>2. ASSUME NEW n \in Node, NodeNext(n) PROVE Keeps(MoneyTypes) /\ UNCHANGED <<next, events>>
  <2>1. CASE AnnounceStarted(n)
    <3>1. n \in Worker /\ pc[n] = "boot"
          /\ Sends(n, clock[n], "STARTED", Nothing, Node \ {n})
          /\ UNCHANGED <<channel, protocol, accounts>>
      BY <2>1 DEF AnnounceStarted
    <3>2. \A b \in Node : Frames(n, b) = {}
      BY <3>1 DEF BankInv, SenderInv, FrameOk, Born
    <3>3. ~Writing(n)
      BY <1>0, <3>2, WritingFrames
    <3> QED
      BY <1>0, <3>1, <3>3, SendKeeps DEF protocol, accounts
  <2>2. CASE ReportHistory(n)
    BY <1>0, <2>2, SendKeeps DEF ReportHistory, Served, protocol, accounts
  <2>3. CASE PassStarted(n) \/ ExitChild(n) \/ PeersClosed(n) \/ Refuse(n)
    BY <1>1, <2>3 DEF PassStarted, ExitChild, PeersClosed, Refuse, Fatal
  <2>4. ASSUME NEW q \in Node \ {n}, BrokenPipe(n, q) \/ RejectFrame(n, q)
        PROVE  Keeps(MoneyTypes) /\ UNCHANGED <<next, events>>
    BY <1>1, <2>4 DEF BrokenPipe, RejectFrame, Fatal
  <2>5. ASSUME NEW q \in Node \ {n}, WriteFrame(n, q)
        PROVE  Keeps(MoneyTypes) /\ UNCHANGED <<next, events>>
    <3>1. \A a, b \in Node : Way(a, b)' = Way(a, b)
      BY <1>0, <2>5, WriteSilent
    <3> QED
      BY <2>5, <3>1, StillKeeps DEF WriteFrame, protocol, accounts
  <2>6. ASSUME NEW q \in Node \ {n}, AwaitStarted(n, q)
        PROVE  Keeps(MoneyTypes) /\ UNCHANGED <<next, events>>
    BY <1>0, <2>6, TickKept DEF AwaitStarted, accounts, MoneyTypes
  <2>7. ASSUME NEW q \in Node \ {n}, ReceiveDone(n, q)
        PROVE  Keeps(MoneyTypes) /\ UNCHANGED <<next, events>>
    BY <1>0, <2>7, TickKept DEF ReceiveDone, accounts, MoneyTypes
  <2>8. ASSUME NEW q \in Node \ {n}, ReceiveStop(n, q)
        PROVE  Keeps(MoneyTypes) /\ UNCHANGED <<next, events>>
    BY <1>0, <2>8, ReplyKeeps DEF ReceiveStop, MoneyTypes
  <2> QED
    BY <1>2, <2>1, <2>2, <2>3, <2>4, <2>5, <2>6, <2>7, <2>8 DEF NodeNext
<1>3. CASE ParentNext
  <2>1. CASE RequestTransfer \/ BroadcastStop
    <3>1. ~Writing(PARENT_ID)
      BY <2>1 DEF RequestTransfer, BroadcastStop, Robbing, BankInv, PhaseInv
    <3>2. CASE RequestTransfer
      BY <1>0, <3>1, <3>2, SendKeeps DEF RequestTransfer, protocol, accounts
    <3>3. CASE BroadcastStop
      BY <1>0, <3>1, <3>3, SendKeeps DEF BroadcastStop, accounts
    <3> QED
      BY <2>1, <3>2, <3>3
  <2>2. CASE AllDone
    <3>1. \A a, b \in Node : Way(a, b)' = Way(a, b)
      BY <2>2, SamePipes DEF AllDone
    <3> QED
      BY <2>2, <3>1, StillKeeps DEF AllDone, accounts
  <2>3. CASE FinishHistory
    BY <1>1, <2>3 DEF FinishHistory
  <2>4. ASSUME NEW q \in Worker, AwaitDone(q)
        PROVE  Keeps(MoneyTypes) /\ UNCHANGED <<next, events>>
    <3>1. q \in Node \ {PARENT_ID}
      OBVIOUS
    <3> QED
      BY <1>0, <2>4, <3>1, TickKept DEF AwaitDone, accounts, MoneyTypes
  <2>5. ASSUME NEW q \in Worker, AwaitHistory(q)
        PROVE  Keeps(MoneyTypes) /\ UNCHANGED <<next, events>>
    <3>1. q \in Node \ {PARENT_ID}
      OBVIOUS
    <3> QED
      BY <1>0, <2>5, <3>1, TickKept DEF AwaitHistory, MoneyTypes
  <2> QED
    BY <1>3, <2>1, <2>2, <2>3, <2>4, <2>5 DEF ParentNext
<1>4. CASE Supervision \/ Signals \/ UNCHANGED vars
  BY <1>1, <1>4 DEF Supervision, Signals, vars, protocol, accounts, events
<1> QED
  BY <1>2, <1>3, <1>4 DEF Next

LEMMA CarryStep == BankInv /\ CarryInv /\ [Next]_vars => CarryInv'
<1> SUFFICES ASSUME BankInv, CarryInv, [Next]_vars PROVE CarryInv'
  OBVIOUS
<1> USE NodeFacts
<1>0. TypeOK /\ outgoing \in Seq(Event) /\ incoming \in Seq(Event) /\ next \in Nat
  <2>1. TypeOK
    BY DEF BankInv, TypeInv
  <2>2. outgoing \in Seq(Event) /\ incoming \in Seq(Event) /\ next \in 1..(Len(Orders) + 1)
    BY <2>1 DEF TypeOK
  <2>3. Len(Orders) \in Nat
    BY Pa3Assumption
  <2> QED
    BY <2>1, <2>2, <2>3
<1>1. CASE Keeps(MoneyTypes) /\ UNCHANGED <<next, events>>
  <2>1. ASSUME NEW a \in Node, NEW b \in Node, NEW type \in MoneyTypes,
               \E m \in Frames(a, b) : m.type = type
        PROVE  \E m \in Frames(a, b)' : m.type = type
    BY <1>1, <2>1 DEF Keeps
  <2>2. (\E p, q \in Worker : \E m \in Frames(p, q) : m.type = "TRANSFER") =>
          \E p, q \in Worker : \E m \in Frames(p, q)' : m.type = "TRANSFER"
    BY <2>1 DEF MoneyTypes
  <2>3. (\E p \in Worker : \E m \in Frames(p, PARENT_ID) : m.type = "ACK") =>
          \E p \in Worker : \E m \in Frames(p, PARENT_ID)' : m.type = "ACK"
    BY <2>1 DEF MoneyTypes
  <2> QED
    BY <1>1, <2>2, <2>3 DEF CarryInv, events
<1>2. ASSUME NEW p \in Node, NEW q \in Node \ {p}, ReceiveOrder(p, q) PROVE CarryInv'
  <2>1. PICK now, order : now = TimeOfReceipt(p, q) /\ order = Orders[next]
    OBVIOUS
  <2>2. /\ order \in TransferOrder /\ ValidOrder(order) /\ p \in Worker
        /\ Len(incoming) = next - 1 /\ incoming' = incoming
    BY <1>2, <2>1, DebitFacts
  <2>3. order.dst \in Worker
    BY <2>2, OrderFacts
  <2>4. /\ Takes(p, q, "TRANSFER") /\ Sends(p, now, "TRANSFER", <<order>>, {order.dst})
        /\ next' = next
    <3>1. Received(p, q).payload[1] = order
      BY <1>2, <2>1, TransferTaken DEF ReceiveOrder
    <3> QED
      BY <1>2, <2>1, <3>1 DEF ReceiveOrder, protocol
  <2>5. \E m \in Frames(p, order.dst)' : m.type = "TRANSFER"
    <3>1. PICK dst, to, payload : dst = order.dst /\ to = {order.dst} /\ payload = <<order>>
      OBVIOUS
    <3>2. Sends(p, now, "TRANSFER", payload, to) /\ dst \in Node /\ dst \in to
      BY <2>3, <2>4, <3>1
    <3>3. \A b \in Node : b \in to => \E m \in Frames(p, b)' : m.type = "TRANSFER"
      BY <1>0, <2>2, <2>4, <3>2, ReplyKeeps
    <3> QED
      BY <3>1, <3>2, <3>3
  <2>6. Len(incoming') # next' /\ Len(incoming') = next' - 1
    BY <1>0, <2>2, <2>4
  <2> QED
    BY <2>2, <2>3, <2>5, <2>6 DEF CarryInv
<1>3. ASSUME NEW p \in Node, NEW q \in Node \ {p}, ReceiveTransfer(p, q) PROVE CarryInv'
  <2>1. PICK now : now = TimeOfReceipt(p, q)
    OBVIOUS
  <2>2. /\ p \in Worker /\ Len(outgoing) = next /\ Len(incoming) = next - 1
        /\ outgoing' = outgoing /\ Len(incoming') = next
    <3>1. /\ p \in Worker /\ Len(outgoing) = next /\ Len(incoming) = next - 1
          /\ incoming' = Append(incoming, [order |-> Orders[next], time |-> now])
          /\ outgoing' = outgoing
      BY <1>3, <2>1, CreditFacts
    <3> QED
      BY <1>0, <3>1
  <2>3. /\ Takes(p, q, "TRANSFER") /\ Sends(p, now, "ACK", Nothing, {PARENT_ID})
        /\ next' = next
    BY <1>3, <2>1 DEF ReceiveTransfer, protocol
  <2>4. \E m \in Frames(p, PARENT_ID)' : m.type = "ACK"
    BY <1>0, <2>3, ReplyKeeps
  <2> QED
    BY <2>2, <2>3, <2>4 DEF CarryInv
<1>4. ASSUME NEW q \in Worker, AwaitAck(q) PROVE CarryInv'
  <2>1. Takes(PARENT_ID, q, "ACK") /\ next' = next + 1 /\ UNCHANGED events
    BY <1>4 DEF AwaitAck, accounts
  <2>2. Len(outgoing) = next /\ Len(incoming) = next
    <3>1. PICK m \in Frames(q, PARENT_ID) : m.type = "ACK"
      BY <1>0, <2>1, TakenFrame
    <3>2. MoneyOk(q, PARENT_ID, m)
      BY <3>1 DEF BankInv, MoneyInv, Money
    <3> QED
      BY <3>2 DEF MoneyOk
  <2> QED
    BY <1>0, <2>1, <2>2 DEF CarryInv, events
<1> QED
  BY <1>1, <1>2, <1>3, <1>4, MoneyStays

LEMMA CarryAlways == Spec => []CarryInv
  <1>1. Init => CarryInv
    BY DEF Init, CarryInv
  <1> QED
    BY <1>1, CarryStep, BankAlways, PTL DEF Spec

(* What the abstract accounts see of the bank. *)
balances == [a \in Worker |-> Closing(ledger[a]).balance]
Moved == next - 1 + (IF \E p \in Worker : UnderWay(p, PARENT_ID, "ACK") THEN 1 ELSE 0)
InTransit == \E p, q \in Worker : UnderWay(p, q, "TRANSFER")

LEMMA UnderWayFrames ==
  ASSUME TypeOK, NEW p \in Node, NEW q \in Node, NEW type
  PROVE  UnderWay(p, q, type) <=> \E m \in Frames(p, q) : m.type = type
  <1>1. PICK s, f : s = channel[p][q] /\ f = Sending(p)
    OBVIOUS
  <1>2. s \in Seq(Frame)
    BY <1>1 DEF TypeOK
  <1>3. Range(Append(s, f)) = Range(s) \cup {f}
    BY <1>2, AppendKeeps
  <1>4. Frames(p, q) = IF q \in outbox[p].to THEN Range(s) \cup {f} ELSE Range(s)
    BY <1>1, <1>3 DEF Frames, Way
  <1>5. UnderWay(p, q, type) <=> (q \in outbox[p].to /\ f.type = type)
                                 \/ \E m \in Range(s) : m.type = type
    BY <1>1 DEF UnderWay, Sending, Range
  <1> QED
    BY <1>4, <1>5

LEMMA MapFacts ==
  BankInv /\ LogInv /\ CarryInv =>
    Moved = Len(incoming) /\ (InTransit <=> Len(incoming) # Len(outgoing))
<1> SUFFICES ASSUME BankInv, LogInv, CarryInv
             PROVE  Moved = Len(incoming) /\ (InTransit <=> Len(incoming) # Len(outgoing))
  OBVIOUS
<1> USE NodeFacts
<1>0. /\ TypeOK /\ next \in Nat /\ Len(incoming) \in Nat /\ Len(outgoing) \in Nat
  <2>1. TypeOK
    BY DEF BankInv, TypeInv
  <2>2. next \in Nat
    BY <2>1, Pa3Assumption DEF TypeOK
  <2>3. incoming \in Seq(Event) /\ outgoing \in Seq(Event)
    BY <2>1 DEF TypeOK
  <2> QED
    BY <2>1, <2>2, <2>3, LenProperties
<1>1. InTransit => Len(incoming) # Len(outgoing)
  <2>1. SUFFICES ASSUME NEW p \in Worker, NEW q \in Worker, UnderWay(p, q, "TRANSFER")
                 PROVE  Len(incoming) # Len(outgoing)
    BY DEF InTransit
  <2>2. PICK m \in Frames(p, q) : m.type = "TRANSFER"
    BY <1>0, <2>1, UnderWayFrames
  <2>3. MoneyOk(p, q, m)
    BY <2>2 DEF BankInv, MoneyInv, Money
  <2> QED
    BY <1>0, <2>3 DEF MoneyOk
<1>2. Len(incoming) # Len(outgoing) => InTransit
  <2>1. SUFFICES ASSUME Len(incoming) # Len(outgoing) PROVE InTransit
    OBVIOUS
  <2>2. PICK p \in Worker, q \in Worker : \E m \in Frames(p, q) : m.type = "TRANSFER"
    BY <2>1 DEF CarryInv
  <2>3. UnderWay(p, q, "TRANSFER")
    BY <1>0, <2>2, UnderWayFrames
  <2> QED
    BY <2>3 DEF InTransit
<1>3. CASE \E p \in Worker : UnderWay(p, PARENT_ID, "ACK")
  <2>1. PICK p \in Worker : UnderWay(p, PARENT_ID, "ACK")
    BY <1>3
  <2>2. PICK m \in Frames(p, PARENT_ID) : m.type = "ACK"
    BY <1>0, <2>1, UnderWayFrames
  <2>3. MoneyOk(p, PARENT_ID, m)
    BY <2>2 DEF BankInv, MoneyInv, Money
  <2> QED
    BY <1>0, <1>1, <1>2, <1>3, <2>3 DEF MoneyOk, Moved
<1>4. CASE ~\E p \in Worker : UnderWay(p, PARENT_ID, "ACK")
  <2>1. Len(incoming) # next
    BY <1>0, <1>4, UnderWayFrames DEF CarryInv
  <2>2. Len(incoming) \in {next - 1, next}
    BY DEF CarryInv
  <2> QED
    BY <1>0, <1>1, <1>2, <1>4, <2>1, <2>2 DEF Moved
<1> QED
  BY <1>3, <1>4

LEMMA MapNext == (BankInv /\ LogInv /\ CarryInv)' =>
    (Moved = Len(incoming) /\ (InTransit <=> Len(incoming) # Len(outgoing)))'
  BY MapFacts, PTL

LEMMA AccountsStart == Init => Abstract!AccInit
<1> SUFFICES ASSUME Init PROVE Abstract!AccInit
  OBVIOUS
<1>1. TypeOK /\ next = 1 /\ ledger = [p \in Worker |-> Opening(Initial[p])]
  BY TypeInit DEF Init, TypeInv
<1>2. \A p, q \in Node : \A type : ~UnderWay(p, q, type)
  BY DEF Init, UnderWay, Idle, Range
<1>3. Moved = 0 /\ InTransit = FALSE
  BY <1>1, <1>2, NodeFacts DEF Moved, InTransit
<1>4. balances = Initial
  BY <1>1, Pa3Assumption DEF balances, Opening, Closing
<1> QED
  BY <1>3, <1>4 DEF Abstract!AccInit, balances, Moved, InTransit

(* A debit takes the amount off the closing balance, and a credit adds it. *)
LEMMA DebitCloses ==
  ASSUME NEW h \in History, NEW time \in Nat, NEW amount \in Int,
         CanDebit(h, time, amount), Settled(h), Len(h) <= time
  PROVE  Closing(Debit(h, time, amount)).balance = Closing(h).balance - amount
  BY AtDebit

LEMMA CreditCloses ==
  ASSUME NEW h \in History, NEW sent \in Nat, NEW time \in Nat, NEW amount \in Int,
         CanCredit(h, sent, time, amount), Settled(h), Len(h) <= time
  PROVE  Closing(Credit(h, sent, time, amount)).balance = Closing(h).balance + amount
  BY AtCredit

LEMMA AccountsWithdraw ==
  ASSUME BankInv, LogInv, CarryInv, AccountInv, (BankInv /\ LogInv /\ CarryInv)',
         NEW p \in Node, NEW q \in Node \ {p}, ReceiveOrder(p, q)
  PROVE  Abstract!Withdraw
  <1>1. PICK now, sent, amount, order : /\ now = TimeOfReceipt(p, q) /\ sent = now + 1
                                 /\ order = Orders[next] /\ amount = order.amount
    OBVIOUS
  <1>2. /\ next \in 1..Len(Orders) /\ order \in TransferOrder /\ p = order.src /\ p \in Worker
        /\ now \in Nat /\ clock[p] < now
        /\ Len(outgoing) = next - 1 /\ Len(incoming) = next - 1
        /\ outgoing' = Append(outgoing, [order |-> order, time |-> sent]) /\ incoming' = incoming
        /\ ledger' = [ledger EXCEPT ![p] = Debit(@, sent, amount)]
    BY <1>1, DebitFacts
  <1>3. CanDebit(ledger[p], sent, amount)
    BY <1>1, AcceptsDebit
  <1>4. /\ ledger \in [Worker -> History] /\ outgoing \in Seq(Event) /\ clock[p] \in Nat
    <2>1. TypeOK /\ p \in Node
      BY DEF BankInv, TypeInv
    <2>2. clock[p] \in Timestamp
      BY <2>1 DEF TypeOK
    <2> QED
      BY <2>1, <2>2, ClockFacts DEF TypeOK
  <1>5. Closing(Debit(ledger[p], sent, amount)).balance = Closing(ledger[p]).balance - amount
    <2>1. Settled(ledger[p]) /\ Len(ledger[p]) <= clock[p] + 1
      BY <1>2 DEF AccountInv, Agrees
    <2>2. amount \in Int /\ sent \in Nat /\ Len(ledger[p]) <= sent
      BY <1>1, <1>2, <1>4, <2>1, AtType DEF TransferOrder
    <2> PICK h : h = ledger[p]
      OBVIOUS
    <2>3. h \in History /\ CanDebit(h, sent, amount) /\ Settled(h) /\ Len(h) <= sent
      BY <1>2, <1>3, <1>4, <2>1, <2>2
    <2>4. Closing(Debit(h, sent, amount)).balance = Closing(h).balance - amount
      BY <2>2, <2>3, DebitCloses
    <2> QED
      BY <2>4
  <1>6. balances' = [balances EXCEPT ![order.src] = @ - amount]
    BY <1>2, <1>4, <1>5 DEF balances
  <1>7. Moved = next - 1 /\ ~InTransit
    BY <1>2, MapFacts
  <1>8. Moved' = next - 1 /\ InTransit'
    BY <1>2, <1>4, MapNext
  <1>9. Moved + 1 = next /\ Moved < Len(Orders)
    BY <1>2, <1>7
  <1> QED
    BY <1>1, <1>6, <1>7, <1>8, <1>9 DEF Abstract!Withdraw, balances, Moved, InTransit

LEMMA AccountsDeposit ==
  ASSUME BankInv, LogInv, CarryInv, AccountInv, (BankInv /\ LogInv /\ CarryInv)',
         NEW p \in Node, NEW q \in Node \ {p}, ReceiveTransfer(p, q)
  PROVE  Abstract!Deposit
  <1>1. PICK now, sent, amount, order : /\ now = TimeOfReceipt(p, q) /\ outgoing[next].time = sent
                                 /\ order = Orders[next] /\ amount = order.amount
    OBVIOUS
  <1>2. /\ next \in 1..Len(Orders) /\ order \in TransferOrder /\ p = order.dst /\ p \in Worker
        /\ now \in Nat /\ clock[p] < now
        /\ Len(outgoing) = next /\ Len(incoming) = next - 1
        /\ outgoing' = outgoing /\ incoming' = Append(incoming, [order |-> order, time |-> now])
        /\ ledger' = [ledger EXCEPT ![p] = Credit(@, sent, now, amount)]
        /\ CanCredit(ledger[p], sent, now, amount)
    BY <1>1, CreditFacts
  <1>3. /\ ledger \in [Worker -> History] /\ incoming \in Seq(Event) /\ outgoing \in Seq(Event)
        /\ clock[p] \in Nat
    <2>1. TypeOK /\ p \in Node
      BY DEF BankInv, TypeInv
    <2>2. clock[p] \in Timestamp
      BY <2>1 DEF TypeOK
    <2> QED
      BY <2>1, <2>2, ClockFacts DEF TypeOK
  <1>4. Closing(Credit(ledger[p], sent, now, amount)).balance = Closing(ledger[p]).balance + amount
    <2>1. Settled(ledger[p]) /\ Len(ledger[p]) <= clock[p] + 1
      BY <1>2 DEF AccountInv, Agrees
    <2>2. amount \in Int /\ Len(ledger[p]) <= now
      BY <1>1, <1>2, <1>3, <2>1, AtType DEF TransferOrder
    <2>3. sent \in Nat
      <3>1. outgoing[next] \in Event
        BY <1>2, <1>3, ElementOfSeq
      <3> QED
        BY <1>1, <3>1, ClockFacts DEF Event
    <2> PICK h : h = ledger[p]
      OBVIOUS
    <2>4. /\ h \in History /\ CanCredit(h, sent, now, amount) /\ Settled(h)
          /\ Len(h) <= now /\ now \in Nat
      BY <1>2, <1>3, <2>1, <2>2
    <2>5. Closing(Credit(h, sent, now, amount)).balance = Closing(h).balance + amount
      BY <2>2, <2>3, <2>4, CreditCloses
    <2> QED
      BY <2>5
  <1>5. balances' = [balances EXCEPT ![order.dst] = @ + amount]
    BY <1>2, <1>3, <1>4 DEF balances
  <1>6. Moved = next - 1 /\ InTransit
    BY <1>2, MapFacts
  <1>7. Moved' = next /\ ~InTransit'
    BY <1>2, <1>3, MapNext
  <1>8. Moved + 1 = next
    BY <1>2, <1>6
  <1> QED
    BY <1>1, <1>5, <1>6, <1>7, <1>8 DEF Abstract!Deposit, balances, Moved, InTransit

LEMMA AccountsStill ==
  ASSUME BankInv, LogInv, CarryInv, (BankInv /\ LogInv /\ CarryInv)',
         UNCHANGED events, balances' = balances
  PROVE  UNCHANGED Abstract!accVars
  <1>1. Moved' = Moved /\ (InTransit' <=> InTransit)
    BY MapFacts, MapNext DEF events
  <1>2. InTransit' = InTransit
    BY <1>1 DEF InTransit
  <1> QED
    BY <1>1, <1>2 DEF Abstract!accVars, balances, Moved, InTransit

LEMMA AccountsStep ==
  BankInv /\ LogInv /\ CarryInv /\ AccountInv /\ (BankInv /\ LogInv /\ CarryInv)' /\ [Next]_vars
    => [Abstract!Withdraw \/ Abstract!Deposit]_(Abstract!accVars)
<1> SUFFICES ASSUME BankInv, LogInv, CarryInv, AccountInv, (BankInv /\ LogInv /\ CarryInv)',
                    [Next]_vars
             PROVE  [Abstract!Withdraw \/ Abstract!Deposit]_(Abstract!accVars)
  OBVIOUS
<1>0. TypeOK /\ ledger \in [Worker -> History]
  BY DEF BankInv, TypeInv, TypeOK
<1>1. CASE UNCHANGED <<ledger, events>>
  BY <1>1, AccountsStill DEF balances
<1>2. ASSUME NEW p \in Node, NEW q \in Node \ {p}, ReceiveOrder(p, q) \/ ReceiveTransfer(p, q)
      PROVE  Abstract!Withdraw \/ Abstract!Deposit
  BY <1>2, AccountsWithdraw, AccountsDeposit
<1>3. ASSUME NEW p \in Worker, NEW t, Extends(p, t), UNCHANGED events
      PROVE  UNCHANGED Abstract!accVars
  <2>1. Closing(Extend(ledger[p], t)).balance = Closing(ledger[p]).balance
    BY <1>0, <1>3, ExtendType DEF Extends
  <2>2. balances' = balances
    BY <1>0, <1>3, <2>1 DEF Extends, balances
  <2> QED
    BY <1>3, <2>2, AccountsStill
<1> QED
  BY <1>0, <1>1, <1>2, <1>3, LedgerMoves

(* The accounts of the bank are the abstract accounts: an order leaves its    *)
(* source when it forwards the TRANSFER, is carried out when its destination  *)
(* books it, once and in the order of bank_robbery, whoever is killed         *)
(* (transfer() of bank.c, the TRANSFER handlers of worker_run).               *)
THEOREM BankImplementsAccounts == Spec => ImplementsAccounts
  <1> QED
    BY AccountsStart, AccountsStep, BankAlways, LogAlways, CarryAlways, AccountAlways, PTL
       DEF Spec, ImplementsAccounts, Abstract!AccSpec
=============================================================================
