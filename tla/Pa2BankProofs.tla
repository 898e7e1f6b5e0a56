---------------------------- MODULE Pa2BankProofs ----------------------------
(***************************************************************************)
(* Proofs about Pa2Bank, for every number of workers, all initial balances, *)
(* all orders, valid or not, every limit, however the clock moves, whichever *)
(* fork is refused and whichever nodes die, in this order:                   *)
(*   TypeInv     no balance or history leaves the integers of its C type;    *)
(*   BankInv     what the frames under way say of the nodes they come from,  *)
(*               and the phases of the protocol: the barriers, the parent's  *)
(*               report;                                                     *)
(*   LogInv      the lines of events.log are those of the orders, and none   *)
(*               is booked at its target before its source;                  *)
(*   TidyInv     no history is ahead of the clock, nothing is ever pending;  *)
(*   AccountInv  every cell of every history is what the lines say;          *)
(*   TableInv    what the parent prints are the final histories;             *)
(*   TotalInv    at every time the money adds up, with what is on its way;   *)
(*   CarryInv    the money of a transfer is under way between its booking    *)
(*               at the source and at the target: the bank implements the    *)
(*               abstract accounts.                                          *)
(***************************************************************************)
EXTENDS Pa2Bank, LedgerProofs

-----------------------------------------------------------------------------
(* Nodes and frames. *)

LEMMA NodeFacts ==
  /\ PARENT_ID \in Node /\ PARENT_ID \notin Worker
  /\ Worker \subseteq Node /\ Node \subseteq Nat
  /\ \A p \in Node : p # PARENT_ID => p \in Worker
  /\ Children \in Nat \ {0}
  BY ProcessesAssumption DEF PARENT_ID, Node, Worker

State == {"starting", "serving", "reporting", "robbing", "acking", "collecting",
          "gathering"} \cup Lifecycle
MessageType == {"STARTED", "DONE", "ACK", "STOP", "TRANSFER", "BALANCE_HISTORY"}

(* A frame's payload goes with its type: nothing, one order, or a history. *)
OneOrder == [{1} -> TransferOrder]
Payload == {Nothing} \cup OneOrder \cup History
Fits(m) ==
  CASE m.type = "TRANSFER" -> m.payload \in OneOrder
    [] m.type = "BALANCE_HISTORY" -> m.payload \in History
    [] OTHER -> m.payload = Nothing

Frame == {m \in [type : MessageType, payload : Payload] : Fits(m)}
Output == {b \in [type : MessageType, payload : Payload, to : SUBSET Node] : Fits(b)}
Event == [order : TransferOrder, time : Nat]

LEMMA OneOrderType ==
  ASSUME NEW order \in TransferOrder
  PROVE  <<order>> \in OneOrder
  <1>1. <<order>> \in Seq(TransferOrder) /\ Len(<<order>>) = 1
    OBVIOUS
  <1>2. <<order>> \in [1..1 -> TransferOrder] /\ 1..1 = {1}
    BY <1>1
  <1> QED
    BY <1>2 DEF OneOrder

LEMMA FrameType ==
  ASSUME NEW type \in MessageType, NEW payload,
         CASE type = "TRANSFER" -> payload \in OneOrder
           [] type = "BALANCE_HISTORY" -> payload \in History
           [] OTHER -> payload = Nothing
  PROVE  [type |-> type, payload |-> payload] \in Frame
  <1> DEFINE m == [type |-> type, payload |-> payload]
  <1>1. payload \in Payload
    BY DEF Payload
  <1>2. Fits(m)
    BY DEF Fits
  <1> QED
    BY <1>1, <1>2 DEF Frame

LEMMA OutputType ==
  ASSUME NEW type \in MessageType, NEW payload, NEW targets \in SUBSET Node,
         CASE type = "TRANSFER" -> payload \in OneOrder
           [] type = "BALANCE_HISTORY" -> payload \in History
           [] OTHER -> payload = Nothing
  PROVE  ToWrite(type, payload, targets) \in {Idle} \cup Output
  <1> DEFINE b == [type |-> type, payload |-> payload, to |-> targets]
  <1>1. payload \in Payload
    BY DEF Payload
  <1>2. Fits(b)
    BY DEF Fits
  <1>3. b \in Output
    BY <1>1, <1>2 DEF Output
  <1> QED
    BY <1>3 DEF ToWrite

LEMMA FrameFacts ==
  ASSUME NEW m \in Frame
  PROVE  /\ m.type \in MessageType
         /\ m.type = "TRANSFER" => m.payload[1] \in TransferOrder /\ m.payload = <<m.payload[1]>>
         /\ m.type = "BALANCE_HISTORY" => m.payload \in History
  <1>1. m.type = "TRANSFER" => m.payload \in OneOrder
    BY DEF Frame, Fits
  <1>2. \A x \in OneOrder : x[1] \in TransferOrder /\ x = <<x[1]>>
    <2>1. SUFFICES ASSUME NEW x \in OneOrder PROVE x[1] \in TransferOrder /\ x = <<x[1]>>
      OBVIOUS
    <2>2. x \in [1..1 -> TransferOrder] /\ 1..1 = {1}
      BY DEF OneOrder
    <2>3. x[1] \in TransferOrder
      BY <2>2
    <2>4. DOMAIN <<x[1]>> = 1..1 /\ <<x[1]>>[1] = x[1]
      OBVIOUS
    <2>5. <<x[1]>> \in [1..1 -> TransferOrder]
      BY <2>3, <2>4
    <2> QED
      BY <2>2, <2>3, <2>4, <2>5
  <1> QED
    BY <1>1, <1>2 DEF Frame, Fits

(* The common length of the printed histories. *)
LEMMA HorizonFacts ==
  ASSUME NEW books, \A a \in Worker : books[a] \in History
  PROVE  /\ Horizon(books, Worker) \in Nat /\ FitsHistory(Horizon(books, Worker))
         /\ \A a \in Worker : Len(books[a]) <= Horizon(books, Worker) + 1
  <1> DEFINE lengths == {Len(books[a]) : a \in Worker}
  <1>1. lengths # {} /\ lengths \subseteq 1..(HistoryLimit + 1)
    <2>1. 1 \in Worker
      BY NodeFacts DEF Worker
    <2> QED
      BY <2>1 DEF History
  <1>2. IsFiniteSet(lengths)
    <2>1. 1 \in Int /\ HistoryLimit + 1 \in Int
      BY BalanceTFacts
    <2>2. IsFiniteSet(1..(HistoryLimit + 1))
      BY <2>1, FS_Interval
    <2> HIDE DEF lengths
    <2> QED
      BY <1>1, <2>2, FS_Subset
  <1> HIDE DEF lengths
  <1>3. Max(lengths) \in lengths /\ \A y \in lengths : y <= Max(lengths)
    <2>1. lengths \subseteq Int
      BY <1>1, BalanceTFacts
    <2> QED
      BY <1>1, <1>2, <2>1, MaxExists
  <1>4. Max(lengths) \in 1..(HistoryLimit + 1)
    BY <1>1, <1>3
  <1>5. Horizon(books, Worker) = Max(lengths) - 1
    BY DEF Horizon, lengths
  <1>6. \A a \in Worker : Len(books[a]) <= Max(lengths)
    <2>1. \A a \in Worker : Len(books[a]) \in lengths
      BY DEF lengths
    <2> QED
      BY <1>3, <2>1
  <1>7. \A a \in Worker : Len(books[a]) \in Int
    BY DEF History
  <1> QED
    BY <1>4, <1>5, <1>6, <1>7, BalanceTFacts DEF FitsHistory

-----------------------------------------------------------------------------
(* Types.  An awaited ACK belongs to an order that exists, and the parent has *)
(* the histories of the peers its loop is past.                               *)

TypeOK ==
  /\ pc \in [Node -> State]
  /\ pc[PARENT_ID] \notin {"unborn", "serving", "reporting"}
  /\ now \in Nat
  /\ channel \in [Node -> [Node -> Seq(Frame)]]
  /\ outbox \in [Node -> {Idle} \cup Output]
  /\ peer \in [Node -> 1..(Children + 2)]
  /\ next \in 1..(Len(Orders) + 1)
  /\ stopped \in SUBSET Worker
  /\ done \in [Worker -> SUBSET Worker]
  /\ ledger \in [Worker -> History]
  /\ history \in [Worker -> {Nothing} \cup History]
  /\ outgoing \in Seq(Event) /\ incoming \in Seq(Event)

TypeInv ==
  /\ TypeOK
  /\ pc[PARENT_ID] = "acking" => next <= Len(Orders)
  /\ pc[PARENT_ID] = "gathering" =>
       \A q \in Worker : q < peer[PARENT_ID] => history[q] \in History

LEMMA TypeInit == Init => TypeInv
  <1> SUFFICES ASSUME Init PROVE TypeInv
    OBVIOUS
  <1> USE NodeFacts
  <1>1. pc \in [Node -> State] /\ pc[PARENT_ID] = "boot"
    BY DEF Init, NothingForked, State, Lifecycle
  <1>2. channel \in [Node -> [Node -> Seq(Frame)]]
    BY EmptySeq DEF Init
  <1>3. peer \in [Node -> 1..(Children + 2)]
    BY DEF Init, PeerFrom
  <1>4. next \in 1..(Len(Orders) + 1)
    BY Pa2Assumption, LenProperties DEF Init
  <1>5. ledger \in [Worker -> History]
    BY Pa2Assumption, OpeningType DEF Init
  <1>6. outgoing \in Seq(Event) /\ incoming \in Seq(Event)
    BY EmptySeq DEF Init
  <1> QED
    BY <1>1, <1>2, <1>3, <1>4, <1>5, <1>6 DEF Init, TypeInv, TypeOK

(* A step that only moves a node to a state it may be in. *)
LEMMA TypeGoto ==
  ASSUME TypeInv, NEW p \in Node, NEW state \in State, Goto(p, state),
         p = PARENT_ID => state \notin {"unborn", "serving", "reporting", "acking", "gathering"},
         UNCHANGED <<now, channel, outbox, protocol, accounts>>
  PROVE  TypeInv'
  BY NodeFacts DEF TypeInv, TypeOK, Goto, protocol, accounts, events

LEMMA TypeFatal ==
  ASSUME TypeInv, NEW p \in Node, Fatal(p)
  PROVE  TypeInv'
  <1> DEFINE state == IF p = PARENT_ID THEN "stopping" ELSE "failed"
  <1>1. /\ state \in State
        /\ p = PARENT_ID => state \notin {"unborn", "serving", "reporting", "acking", "gathering"}
    BY DEF State, Lifecycle, Over
  <1>2. Goto(p, state) /\ UNCHANGED <<now, channel, outbox, protocol, accounts>>
    BY DEF Fatal, Fail
  <1> HIDE DEF state
  <1> QED
    BY <1>1, <1>2, TypeGoto

LEMMA TypeSends ==
  ASSUME TypeOK, NEW p \in Node,
         NEW type \in MessageType, NEW payload, NEW targets \in SUBSET Node,
         CASE type = "TRANSFER" -> payload \in OneOrder
           [] type = "BALANCE_HISTORY" -> payload \in History
           [] OTHER -> payload = Nothing,
         Sends(p, type, payload, targets)
  PROVE  outbox' \in [Node -> {Idle} \cup Output]
  <1>1. ToWrite(type, payload, targets) \in {Idle} \cup Output
    BY OutputType
  <1> QED
    BY <1>1 DEF TypeOK, Sends

(* What p finds at the head of a pipe it reads, and when it may take it: a    *)
(* worker that serves takes a frame AcceptsByWorker lets through, any other   *)
(* node the type it expects from the peer it has come to.                     *)
LEMMA TakesWhen ==
  ASSUME TypeOK, NEW p \in Node, NEW q \in Node, NEW type, Takes(p, q, type)
  PROVE  /\ channel' \in [Node -> [Node -> Seq(Frame)]]
         /\ Received(p, q) \in Frame /\ Received(p, q).type = type
         /\ pc[p] = "serving" => p \in Worker /\ AcceptsByWorker(p, q, Received(p, q))
         /\ pc[p] # "serving" => type = Expected(p)
         /\ type = "STARTED" => pc[p] = "starting"
         /\ type = "ACK" => pc[p] = "acking"
         /\ type = "BALANCE_HISTORY" => pc[p] = "gathering"
         /\ type \in {"TRANSFER", "STOP"} => pc[p] = "serving"
         /\ type = "DONE" => pc[p] \in {"serving", "collecting"}
         /\ pc[p] \in {"starting", "collecting", "gathering"} =>
              q = peer[p] /\ q \in Worker
  <1>1. channel[q][p] \in Seq(Frame) /\ channel[q][p] # <<>> /\ q \in Awaited(p)
    BY DEF TypeOK, Takes, Reading
  <1>2. Head(channel[q][p]) \in Frame /\ Tail(channel[q][p]) \in Seq(Frame)
    BY <1>1, HeadTailProperties
  <1>3. channel' \in [Node -> [Node -> Seq(Frame)]]
    BY <1>2 DEF TypeOK, Takes
  <1>4. Received(p, q) \in Frame /\ Received(p, q).type = type /\ Accepts(p, q)
    BY <1>2 DEF Received, Takes
  <1>5. pc[p] = "serving" => p \in Worker /\ AcceptsByWorker(p, q, Received(p, q))
    BY <1>4, NodeFacts DEF Accepts, TypeOK
  <1>6. pc[p] # "serving" => type = Expected(p)
    BY <1>4 DEF Accepts
  <1>7. pc[p] = "serving" => type \in {"TRANSFER", "STOP", "DONE"}
    BY <1>4, <1>5 DEF AcceptsByWorker
  <1>8. pc[p] \in {"starting", "collecting", "gathering"} => q = peer[p] /\ q \in Worker
    BY <1>1 DEF Awaited
  <1>9. pc[p] \in {"starting", "acking", "collecting", "gathering", "serving"}
    BY <1>1 DEF Awaited
  <1>10. /\ type = "STARTED" => pc[p] = "starting"
         /\ type = "ACK" => pc[p] = "acking"
         /\ type = "BALANCE_HISTORY" => pc[p] = "gathering"
         /\ type \in {"TRANSFER", "STOP"} => pc[p] = "serving"
         /\ type = "DONE" => pc[p] \in {"serving", "collecting"}
    BY <1>6, <1>7, <1>9 DEF Expected
  <1> QED
    BY <1>3, <1>4, <1>5, <1>6, <1>8, <1>10

LEMMA TypeNextPeer ==
  ASSUME TypeOK, NEW p \in Node, peer[p] \in Worker, ToNextPeer(p)
  PROVE  peer' \in [Node -> 1..(Children + 2)]
  <1>1. peer[p] \in 1..Children /\ Children \in Nat
    BY NodeFacts DEF Worker
  <1>2. PeerFrom(p, peer[p] + 1) \in 1..(Children + 2)
    BY <1>1 DEF PeerFrom
  <1> QED
    BY <1>2 DEF TypeOK, ToNextPeer

LEMMA TypeWrite ==
  ASSUME TypeInv, NEW p \in Node, NEW q \in Node, WriteFrame(p, q)
  PROVE  TypeInv'
  <1> DEFINE b == outbox[p]
             m == [type |-> b.type, payload |-> b.payload]
  <1>1. b \in Output
    BY DEF WriteFrame, NextTarget, TypeInv, TypeOK, Idle
  <1>2. /\ b.type \in MessageType /\ b.payload \in Payload /\ b.to \subseteq Node
        /\ CASE b.type = "TRANSFER" -> b.payload \in OneOrder
             [] b.type = "BALANCE_HISTORY" -> b.payload \in History
             [] OTHER -> b.payload = Nothing
    BY <1>1 DEF Output, Fits
  <1>3. ToWrite(b.type, b.payload, b.to \ {q}) \in {Idle} \cup Output
    BY <1>2, OutputType
  <1>4. outbox' \in [Node -> {Idle} \cup Output]
    BY <1>3 DEF TypeInv, TypeOK, WriteFrame
  <1>5. m \in Frame
    BY <1>2, FrameType
  <1>6. channel' \in [Node -> [Node -> Seq(Frame)]]
    <2>1. Append(channel[p][q], m) \in Seq(Frame)
      BY <1>5, AppendProperties DEF TypeInv, TypeOK
    <2> QED
      BY <2>1 DEF TypeInv, TypeOK, WriteFrame
  <1> QED
    BY <1>4, <1>6 DEF WriteFrame, TypeInv, TypeOK, protocol, accounts, events

-----------------------------------------------------------------------------
(* The worker's receipts. *)

(* A booking at a time the account has no later entry than. *)
LEMMA BookType ==
  ASSUME NEW account \in History, now \in Nat, FitsHistory(now), NEW amount \in Int,
         FitsBalance(Closing(account).balance + amount)
  PROVE  Book(account, amount) \in History
  <1> DEFINE e == Extend(account, now)
             more == Closing(account).balance + amount
  <1>1. e \in History /\ now + 1 \in DOMAIN e
    BY ExtendType
  <1>2. more \in BalanceT
    BY DEF FitsBalance
  <1> HIDE DEF e, more
  <1>3. e \in Seq(BalanceState) /\ Len(e) \in 1..(HistoryLimit + 1) /\ e[now + 1] \in BalanceState
    BY <1>1 DEF History
  <1>4. PICK cell \in BalanceState : cell = [e[now + 1] EXCEPT !.balance = more]
    BY <1>2, <1>3 DEF BalanceState
  <1>5. PICK b : b = [e EXCEPT ![now + 1] = cell]
    OBVIOUS
  <1>6. b \in Seq(BalanceState) /\ Len(b) = Len(e)
    BY <1>1, <1>3, <1>5
  <1>7. b = Book(account, amount)
    BY <1>1, <1>4, <1>5 DEF Book, e, more
  <1> QED
    BY <1>3, <1>6, <1>7 DEF History

LEMMA OrderFacts ==
  ASSUME NEW order \in TransferOrder, ValidOrder(order)
  PROVE  /\ order.src \in Worker /\ order.dst \in Worker /\ order.src # order.dst
         /\ order.amount \in Int /\ -order.amount \in Int
  BY BalanceTFacts DEF ValidOrder

(* What the acceptance of a transfer says: the order is good, and the booking *)
(* fits.                                                                      *)
LEMMA TransferAccepted ==
  ASSUME TypeOK, NEW p \in Node, NEW q \in Node, Takes(p, q, "TRANSFER"),
         NEW order, order = Received(p, q).payload[1]
  PROVE  /\ p \in Worker /\ pc[p] = "serving" /\ order \in TransferOrder
         /\ Received(p, q).payload = <<order>>
         /\ ValidOrder(order) /\ FitsHistory(now)
         /\ IsDebit(p, q, order) => FitsBalance(Closing(ledger[p]).balance + (-order.amount))
         /\ IsCredit(p, q, order) => FitsBalance(Closing(ledger[p]).balance + order.amount)
         /\ IsDebit(p, q, order) \/ IsCredit(p, q, order)
  <1>1. /\ pc[p] = "serving" /\ Received(p, q) \in Frame /\ Received(p, q).type = "TRANSFER"
        /\ p \in Worker /\ AcceptsByWorker(p, q, Received(p, q))
    BY TakesWhen
  <1>2. /\ AcceptsTransfer(p, q, order) /\ order \in TransferOrder
        /\ Received(p, q).payload = <<order>>
    BY <1>1, FrameFacts DEF AcceptsByWorker
  <1>3. ValidOrder(order)
    BY <1>2 DEF AcceptsTransfer
  <1>4. ~(IsDebit(p, q, order) /\ IsCredit(p, q, order))
    BY <1>3 DEF ValidOrder, IsDebit, IsCredit
  <1>5. Closing(ledger[p]).balance \in Int /\ order.amount \in Int
    BY <1>1, <1>2, <1>3, AtType, OrderFacts DEF TypeOK
  <1>6. Closing(ledger[p]).balance - order.amount = Closing(ledger[p]).balance + (-order.amount)
    BY <1>5
  <1> QED
    BY <1>1, <1>2, <1>3, <1>4, <1>6 DEF AcceptsTransfer

LEMMA TypeReceiveOrder ==
  ASSUME TypeInv, NEW p \in Node, NEW q \in Node, ReceiveOrder(p, q)
  PROVE  TypeInv'
  <1> DEFINE order == Received(p, q).payload[1]
  <1>1. TypeOK /\ Takes(p, q, "TRANSFER") /\ IsDebit(p, q, order)
    BY DEF ReceiveOrder, TypeInv
  <1>2. /\ ledger' = [ledger EXCEPT ![p] = Book(ledger[p], -order.amount)]
        /\ outgoing' = Append(outgoing, [order |-> order, time |-> now])
        /\ Sends(p, "TRANSFER", <<order>>, {order.dst})
    BY DEF ReceiveOrder
  <1>3. /\ p \in Worker /\ order \in TransferOrder /\ ValidOrder(order) /\ FitsHistory(now)
        /\ FitsBalance(Closing(ledger[p]).balance + (-order.amount))
        /\ channel' \in [Node -> [Node -> Seq(Frame)]]
    BY <1>1, TransferAccepted, TakesWhen
  <1> HIDE DEF order
  <1>4. ledger' \in [Worker -> History]
    <2>1. ledger[p] \in History /\ -order.amount \in Int /\ now \in Nat
      BY <1>1, <1>3, OrderFacts DEF TypeOK
    <2>2. Book(ledger[p], -order.amount) \in History
      BY <1>3, <2>1, BookType
    <2> QED
      BY <1>1, <1>2, <2>2 DEF TypeOK
  <1>5. outgoing' \in Seq(Event)
    <2>1. [order |-> order, time |-> now] \in Event
      BY <1>1, <1>3 DEF Event, TypeOK
    <2> QED
      BY <1>1, <1>2, <2>1, AppendProperties DEF TypeOK
  <1>6. outbox' \in [Node -> {Idle} \cup Output]
    <2>1. <<order>> \in OneOrder /\ {order.dst} \in SUBSET Node /\ "TRANSFER" \in MessageType
      BY <1>3, OneOrderType, OrderFacts, NodeFacts DEF MessageType
    <2> QED
      BY <1>1, <1>2, <2>1, TypeSends
  <1> QED
    BY <1>1, <1>3, <1>4, <1>5, <1>6
       DEF ReceiveOrder, TypeInv, TypeOK, protocol, accounts, events

LEMMA TypeReceiveTransfer ==
  ASSUME TypeInv, NEW p \in Node, NEW q \in Node, ReceiveTransfer(p, q)
  PROVE  TypeInv'
  <1> DEFINE order == Received(p, q).payload[1]
  <1>1. TypeOK /\ Takes(p, q, "TRANSFER") /\ IsCredit(p, q, order)
    BY DEF ReceiveTransfer, TypeInv
  <1>2. /\ ledger' = [ledger EXCEPT ![p] = Book(ledger[p], order.amount)]
        /\ incoming' = Append(incoming, [order |-> order, time |-> now])
        /\ Sends(p, "ACK", Nothing, {PARENT_ID})
    BY DEF ReceiveTransfer
  <1>3. /\ p \in Worker /\ order \in TransferOrder /\ ValidOrder(order) /\ FitsHistory(now)
        /\ FitsBalance(Closing(ledger[p]).balance + order.amount)
        /\ channel' \in [Node -> [Node -> Seq(Frame)]]
    BY <1>1, TransferAccepted, TakesWhen
  <1> HIDE DEF order
  <1>4. ledger' \in [Worker -> History]
    <2>1. ledger[p] \in History /\ order.amount \in Int /\ now \in Nat
      BY <1>1, <1>3, OrderFacts DEF TypeOK
    <2>2. Book(ledger[p], order.amount) \in History
      BY <1>3, <2>1, BookType
    <2> QED
      BY <1>1, <1>2, <2>2 DEF TypeOK
  <1>5. incoming' \in Seq(Event)
    <2>1. [order |-> order, time |-> now] \in Event
      BY <1>1, <1>3 DEF Event, TypeOK
    <2> QED
      BY <1>1, <1>2, <2>1, AppendProperties DEF TypeOK
  <1>6. outbox' \in [Node -> {Idle} \cup Output]
    <2>1. {PARENT_ID} \in SUBSET Node /\ "ACK" \in MessageType
      BY NodeFacts DEF MessageType
    <2> QED
      BY <1>1, <1>2, <2>1, TypeSends
  <1> QED
    BY <1>1, <1>3, <1>4, <1>5, <1>6
       DEF ReceiveTransfer, TypeInv, TypeOK, protocol, accounts, events

LEMMA TypeReceiveStop ==
  ASSUME TypeInv, NEW p \in Node, NEW q \in Node, ReceiveStop(p, q)
  PROVE  TypeInv'
  <1>1. TypeOK /\ Takes(p, q, "STOP") /\ now \in Nat
    BY DEF ReceiveStop, TypeInv, TypeOK
  <1>2. /\ channel' \in [Node -> [Node -> Seq(Frame)]] /\ Received(p, q).type = "STOP"
        /\ p \in Worker /\ AcceptsByWorker(p, q, Received(p, q))
    BY <1>1, TakesWhen
  <1>3. FitsHistory(now)
    BY <1>2 DEF AcceptsByWorker
  <1>4. ledger' \in [Worker -> History]
    <2>1. Extend(ledger[p], now) \in History
      BY <1>1, <1>2, <1>3, ExtendType DEF TypeOK
    <2> QED
      BY <1>1, <2>1 DEF TypeOK, ReceiveStop
  <1>5. outbox' \in [Node -> {Idle} \cup Output]
    <2>1. Node \ {p} \in SUBSET Node /\ "DONE" \in MessageType
      BY DEF MessageType
    <2>2. Sends(p, "DONE", Nothing, Node \ {p})
      BY DEF ReceiveStop
    <2> QED
      BY <1>1, <2>1, <2>2, TypeSends
  <1> QED
    BY <1>1, <1>2, <1>4, <1>5
       DEF ReceiveStop, TypeInv, TypeOK, protocol, accounts, events

LEMMA TypeReceiveDone ==
  ASSUME TypeInv, NEW p \in Node, NEW q \in Node, ReceiveDone(p, q)
  PROVE  TypeInv'
  <1>1. TypeOK /\ Takes(p, q, "DONE") /\ p \in Worker
    BY DEF ReceiveDone, TypeInv
  <1>2. /\ channel' \in [Node -> [Node -> Seq(Frame)]] /\ Received(p, q).type = "DONE"
        /\ pc[p] = "serving" => AcceptsByWorker(p, q, Received(p, q))
        /\ pc[p] \in {"serving", "collecting"} /\ (pc[p] = "collecting" => q \in Worker)
    BY <1>1, TakesWhen
  <1>3. q \in Worker
    BY <1>2, NodeFacts DEF AcceptsByWorker
  <1> QED
    BY <1>1, <1>2, <1>3
       DEF ReceiveDone, TypeInv, TypeOK, protocol, accounts, events

-----------------------------------------------------------------------------
(* The other actions of a node. *)

LEMMA TypeReportHistory ==
  ASSUME TypeInv, NEW p \in Worker, ReportHistory(p)
  PROVE  TypeInv'
  <1>1. TypeOK /\ p \in Node /\ p # PARENT_ID /\ FitsHistory(now) /\ now \in Nat
    BY NodeFacts DEF ReportHistory, TypeInv, TypeOK
  <1>2. ledger' \in [Worker -> History] /\ ledger'[p] \in History
    <2>1. Extend(ledger[p], now) \in History
      BY <1>1, ExtendType DEF TypeOK
    <2> QED
      BY <1>1, <2>1 DEF TypeOK, ReportHistory
  <1>3. outbox' \in [Node -> {Idle} \cup Output]
    <2>1. Sends(p, "BALANCE_HISTORY", ledger'[p], {PARENT_ID})
      BY DEF ReportHistory
    <2>2. {PARENT_ID} \in SUBSET Node /\ "BALANCE_HISTORY" \in MessageType
      BY NodeFacts DEF MessageType
    <2> QED
      BY <1>1, <1>2, <2>1, <2>2, TypeSends
  <1>4. pc' \in [Node -> State] /\ pc'[PARENT_ID] = pc[PARENT_ID]
    BY <1>1, NodeFacts DEF ReportHistory, Goto, TypeOK, State
  <1> QED
    BY <1>1, <1>2, <1>3, <1>4
       DEF ReportHistory, TypeInv, TypeOK, protocol, accounts, events

LEMMA TypeNode ==
  ASSUME TypeInv, NEW p \in Node, NodeNext(p)
  PROVE  TypeInv'
  <1> USE DEF protocol, accounts, events
  <1>1. TypeOK
    BY DEF TypeInv
  <1>2. CASE AnnounceStarted(p)
    <2>1. Sends(p, "STARTED", Nothing, Node \ {p}) /\ p \in Worker /\ p # PARENT_ID
      BY <1>1, <1>2, NodeFacts DEF AnnounceStarted, TypeOK
    <2>2. outbox' \in [Node -> {Idle} \cup Output]
      <3>1. "STARTED" \in MessageType /\ Node \ {p} \in SUBSET Node
        BY DEF MessageType
      <3> QED
        BY <1>1, <2>1, <3>1, TypeSends
    <2>3. pc' \in [Node -> State] /\ pc'[PARENT_ID] = pc[PARENT_ID]
      BY <1>1, <1>2, <2>1, NodeFacts DEF AnnounceStarted, Goto, TypeOK, State
    <2> QED
      BY <1>1, <1>2, <2>2, <2>3 DEF AnnounceStarted, TypeInv, TypeOK
  <1>3. CASE PassStarted(p)
    <2> DEFINE state == IF p = PARENT_ID THEN "robbing" ELSE "serving"
    <2>1. /\ state \in State
          /\ p = PARENT_ID =>
               state \notin {"unborn", "serving", "reporting", "acking", "gathering"}
      BY DEF State
    <2>2. Goto(p, state) /\ UNCHANGED <<now, channel, outbox, protocol, accounts>>
      BY <1>3 DEF PassStarted
    <2> HIDE DEF state
    <2> QED
      BY <2>1, <2>2, TypeGoto
  <1>4. CASE p \in Worker /\ ReportHistory(p)
    BY <1>4, TypeReportHistory
  <1>5. CASE ExitChild(p)
    <2>1. "exited" \in State
      BY DEF State, Lifecycle, Over
    <2>2. Goto(p, "exited") /\ UNCHANGED <<now, channel, outbox, protocol, accounts>>
      BY <1>5 DEF ExitChild
    <2> QED
      BY <2>1, <2>2, TypeGoto
  <1>6. ASSUME NEW q \in Node \ {p}, AwaitStarted(p, q)
        PROVE  TypeInv'
    <2>1. Takes(p, q, "STARTED")
      BY <1>6 DEF AwaitStarted
    <2>2. channel' \in [Node -> [Node -> Seq(Frame)]] /\ peer[p] \in Worker /\ pc[p] = "starting"
      BY <1>1, <2>1, TakesWhen
    <2>3. peer' \in [Node -> 1..(Children + 2)]
      BY <1>1, <1>6, <2>2, TypeNextPeer DEF AwaitStarted
    <2>4. p # PARENT_ID => peer'[PARENT_ID] = peer[PARENT_ID]
      BY <1>1, <1>6, NodeFacts DEF AwaitStarted, ToNextPeer, TypeOK
    <2> QED
      BY <1>1, <1>6, <2>2, <2>3, <2>4 DEF AwaitStarted, TypeInv, TypeOK
  <1>7. ASSUME NEW q \in Node \ {p},
               \/ WriteFrame(p, q) \/ ReceiveOrder(p, q) \/ ReceiveTransfer(p, q)
               \/ ReceiveStop(p, q) \/ ReceiveDone(p, q)
        PROVE  TypeInv'
    BY <1>7, TypeWrite, TypeReceiveOrder, TypeReceiveTransfer, TypeReceiveStop, TypeReceiveDone
  <1>8. CASE \/ PeersClosed(p) \/ Refuse(p)
             \/ \E q \in Node \ {p} : BrokenPipe(p, q) \/ RejectFrame(p, q)
    BY <1>8, TypeFatal DEF PeersClosed, Refuse, BrokenPipe, RejectFrame
  <1> QED
    BY <1>2, <1>3, <1>4, <1>5, <1>6, <1>7, <1>8 DEF NodeNext

LEMMA PassedAll ==
  TypeOK /\ peer[PARENT_ID] > Children => \A q \in Worker : q < peer[PARENT_ID]
  BY NodeFacts DEF TypeOK, Worker

LEMMA TypeFinishHistories == TypeInv /\ FinishHistories => TypeInv'
  <1> SUFFICES ASSUME TypeInv, FinishHistories PROVE TypeInv'
    OBVIOUS
  <1> DEFINE h == Horizon(history, Worker)
  <1>1. \A q \in Worker : history[q] \in History
    BY PassedAll DEF FinishHistories, PastTheLast, TypeInv
  <1>2. h \in Nat /\ FitsHistory(h)
    BY <1>1, HorizonFacts
  <1>3. history' = [q \in Worker |-> Extend(history[q], h)]
    BY DEF FinishHistories
  <1> HIDE DEF h
  <1>4. history' \in [Worker -> {Nothing} \cup History]
    BY <1>1, <1>2, <1>3, ExtendType
  <1>5. pc' \in [Node -> State] /\ pc'[PARENT_ID] = "reaping"
    BY NodeFacts DEF FinishHistories, Goto, TypeInv, TypeOK, State, Lifecycle
  <1> QED
    BY <1>4, <1>5 DEF FinishHistories, TypeInv, TypeOK, protocol, events

LEMMA TypeParent ==
  ASSUME TypeInv, ParentNext
  PROVE  TypeInv'
  <1> USE DEF protocol, accounts, events
  <1>1. TypeOK /\ PARENT_ID \in Node
    BY NodeFacts DEF TypeInv, TypeOK
  <1>2. {"TRANSFER", "STOP"} \subseteq MessageType /\ Worker \in SUBSET Node
    BY NodeFacts DEF MessageType
  <1>3. Len(Orders) \in Nat
    BY Pa2Assumption, LenProperties
  <1>4. CASE RequestTransfer
    <2> DEFINE order == Orders[next]
    <2>1. /\ Sends(PARENT_ID, "TRANSFER", <<order>>, {order.src})
          /\ ValidOrder(order) /\ next <= Len(Orders)
      BY <1>4 DEF RequestTransfer, MoreOrders
    <2>2. order \in TransferOrder
      BY <1>1, <1>3, <2>1, Pa2Assumption, ElementOfSeq DEF TypeOK
    <2> HIDE DEF order
    <2>3. <<order>> \in OneOrder /\ {order.src} \in SUBSET Node
      BY <2>1, <2>2, OneOrderType, OrderFacts, NodeFacts
    <2>4. outbox' \in [Node -> {Idle} \cup Output]
      BY <1>1, <1>2, <2>1, <2>3, TypeSends
    <2>5. pc' \in [Node -> State] /\ pc'[PARENT_ID] = "acking"
      BY <1>1, <1>4 DEF RequestTransfer, Goto, TypeOK, State
    <2> QED
      BY <1>1, <1>4, <2>1, <2>4, <2>5 DEF RequestTransfer, TypeInv, TypeOK
  <1>5. CASE BroadcastStop
    <2>1. Sends(PARENT_ID, "STOP", Nothing, Worker)
      BY <1>5 DEF BroadcastStop
    <2>2. outbox' \in [Node -> {Idle} \cup Output]
      BY <1>1, <1>2, <2>1, TypeSends
    <2>3. pc' \in [Node -> State] /\ pc'[PARENT_ID] = "collecting"
      BY <1>1, <1>5 DEF BroadcastStop, Goto, TypeOK, State
    <2>4. peer' \in [Node -> 1..(Children + 2)]
      BY <1>1, <1>5, NodeFacts DEF BroadcastStop, TypeOK
    <2> QED
      BY <1>1, <1>5, <2>2, <2>3, <2>4 DEF BroadcastStop, TypeInv, TypeOK
  <1>6. CASE AllDone
    <2>1. pc' \in [Node -> State] /\ pc'[PARENT_ID] = "gathering"
      BY <1>1, <1>6 DEF AllDone, Goto, TypeOK, State
    <2>2. peer' \in [Node -> 1..(Children + 2)] /\ peer'[PARENT_ID] = 1
      BY <1>1, <1>6, NodeFacts DEF AllDone, TypeOK
    <2>3. \A q \in Worker : ~(q < 1)
      BY NodeFacts DEF Worker
    <2> QED
      BY <1>1, <1>6, <2>1, <2>2, <2>3 DEF AllDone, TypeInv, TypeOK
  <1>7. CASE FinishHistories
    BY <1>7, TypeFinishHistories
  <1>8. ASSUME NEW q \in Worker, AwaitAck(q)
        PROVE  TypeInv'
    <2>1. Takes(PARENT_ID, q, "ACK") /\ q \in Node
      BY <1>8, NodeFacts DEF AwaitAck
    <2>2. channel' \in [Node -> [Node -> Seq(Frame)]] /\ pc[PARENT_ID] = "acking"
      BY <1>1, <2>1, TakesWhen
    <2>3. next' \in 1..(Len(Orders) + 1)
      BY <1>1, <1>3, <1>8, <2>2 DEF AwaitAck, TypeInv, TypeOK
    <2>4. pc' \in [Node -> State] /\ pc'[PARENT_ID] = "robbing"
      BY <1>1, <1>8 DEF AwaitAck, Goto, TypeOK, State
    <2> QED
      BY <1>1, <1>8, <2>2, <2>3, <2>4 DEF AwaitAck, TypeInv, TypeOK
  <1>9. ASSUME NEW q \in Worker, AwaitDone(q) \/ AwaitHistory(q)
        PROVE  TypeInv'
    <2>1. PICK type \in {"DONE", "BALANCE_HISTORY"} :
            /\ Takes(PARENT_ID, q, type)
            /\ type = "DONE" => AwaitDone(q)
            /\ type = "BALANCE_HISTORY" => AwaitHistory(q)
      BY <1>9 DEF AwaitDone, AwaitHistory
    <2>2. q \in Node /\ pc[PARENT_ID] # "serving"
      BY <1>1, NodeFacts DEF TypeOK
    <2>3. /\ channel' \in [Node -> [Node -> Seq(Frame)]]
          /\ Received(PARENT_ID, q) \in Frame /\ Received(PARENT_ID, q).type = type
          /\ type = "DONE" => pc[PARENT_ID] = "collecting"
          /\ type = "BALANCE_HISTORY" => pc[PARENT_ID] = "gathering"
          /\ q = peer[PARENT_ID]
      BY <1>1, <2>1, <2>2, TakesWhen
    <2>4. peer' \in [Node -> 1..(Children + 2)]
      BY <1>1, <1>9, <2>3, TypeNextPeer DEF AwaitDone, AwaitHistory
    <2>5. CASE type = "DONE"
      BY <1>1, <2>1, <2>3, <2>4, <2>5 DEF AwaitDone, TypeInv, TypeOK
    <2>6. CASE type = "BALANCE_HISTORY"
      <3>1. history' = [history EXCEPT ![q] = Received(PARENT_ID, q).payload]
            /\ Received(PARENT_ID, q).payload \in History
        BY <2>1, <2>3, <2>6, FrameFacts DEF AwaitHistory
      <3>2. peer'[PARENT_ID] = q + 1
        BY <1>1, <2>1, <2>2, <2>3, <2>6, NodeFacts
           DEF AwaitHistory, ToNextPeer, PeerFrom, TypeOK, PARENT_ID
      <3>3. history' \in [Worker -> {Nothing} \cup History]
            /\ \A a \in Worker : history'[a] = IF a = q THEN Received(PARENT_ID, q).payload
                                               ELSE history[a]
        BY <1>1, <3>1 DEF TypeOK
      <3>4. \A a \in Worker : a < q + 1 => a = q \/ a < q
        BY NodeFacts
      <3>5. \A a \in Worker : a < peer'[PARENT_ID] => history'[a] \in History
        BY <2>3, <3>1, <3>2, <3>3, <3>4, <2>6 DEF TypeInv
      <3>6. UNCHANGED <<pc, now, outbox, next, stopped, done, ledger, outgoing, incoming>>
        BY <2>1, <2>6 DEF AwaitHistory
      <3> QED
        BY <1>1, <2>3, <2>4, <3>3, <3>5, <3>6 DEF TypeInv, TypeOK
    <2> QED
      BY <2>1, <2>5, <2>6
  <1> QED
    BY <1>4, <1>5, <1>6, <1>7, <1>8, <1>9 DEF ParentNext

LEMMA TypeStep == TypeInv /\ [Next]_vars => TypeInv'
  <1> SUFFICES ASSUME TypeInv, [Next]_vars PROVE TypeInv'
    OBVIOUS
  <1>1. CASE \E p \in Node : NodeNext(p)
    BY <1>1, TypeNode
  <1>2. CASE ParentNext
    BY <1>2, TypeParent
  <1>3. CASE Supervision \/ Signals
    <2>1. \E n \in Node, state \in {"starting", "boot", "stopping", "aborting", "exited",
                                    "failed", "killed"} : Goto(n, state)
      BY <1>3, NodeFacts
         DEF Supervision, Signals, AllForked, Fork, RefusedFork, ChildFailed, StopWorker,
             ReapInTurn, Reap, Kill
    <2>2. UNCHANGED <<now, channel, outbox, protocol, accounts>>
      BY <1>3 DEF Supervision, Signals
    <2>3. {"starting", "boot", "stopping", "aborting", "exited", "failed", "killed"}
            \subseteq State \ {"unborn", "serving", "reporting", "acking", "gathering"}
      BY DEF State, Lifecycle, Over
    <2> QED
      BY <2>1, <2>2, <2>3, TypeGoto
  <1>4. CASE Tick
    BY <1>4 DEF Tick, TypeInv, TypeOK, protocol, accounts, events
  <1>5. CASE UNCHANGED vars
    BY <1>5 DEF vars, TypeInv, TypeOK, protocol, accounts, events
  <1> QED
    BY <1>1, <1>2, <1>3, <1>4, <1>5 DEF Next

(* Every variable keeps its type, whatever the constants: the checks before   *)
(* the bookings of apply_transfer and before every extension of a history     *)
(* keep every balance and the length of every history within its C type, also *)
(* in what is sent and in the table that is printed.                          *)
THEOREM TypeCorrect == Spec => []TypeOK
  <1>1. TypeInv => TypeOK
    BY DEF TypeInv
  <1> QED
    BY <1>1, TypeInit, TypeStep, PTL DEF Spec

-----------------------------------------------------------------------------
(* The frame p is about to write; the frames from p to q, in their order: the *)
(* ones in the pipe and the one to be written; and as a set.                  *)
Sending(p) == [type |-> outbox[p].type, payload |-> outbox[p].payload]
Way(p, q) == IF q \in outbox[p].to THEN Append(channel[p][q], Sending(p)) ELSE channel[p][q]
Frames(p, q) == Range(Way(p, q))

(* A node sends STARTED first, then transfers or acknowledgements, then DONE *)
(* or STOP, and last its history.                                            *)
Rank(m) ==
  CASE m.type = "STARTED" -> 1
    [] m.type \in {"TRANSFER", "ACK"} -> 2
    [] m.type \in {"DONE", "STOP"} -> 3
    [] OTHER -> 4

Ascending(s) == \A i, j \in DOMAIN s : i < j => Rank(s[i]) < Rank(s[j])

-----------------------------------------------------------------------------
(* Ways in a step: n sends f to some, after taking the first frame from q or *)
(* not.                                                                      *)

Sent(n, f, to) ==
  \A a, b \in Node :
    Way(a, b)' = IF a = n /\ b \in to THEN Append(Way(a, b), f) ELSE Way(a, b)

Took(n, q, f, to) ==
  \A a, b \in Node :
    Way(a, b)' = IF a = n /\ b \in to THEN Append(Way(a, b), f)
                 ELSE IF a = q /\ b = n THEN Tail(Way(a, b)) ELSE Way(a, b)

Silent == \A a, b \in Node : Frames(a, b)' = Frames(a, b)

Gives(n, f, to) ==
  \A a, b \in Node :
    Frames(a, b)' = IF a = n /\ b \in to THEN Frames(a, b) \cup {f} ELSE Frames(a, b)

Gets(n, q, m, f, to) ==
  /\ m \in Frames(q, n)
  /\ \A x \in Frames(q, n) \ {m} : Rank(m) < Rank(x)
  /\ \A a, b \in Node :
       Frames(a, b)' = IF a = n /\ b \in to THEN Frames(a, b) \cup {f}
                       ELSE IF a = q /\ b = n THEN Frames(a, b) \ {m} ELSE Frames(a, b)

OrderInv == \A a, b \in Node : Ascending(Way(a, b))

LEMMA RankFacts == \A m : Rank(m) \in 1..4
  BY DEF Rank

LEMMA AppendFrame ==
  ASSUME NEW s \in Seq(Frame), NEW f \in Frame
  PROVE  /\ Range(Append(s, f)) = Range(s) \cup {f}
         /\ Ascending(s) /\ (\A x \in Range(s) : Rank(x) < Rank(f)) => Ascending(Append(s, f))
  <1> DEFINE t == Append(s, f)
  <1>1. /\ Len(s) \in Nat /\ DOMAIN s = 1..Len(s) /\ DOMAIN t = 1..(Len(s) + 1)
        /\ t[Len(s) + 1] = f /\ \A i \in 1..Len(s) : t[i] = s[i]
    BY AppendProperties
  <1> HIDE DEF t
  <1>2. Range(t) = Range(s) \cup {f}
    BY <1>1 DEF Range
  <1>3. Ascending(s) /\ (\A x \in Range(s) : Rank(x) < Rank(f)) => Ascending(t)
    BY <1>1 DEF Range, Ascending
  <1> QED
    BY <1>2, <1>3 DEF t

LEMMA TakeFrame ==
  ASSUME NEW s \in Seq(Frame), s # <<>>, Ascending(s)
  PROVE  /\ Head(s) \in Range(s)
         /\ Range(Tail(s)) = Range(s) \ {Head(s)}
         /\ \A x \in Range(s) \ {Head(s)} : Rank(Head(s)) < Rank(x)
         /\ Ascending(Tail(s))
  <1> DEFINE t == Tail(s)
             h == Head(s)
  <1>1. /\ Len(s) \in Nat \ {0} /\ DOMAIN s = 1..Len(s) /\ DOMAIN t = 1..(Len(s) - 1)
        /\ s[1] = h /\ \A i \in 1..(Len(s) - 1) : t[i] = s[i + 1]
    BY HeadTailProperties, EmptySeq, LenProperties
  <1> HIDE DEF t, h
  <1>2. \A i \in DOMAIN s : i # 1 => Rank(h) < Rank(s[i]) /\ s[i] = t[i - 1] /\ i - 1 \in DOMAIN t
    BY <1>1 DEF Ascending
  <1>3. \A i \in DOMAIN s : i # 1 => s[i] # h
    BY <1>1, <1>2, RankFacts
  <1>4. h \in Range(s) /\ Range(t) = Range(s) \ {h}
    <2>1. Range(s) \ {h} \subseteq Range(t)
      BY <1>1, <1>2 DEF Range
    <2>2. ASSUME NEW i \in DOMAIN t PROVE t[i] \in Range(s) \ {h}
      <3>1. i + 1 \in DOMAIN s /\ t[i] = s[i + 1] /\ i + 1 # 1
        BY <1>1
      <3> QED
        BY <1>3, <3>1 DEF Range
    <2>3. Range(t) \subseteq Range(s) \ {h}
      BY <2>2 DEF Range
    <2>4. h \in Range(s)
      BY <1>1 DEF Range
    <2> QED
      BY <2>1, <2>3, <2>4
  <1>5. \A x \in Range(s) \ {h} : Rank(h) < Rank(x)
    BY <1>1, <1>2 DEF Range
  <1>6. Ascending(t)
    BY <1>1 DEF Ascending
  <1> QED
    BY <1>4, <1>5, <1>6 DEF t, h

LEMMA WayType ==
  ASSUME TypeOK, NEW a \in Node, NEW b \in Node
  PROVE  /\ Way(a, b) \in Seq(Frame) /\ channel[a][b] \in Seq(Frame)
         /\ Frames(a, b) \subseteq Frame
  <1>1. channel[a][b] \in Seq(Frame)
    BY DEF TypeOK
  <1>2. b \in outbox[a].to => Sending(a) \in Frame
    <2>1. SUFFICES ASSUME b \in outbox[a].to PROVE Sending(a) \in Frame
      OBVIOUS
    <2>2. outbox[a] \in Output
      BY <2>1 DEF TypeOK, Idle
    <2>3. Fits(Sending(a))
      BY <2>2 DEF Output, Fits, Sending
    <2> QED
      BY <2>2, <2>3 DEF Output, Frame, Sending
  <1>3. Way(a, b) \in Seq(Frame)
    BY <1>1, <1>2, AppendProperties DEF Way
  <1> QED
    BY <1>1, <1>3 DEF Frames, Range

(* Before n sends, its ways are its pipes. *)
Puts(n, f, to) ==
  \A a, b \in Node :
    Way(a, b)' = IF a = n
                 THEN IF b \in to THEN Append(channel'[n][b], f) ELSE channel'[n][b]
                 ELSE IF b \in outbox[a].to THEN Append(channel'[a][b], Sending(a))
                      ELSE channel'[a][b]

LEMMA WaySends ==
  ASSUME TypeOK, NEW n \in Node, NEW type, NEW payload, NEW to, Sends(n, type, payload, to)
  PROVE  Puts(n, [type |-> type, payload |-> payload], to)
  <1> DEFINE f == [type |-> type, payload |-> payload]
  <1>1. outbox' = [outbox EXCEPT ![n] = ToWrite(type, payload, to)]
    BY DEF Sends
  <1> SUFFICES ASSUME NEW a \in Node, NEW b \in Node
      PROVE  Way(a, b)' =
               IF a = n
               THEN IF b \in to THEN Append(channel'[n][b], f) ELSE channel'[n][b]
               ELSE IF b \in outbox[a].to THEN Append(channel'[a][b], Sending(a))
                    ELSE channel'[a][b]
    BY DEF Puts
  <1>2. CASE a # n
    BY <1>1, <1>2 DEF TypeOK, Way, Sending
  <1>3. CASE a = n
    <2>1. outbox'[n] = ToWrite(type, payload, to)
      BY <1>1 DEF TypeOK
    <2> QED
      BY <1>3, <2>1 DEF Way, Sending, ToWrite, Idle
  <1> QED
    BY <1>2, <1>3

LEMMA WayStays ==
  ASSUME TypeOK, NEW n \in Node, ~Writing(n), NEW f, UNCHANGED outbox
  PROVE  Puts(n, f, {})
  <1> SUFFICES ASSUME NEW a \in Node, NEW b \in Node
      PROVE  Way(a, b)' =
               IF a = n THEN channel'[n][b]
               ELSE IF b \in outbox[a].to THEN Append(channel'[a][b], Sending(a))
                    ELSE channel'[a][b]
    BY DEF Puts
  <1>1. CASE a # n
    BY <1>1 DEF TypeOK, Way, Sending
  <1>2. CASE a = n
    BY <1>2 DEF Writing, Way
  <1> QED
    BY <1>1, <1>2

LEMMA PutsSent ==
  ASSUME NEW n \in Node, NEW f, NEW to, Puts(n, f, to), ~Writing(n), UNCHANGED channel
  PROVE  Sent(n, f, to)
  <1>1. \A b \in Node : Way(n, b) = channel[n][b]
    BY DEF Way, Writing
  <1> QED
    BY <1>1 DEF Puts, Sent, Way

LEMMA PutsTook ==
  ASSUME TypeOK, NEW n \in Node, NEW q \in Node \ {n}, NEW any, Takes(n, q, any),
         NEW f, NEW to, Puts(n, f, to)
  PROVE  /\ Took(n, q, f, to)
         /\ Way(q, n) # <<>> /\ Received(n, q) = Head(Way(q, n))
  <1> DEFINE s == channel[q][n]
  <1>1. ~Writing(n) /\ s # <<>> /\ channel' = [channel EXCEPT ![q][n] = Tail(s)]
    BY DEF Takes, Reading
  <1>2. s \in Seq(Frame)
    BY DEF TypeOK
  <1>3. \A b \in Node : Way(n, b) = channel[n][b]
    BY <1>1 DEF Way, Writing
  <1>4. /\ Way(q, n) # <<>> /\ Received(n, q) = Head(Way(q, n))
        /\ Tail(Way(q, n)) = IF n \in outbox[q].to THEN Append(Tail(s), Sending(q)) ELSE Tail(s)
    <2> HIDE DEF s
    <2>1. \A x : /\ Append(s, x) # <<>> /\ Head(Append(s, x)) = Head(s)
                 /\ Tail(Append(s, x)) = Append(Tail(s), x)
      BY <1>1, <1>2
    <2>2. Way(q, n) = IF n \in outbox[q].to THEN Append(s, Sending(q)) ELSE s
      BY DEF Way, s
    <2>3. Received(n, q) = Head(s)
      BY DEF Received, s
    <2> QED
      BY <1>1, <2>1, <2>2, <2>3
  <1>5. \A a, b \in Node : channel'[a][b] = IF a = q /\ b = n THEN Tail(s) ELSE channel[a][b]
    BY <1>1 DEF TypeOK
  <1>6. ASSUME NEW a \in Node, NEW b \in Node
        PROVE  Way(a, b)' = IF a = n /\ b \in to THEN Append(Way(a, b), f)
                            ELSE IF a = q /\ b = n THEN Tail(Way(a, b)) ELSE Way(a, b)
    <2>1. Way(a, b)' =
           IF a = n THEN IF b \in to THEN Append(channel'[n][b], f) ELSE channel'[n][b]
           ELSE IF b \in outbox[a].to THEN Append(channel'[a][b], Sending(a)) ELSE channel'[a][b]
      BY DEF Puts
    <2>2. CASE a = n
      BY <1>3, <1>5, <2>1, <2>2
    <2>3. CASE a = q /\ b = n
      BY <1>4, <1>5, <2>1, <2>3
    <2>4. CASE a # n /\ ~(a = q /\ b = n)
      <3>1. channel'[a][b] = channel[a][b]
        BY <1>5, <2>4
      <3> QED
        BY <2>1, <2>4, <3>1 DEF Way
    <2> QED
      BY <2>2, <2>3, <2>4
  <1> QED
    BY <1>4, <1>6 DEF Took

(* What steps do to the frames under way. *)

LEMMA GivesFrame ==
  ASSUME TypeOK, OrderInv, NEW n \in Node, NEW f \in Frame, NEW to, Sent(n, f, to),
         \A b \in Node : b \in to => \A x \in Frames(n, b) : Rank(x) < Rank(f)
  PROVE  Gives(n, f, to) /\ OrderInv'
  <1>1. ASSUME NEW a \in Node, NEW b \in Node
        PROVE  /\ Frames(a, b)' = IF a = n /\ b \in to THEN Frames(a, b) \cup {f} ELSE Frames(a, b)
               /\ Ascending(Way(a, b))'
    <2>1. Way(a, b)' = IF a = n /\ b \in to THEN Append(Way(a, b), f) ELSE Way(a, b)
      BY DEF Sent
    <2>2. Way(a, b) \in Seq(Frame) /\ Ascending(Way(a, b))
      BY WayType DEF OrderInv
    <2>3. CASE a = n /\ b \in to
      <3>1. Frames(a, b) = Range(Way(a, b)) /\ Frames(a, b)' = Range(Way(a, b)')
        BY DEF Frames
      <3>2. \A x \in Range(Way(a, b)) : Rank(x) < Rank(f)
        BY <2>3, <3>1
      <3>3. Ascending(Way(a, b))' <=> Ascending(Way(a, b)')
        BY DEF Ascending, Rank
      <3> QED
        BY <2>1, <2>2, <2>3, <3>1, <3>2, <3>3, AppendFrame
    <2>4. CASE ~(a = n /\ b \in to)
      BY <2>1, <2>2, <2>4 DEF Frames, Ascending, Rank, Range
    <2> QED
      BY <2>3, <2>4
  <1> QED
    BY <1>1 DEF Gives, OrderInv

LEMMA GetsFrame ==
  ASSUME TypeOK, OrderInv, NEW n \in Node, NEW q \in Node \ {n}, NEW f, NEW to,
         Took(n, q, f, to), Way(q, n) # <<>>,
         to # {} => f \in Frame,
         \A b \in Node : b \in to => \A x \in Frames(n, b) : Rank(x) < Rank(f)
  PROVE  Gets(n, q, Head(Way(q, n)), f, to) /\ OrderInv'
  <1> DEFINE m == Head(Way(q, n))
  <1>1. /\ m \in Frames(q, n) /\ Range(Tail(Way(q, n))) = Frames(q, n) \ {m}
        /\ \A x \in Frames(q, n) \ {m} : Rank(m) < Rank(x)
        /\ Ascending(Tail(Way(q, n)))
    <2>1. Way(q, n) \in Seq(Frame) /\ Ascending(Way(q, n))
      BY WayType DEF OrderInv
    <2> QED
      BY <2>1, TakeFrame DEF Frames
  <1>2. ASSUME NEW a \in Node, NEW b \in Node
        PROVE  /\ Frames(a, b)' = IF a = n /\ b \in to THEN Frames(a, b) \cup {f}
                       ELSE IF a = q /\ b = n THEN Frames(a, b) \ {m} ELSE Frames(a, b)
               /\ Ascending(Way(a, b))'
    <2>1. Way(a, b)' = IF a = n /\ b \in to THEN Append(Way(a, b), f)
                       ELSE IF a = q /\ b = n THEN Tail(Way(a, b)) ELSE Way(a, b)
      BY DEF Took
    <2>2. Way(a, b) \in Seq(Frame) /\ Ascending(Way(a, b))
      BY WayType DEF OrderInv
    <2>3. Frames(a, b) = Range(Way(a, b)) /\ Frames(a, b)' = Range(Way(a, b)')
      BY DEF Frames
    <2>4. Ascending(Way(a, b))' <=> Ascending(Way(a, b)')
      BY DEF Ascending, Rank
    <2>5. CASE a = n /\ b \in to
      <3>1. \A x \in Range(Way(a, b)) : Rank(x) < Rank(f)
        BY <2>3, <2>5
      <3>2. f \in Frame
        BY <2>5
      <3> QED
        BY <2>1, <2>2, <2>3, <2>4, <2>5, <3>1, <3>2, AppendFrame
    <2>6. CASE a = q /\ b = n
      BY <1>1, <2>1, <2>3, <2>4, <2>6
    <2>7. CASE ~(a = n /\ b \in to) /\ ~(a = q /\ b = n)
      BY <2>1, <2>2, <2>3, <2>4, <2>7
    <2> QED
      BY <2>5, <2>6, <2>7
  <1> QED
    BY <1>1, <1>2 DEF Gets, OrderInv

(* The tail of a multicast was under way already. *)
LEMMA WriteSilent ==
  ASSUME TypeOK, NEW n \in Node, NEW q \in Node, WriteFrame(n, q)
  PROVE  \A a, b \in Node : Way(a, b)' = Way(a, b)
  <1>1. /\ q \in outbox[n].to
        /\ channel' = [channel EXCEPT ![n][q] = Append(channel[n][q], Sending(n))]
        /\ outbox' = [outbox EXCEPT ![n] =
                        ToWrite(outbox[n].type, outbox[n].payload, outbox[n].to \ {q})]
    BY DEF WriteFrame, NextTarget, Sending
  <1> SUFFICES ASSUME NEW a \in Node, NEW b \in Node PROVE Way(a, b)' = Way(a, b)
    OBVIOUS
  <1>2. CASE a # n
    BY <1>1, <1>2 DEF TypeOK, Way, Sending
  <1>3. CASE a = n
    <2>1. channel'[n][b] = IF b = q THEN Append(channel[n][q], Sending(n)) ELSE channel[n][b]
      BY <1>1 DEF TypeOK
    <2>2. outbox'[n] = ToWrite(outbox[n].type, outbox[n].payload, outbox[n].to \ {q})
      BY <1>1 DEF TypeOK
    <2>3. /\ outbox'[n].to = outbox[n].to \ {q}
          /\ outbox'[n].to # {} => Sending(n)' = Sending(n)
      BY <1>1, <2>2 DEF ToWrite, Idle, Sending
    <2>4. CASE b = q
      BY <1>1, <1>3, <2>1, <2>3, <2>4 DEF Way
    <2>5. CASE b # q
      <3>1. /\ b \in outbox'[n].to <=> b \in outbox[n].to
            /\ b \in outbox'[n].to => Sending(n)' = Sending(n)
            /\ channel'[n][b] = channel[n][b]
        BY <2>1, <2>3, <2>5
      <3>2. Way(n, b)' = Way(n, b)
        BY <3>1 DEF Way
      <3> QED
        BY <1>3, <3>2 DEF Way, Sending
    <2> QED
      BY <2>4, <2>5
  <1> QED
    BY <1>2, <1>3

LEMMA SilentFrames ==
  ASSUME OrderInv, \A a, b \in Node : Way(a, b)' = Way(a, b)
  PROVE  Silent /\ OrderInv'
  BY DEF Silent, OrderInv, Frames, Range, Ascending, Rank

-----------------------------------------------------------------------------
(* Where a node may go in a step, and what only grows. *)

Born(p) == pc[p] \notin {"unborn", "boot"}
Reported(p) == pc[p] \notin {"unborn", "boot", "starting", "serving"}
Passed == peer[PARENT_ID] > Children /\ ~Writing(PARENT_ID)

WorkerMoves(p) ==
  \/ pc'[p] = pc[p]
  \/ pc[p] = "unborn" /\ pc'[p] = "boot" /\ pc[PARENT_ID] = "boot"
  \/ pc[p] = "boot" /\ pc'[p] = "starting"
  \/ pc[p] = "starting" /\ pc'[p] = "serving"
  \/ pc[p] = "serving" /\ pc'[p] = "reporting" /\ p \in stopped /\ done[p] = Peers(p)
  \/ pc[p] = "reporting" /\ pc'[p] = "exited"
  \/ pc[p] \notin Over \cup {"unborn"} /\ pc'[p] \in {"failed", "killed"}

ParentMoves ==
  \/ pc'[PARENT_ID] = pc[PARENT_ID]
  \/ pc[PARENT_ID] = "boot" /\ pc'[PARENT_ID] = "starting"
  \/ pc[PARENT_ID] = "starting" /\ pc'[PARENT_ID] = "robbing" /\ Passed
  \/ pc[PARENT_ID] = "robbing" /\ pc'[PARENT_ID] = "acking"
  \/ pc[PARENT_ID] = "acking" /\ pc'[PARENT_ID] = "robbing" /\ ~Writing(PARENT_ID)
  \/ pc[PARENT_ID] = "robbing" /\ pc'[PARENT_ID] = "collecting" /\ ~MoreOrders
  \/ pc[PARENT_ID] = "collecting" /\ pc'[PARENT_ID] = "gathering" /\ Passed
  \/ pc[PARENT_ID] = "gathering" /\ pc'[PARENT_ID] = "reaping" /\ Passed
  \/ pc[PARENT_ID] = "reaping" /\ pc'[PARENT_ID] = "aborting"
  \/ pc[PARENT_ID] \notin Over /\ pc'[PARENT_ID] \in {"stopping", "killed"}
  \/ /\ pc[PARENT_ID] \in {"reaping", "stopping", "aborting"}
     /\ pc'[PARENT_ID] \in {"exited", "failed"}
     /\ \A p \in Worker : pc[p] \in Over \cup {"unborn"}
     /\ pc'[PARENT_ID] = "exited" =>
          pc[PARENT_ID] = "reaping" /\ \A p \in Worker : pc[p] = "exited"

PcMoves == ParentMoves /\ \A p \in Worker : WorkerMoves(p)

Grows ==
  /\ stopped \subseteq stopped'
  /\ \A p \in Worker : done[p] \subseteq done'[p]
  /\ \A p \in Worker : ledger'[p] = ledger[p] \/ pc[p] = "serving"

LEMMA FatalMoves ==
  ASSUME TypeOK, NEW n \in Node, Fatal(n), pc[n] \notin Over \cup {"unborn"}
  PROVE  PcMoves
  BY NodeFacts DEF Fatal, Fail, Goto, TypeOK, PcMoves, WorkerMoves, ParentMoves, Over

LEMMA StillMoves == UNCHANGED pc => PcMoves
  BY DEF PcMoves, WorkerMoves, ParentMoves

LEMMA ReadingMoves ==
  ASSUME TypeOK, NEW n \in Node, NEW q, q \in Awaited(n)
  PROVE  pc[n] \notin Over \cup {"unborn", "boot"}
  BY DEF Awaited, Over

LEMMA StepMoves == TypeOK /\ [Next]_vars => PcMoves
<1> SUFFICES ASSUME TypeOK, [Next]_vars PROVE PcMoves
  OBVIOUS
<1> USE NodeFacts
<1>1. ASSUME NEW n \in Node, NodeNext(n) PROVE PcMoves
  <2>1. CASE AnnounceStarted(n) \/ (n \in Worker /\ ExitChild(n))
    BY <2>1 DEF AnnounceStarted, ExitChild, Goto, TypeOK, PcMoves, WorkerMoves, ParentMoves
  <2>2. CASE PassStarted(n)
    BY <2>2 DEF PassStarted, PastTheLast, Passed, Goto, TypeOK, PcMoves, WorkerMoves, ParentMoves
  <2>3. CASE n \in Worker /\ ReportHistory(n)
    BY <2>3 DEF ReportHistory, Served, Goto, TypeOK, PcMoves, WorkerMoves, ParentMoves
  <2>4. ASSUME NEW q \in Node \ {n},
               \/ WriteFrame(n, q) \/ AwaitStarted(n, q) \/ ReceiveOrder(n, q)
               \/ ReceiveTransfer(n, q) \/ ReceiveStop(n, q) \/ ReceiveDone(n, q)
        PROVE  PcMoves
    BY <2>4, StillMoves
       DEF WriteFrame, AwaitStarted, ReceiveOrder, ReceiveTransfer, ReceiveStop, ReceiveDone
  <2>5. ASSUME NEW q \in Node \ {n}, BrokenPipe(n, q) PROVE PcMoves
    BY <2>5, FatalMoves DEF BrokenPipe, NextTarget, Closed
  <2>6. ASSUME NEW q \in Node \ {n}, RejectFrame(n, q) PROVE PcMoves
    BY <2>6, FatalMoves, ReadingMoves DEF RejectFrame, Reading
  <2>7. CASE PeersClosed(n)
    <3>1. PICK q : q \in Awaited(n)
      BY <2>7 DEF PeersClosed
    <3> QED
      BY <2>7, <3>1, FatalMoves, ReadingMoves DEF PeersClosed
  <2>8. CASE Refuse(n)
    BY <2>8, FatalMoves DEF Refuse, Served, Over
  <2> QED
    BY <1>1, <2>1, <2>2, <2>3, <2>4, <2>5, <2>6, <2>7, <2>8 DEF NodeNext
<1>2. CASE ParentNext
  <2>1. CASE RequestTransfer \/ BroadcastStop
    BY <2>1 DEF RequestTransfer, BroadcastStop, Robbing, Goto, TypeOK,
                PcMoves, WorkerMoves, ParentMoves
  <2>2. CASE AllDone \/ FinishHistories
    BY <2>2 DEF AllDone, FinishHistories, PastTheLast, Passed, Goto, TypeOK,
                PcMoves, WorkerMoves, ParentMoves
  <2>3. ASSUME NEW q \in Worker, AwaitAck(q) PROVE PcMoves
    <3>1. Takes(PARENT_ID, q, "ACK") /\ q \in Node
      BY <2>3 DEF AwaitAck
    <3>2. pc[PARENT_ID] = "acking"
      BY <3>1, TakesWhen
    <3> QED
      BY <2>3, <3>1, <3>2 DEF AwaitAck, Takes, Reading, Goto, TypeOK,
                              PcMoves, WorkerMoves, ParentMoves
  <2>4. ASSUME NEW q \in Worker, AwaitDone(q) \/ AwaitHistory(q) PROVE PcMoves
    BY <2>4, StillMoves DEF AwaitDone, AwaitHistory
  <2> QED
    BY <1>2, <2>1, <2>2, <2>3, <2>4 DEF ParentNext
<1>3. CASE Supervision
  <2>1. CASE AllForked \/ ReapInTurn
    BY <2>1 DEF AllForked, ReapInTurn, Reap, Goto, TypeOK, Over, PcMoves, WorkerMoves, ParentMoves
  <2>2. ASSUME NEW p \in Worker, Fork(p) \/ RefusedFork(p) \/ ChildFailed(p) \/ StopWorker(p)
        PROVE  PcMoves
    BY <2>2 DEF Fork, RefusedFork, ChildFailed, StopWorker, NextToFork, Goto, TypeOK, Over,
                PcMoves, WorkerMoves, ParentMoves
  <2> QED
    BY <1>3, <2>1, <2>2 DEF Supervision
<1>4. CASE Signals
  BY <1>4 DEF Signals, Kill, Goto, TypeOK, Over, PcMoves, WorkerMoves, ParentMoves
<1>5. CASE Tick \/ UNCHANGED vars
  BY <1>5, StillMoves DEF Tick, vars
<1> QED
  BY <1>1, <1>2, <1>3, <1>4, <1>5 DEF Next

-----------------------------------------------------------------------------
(* The inductive invariant of the protocol. *)

(* What a frame under way says of the node it comes from. *)
FrameOk(a, b, m) ==
  /\ a # b
  /\ a = PARENT_ID =>
       m.type \in {"TRANSFER", "STOP"} /\ pc[PARENT_ID] \notin {"boot", "starting"}
  /\ a \in Worker =>
       /\ Born(a)
       /\ m.type \in {"STARTED", "DONE"} \cup
            (IF b = PARENT_ID THEN {"ACK", "BALANCE_HISTORY"} ELSE {"TRANSFER"})
  /\ m.type = "DONE" => a \in stopped
  /\ m.type = "BALANCE_HISTORY" => Reported(a) /\ m.payload = ledger[a]

SenderInv == \A a, b \in Node : \A m \in Frames(a, b) : FrameOk(a, b, m)

(* What a node has heard of another says what is still to come from it. *)
DoneHeard(q) ==
  \/ pc[PARENT_ID] = "collecting" /\ q < peer[PARENT_ID]
  \/ pc[PARENT_ID] = "gathering"

HistoryHeard(q) ==
  \/ pc[PARENT_ID] = "gathering" /\ q < peer[PARENT_ID]
  \/ pc[PARENT_ID] \in {"reaping", "exited"}

ReceiverInv ==
  \A p \in Worker :
    /\ pc[p] \in {"unborn", "boot", "starting", "serving", "reporting"} \cup Over
    /\ \A q \in done[p] : q \in stopped /\ \A m \in Frames(q, p) : Rank(m) > 3
    /\ p \in stopped => \A m \in Frames(PARENT_ID, p) : Rank(m) > 3
    /\ pc[p] \in {"reporting", "exited"} => p \in stopped /\ done[p] = Peers(p)
    /\ DoneHeard(p) => p \in stopped /\ \A m \in Frames(p, PARENT_ID) : Rank(m) > 3
    /\ HistoryHeard(p) =>
         /\ Frames(p, PARENT_ID) = {} /\ Reported(p)
         /\ pc[PARENT_ID] = "gathering" => history[p] = ledger[p]

(* The phases of the parent. *)
AllBorn == \A q \in Worker : Born(q)

Started ==
  \/ pc[PARENT_ID] \in {"robbing", "acking", "collecting", "gathering", "reaping", "exited"}
  \/ outgoing # <<>> \/ stopped # {}
  \/ \E b \in Node : Frames(PARENT_ID, b) # {}

Stopping ==
  \/ stopped # {}
  \/ \E b \in Node : \E m \in Frames(PARENT_ID, b) : m.type = "STOP"
  \/ pc[PARENT_ID] \in {"collecting", "gathering", "reaping", "exited"}

Money(m) == m.type \in {"TRANSFER", "ACK"}
NoMoney == \A a, b \in Node : \A m \in Frames(a, b) : ~Money(m)

PhaseInv ==
  /\ pc[PARENT_ID] = "robbing" => ~Writing(PARENT_ID)
  /\ pc[PARENT_ID] \in {"boot", "starting"} => \A q \in Worker : q < peer[PARENT_ID] => Born(q)
  /\ Started => AllBorn
  /\ Stopping =>
       /\ pc[PARENT_ID] \notin {"boot", "starting", "robbing", "acking"}
       /\ NoMoney /\ next = Len(Orders) + 1
       /\ Len(incoming) = Len(Orders) /\ Len(outgoing) = Len(Orders)

(* At most one frame is about money, and where it is says how far the order  *)
(* at hand has come.                                                         *)
MoneyOk(a, b, m) ==
  /\ next <= Len(Orders)
  /\ m.type = "TRANSFER" => m.payload = <<Orders[next]>>
  /\ a = PARENT_ID =>
       /\ b = Orders[next].src
       /\ Len(outgoing) = next - 1 /\ Len(incoming) = next - 1
  /\ a \in Worker /\ b \in Worker =>
       /\ a = Orders[next].src /\ b = Orders[next].dst
       /\ Len(outgoing) = next /\ Len(incoming) = next - 1
  /\ b = PARENT_ID =>
       /\ Len(outgoing) = next /\ Len(incoming) = next

MoneyInv ==
  /\ \A a, b, c, d \in Node : \A m \in Frames(a, b), k \in Frames(c, d) :
       Money(m) /\ Money(k) => a = c /\ b = d /\ m = k
  /\ \A a, b \in Node : \A m \in Frames(a, b) : Money(m) => MoneyOk(a, b, m)
  /\ pc[PARENT_ID] \in {"boot", "starting", "robbing"} =>
       /\ NoMoney
       /\ Len(outgoing) = next - 1 /\ Len(incoming) = next - 1

BankInv == TypeInv /\ OrderInv /\ SenderInv /\ ReceiverInv /\ PhaseInv /\ MoneyInv

-----------------------------------------------------------------------------
(* What a step that sends f from n, or nothing, leaves as it was. *)

New(n, f, to) ==
  \A a, b \in Node : \A m \in Frames(a, b)' : m \in Frames(a, b) \/ (a = n /\ b \in to /\ m = f)

LEMMA NewFrames ==
  ASSUME NEW n, NEW f, NEW to
  PROVE  /\ Silent => New(n, f, to)
         /\ Gives(n, f, to) => New(n, f, to)
         /\ \A q, m : Gets(n, q, m, f, to) => New(n, f, to)
  BY DEF Silent, Gives, Gets, New

LEMMA BornStays == ASSUME PcMoves, NEW p \in Worker, Born(p) PROVE Born(p)'
  BY DEF PcMoves, WorkerMoves, Born

LEMMA ReportedStays == ASSUME PcMoves, NEW p \in Worker, Reported(p) PROVE Reported(p)'
  BY DEF PcMoves, WorkerMoves, Reported, Over

LEMMA SenderKept ==
  ASSUME SenderInv, PcMoves, Grows, NEW n, NEW f, NEW to, New(n, f, to),
         n \in Node => \A b \in Node : b \in to => FrameOk(n, b, f)'
  PROVE  SenderInv'
<1> USE NodeFacts
<1>1. ASSUME NEW a \in Node, NEW b \in Node, NEW m, FrameOk(a, b, m) PROVE FrameOk(a, b, m)'
  <2>1. a \in Worker => Born(a)'
    BY <1>1, BornStays DEF FrameOk
  <2>2. m.type = "DONE" => a \in stopped'
    BY <1>1 DEF FrameOk, Grows
  <2>3. a = PARENT_ID => pc'[PARENT_ID] \notin {"boot", "starting"}
    BY <1>1 DEF FrameOk, PcMoves, ParentMoves
  <2>4. m.type = "BALANCE_HISTORY" => a \in Worker /\ Reported(a)' /\ ledger'[a] = ledger[a]
    BY <1>1, ReportedStays DEF FrameOk, Grows, Reported
  <2> QED
    BY <1>1, <2>1, <2>2, <2>3, <2>4 DEF FrameOk
<1>2. ASSUME NEW a \in Node, NEW b \in Node, NEW m \in Frames(a, b)' PROVE FrameOk(a, b, m)'
  <2>1. CASE m \in Frames(a, b)
    BY <1>1, <2>1 DEF SenderInv
  <2>2. CASE a = n /\ b \in to /\ m = f
    BY <2>2
  <2> QED
    BY <1>2, <2>1, <2>2 DEF New
<1> QED
  BY <1>2 DEF SenderInv

(* n may still send f to those who have not heard the last of it. *)
Fresh(n, f, to) ==
  IF n = PARENT_ID THEN to \cap stopped = {}
  ELSE ~Reported(n) /\ (n \in stopped => to = {PARENT_ID} /\ Rank(f) > 3)

LEMMA ReceiverHeard ==
  ASSUME TypeOK, ReceiverInv, PcMoves, Grows, NEW n, NEW f, NEW to, New(n, f, to),
         to # {} => Fresh(n, f, to), n = PARENT_ID => PARENT_ID \notin to,
         \A p \in Worker :
           /\ \A q \in done'[p] :
                q \in done[p] \/ (q \in stopped /\ \A m \in Frames(q, p)' : Rank(m) > 3)
           /\ p \in stopped' =>
                p \in stopped \/ \A m \in Frames(PARENT_ID, p)' : Rank(m) > 3
           /\ pc[p] # "serving" \/ pc'[p] # "serving" => done'[p] = done[p]
           /\ DoneHeard(p)' =>
                \/ DoneHeard(p)
                \/ p \in stopped /\ \A m \in Frames(p, PARENT_ID)' : Rank(m) > 3
           /\ HistoryHeard(p)' =>
                \/ HistoryHeard(p)
                \/ Frames(p, PARENT_ID)' = {} /\ Reported(p)'
           /\ HistoryHeard(p)' /\ pc'[PARENT_ID] = "gathering" =>
                \/ HistoryHeard(p) /\ pc[PARENT_ID] = "gathering" /\ history'[p] = history[p]
                \/ history'[p] = ledger'[p]
  PROVE  ReceiverInv'
<1> USE NodeFacts
<1> SUFFICES ASSUME NEW p \in Worker
    PROVE /\ pc'[p] \in {"unborn", "boot", "starting", "serving", "reporting"} \cup Over
          /\ \A q \in done'[p] : q \in stopped' /\ \A m \in Frames(q, p)' : Rank(m) > 3
          /\ p \in stopped' => \A m \in Frames(PARENT_ID, p)' : Rank(m) > 3
          /\ pc'[p] \in {"reporting", "exited"} => p \in stopped' /\ done'[p] = Peers(p)
          /\ DoneHeard(p)' => p \in stopped' /\ \A m \in Frames(p, PARENT_ID)' : Rank(m) > 3
          /\ HistoryHeard(p)' =>
               /\ Frames(p, PARENT_ID)' = {} /\ Reported(p)'
               /\ pc'[PARENT_ID] = "gathering" => history'[p] = ledger'[p]
  BY DEF ReceiverInv, Rank, Peers
<1>1. pc'[p] \in {"unborn", "boot", "starting", "serving", "reporting"} \cup Over
  BY DEF ReceiverInv, PcMoves, WorkerMoves, Over
<1>2. stopped \subseteq stopped'
  BY DEF Grows
<1>3. ASSUME NEW q \in done'[p], NEW m \in Frames(q, p)' PROVE Rank(m) > 3
  <2>1. CASE q \in done[p]
    <3>1. q \in Worker /\ q # PARENT_ID /\ q \in Node /\ q \in stopped
      BY <2>1 DEF TypeOK, ReceiverInv
    <3>2. m \in Frames(q, p) \/ (q = n /\ p \in to /\ m = f)
      BY <1>3, <3>1 DEF New
    <3> QED
      BY <2>1, <3>1, <3>2 DEF ReceiverInv, Fresh
  <2> QED
    BY <1>3, <2>1
<1>4. \A q \in done'[p] : q \in stopped'
  BY <1>2 DEF ReceiverInv
<1>5. p \in stopped' => \A m \in Frames(PARENT_ID, p)' : Rank(m) > 3
  BY DEF ReceiverInv, New, Fresh
<1>6. pc'[p] \in {"reporting", "exited"} => p \in stopped' /\ done'[p] = Peers(p)
  <2>1. SUFFICES ASSUME pc'[p] \in {"reporting", "exited"}
                 PROVE  p \in stopped' /\ done'[p] = Peers(p)
    OBVIOUS
  <2>2. done'[p] = done[p]
    BY <2>1
  <2>3. pc[p] \in {"reporting", "exited"} \/ (p \in stopped /\ done[p] = Peers(p))
    BY <2>1 DEF PcMoves, WorkerMoves
  <2> QED
    BY <1>2, <2>2, <2>3 DEF ReceiverInv
<1>7. DoneHeard(p)' => p \in stopped' /\ \A m \in Frames(p, PARENT_ID)' : Rank(m) > 3
  <2>1. CASE DoneHeard(p)
    <3>1. p \in stopped /\ \A m \in Frames(p, PARENT_ID) : Rank(m) > 3
      BY <2>1 DEF ReceiverInv
    <3>2. ASSUME NEW m \in Frames(p, PARENT_ID)' PROVE Rank(m) > 3
      <4>1. m \in Frames(p, PARENT_ID) \/ (p = n /\ PARENT_ID \in to /\ m = f)
        BY <3>2 DEF New
      <4> QED
        BY <3>1, <4>1 DEF Fresh
    <3> QED
      BY <1>2, <3>1, <3>2
  <2> QED
    BY <1>2, <2>1
<1>8. HistoryHeard(p)' =>
        /\ Frames(p, PARENT_ID)' = {} /\ Reported(p)'
        /\ pc'[PARENT_ID] = "gathering" => history'[p] = ledger'[p]
  <2>1. HistoryHeard(p) => ledger'[p] = ledger[p] /\ Reported(p)'
    BY ReportedStays DEF ReceiverInv, Grows, Reported
  <2> QED
    BY <2>1 DEF ReceiverInv, New, Fresh
<1> QED
  BY <1>3, <1>4, <1>5, <1>6, <1>7, <1>8, <1>1

LEMMA ReceiverKept ==
  ASSUME TypeOK, ReceiverInv, PcMoves, Grows, NEW n, NEW f, NEW to, New(n, f, to),
         to # {} => Fresh(n, f, to), n = PARENT_ID => PARENT_ID \notin to,
         UNCHANGED <<stopped, done, history>>, peer'[PARENT_ID] = peer[PARENT_ID],
         pc'[PARENT_ID] \in {"collecting", "gathering"} => pc'[PARENT_ID] = pc[PARENT_ID]
  PROVE  ReceiverInv'
<1>1. \A p \in Worker : (DoneHeard(p)' => DoneHeard(p)) /\ (HistoryHeard(p)' => HistoryHeard(p))
  BY PassedAll DEF Passed, DoneHeard, HistoryHeard, PcMoves, ParentMoves
<1> QED
  BY <1>1, ReceiverHeard

LEMMA PhaseKept ==
  ASSUME TypeOK, PhaseInv, PcMoves, NEW n, NEW f, NEW to, New(n, f, to),
         n = PARENT_ID /\ to # {} => AllBorn /\ f.type # "STOP",
         Money(f) /\ to # {} => ~Stopping,
         ~Stopping \/ UNCHANGED <<next, outgoing, incoming>>,
         outgoing' # <<>> => outgoing # <<>> \/ AllBorn,
         stopped' # {} => Stopping /\ AllBorn,
         pc'[PARENT_ID] = "robbing" => outbox'[PARENT_ID] = outbox[PARENT_ID],
         pc[PARENT_ID] \in {"boot", "starting"} =>
           \/ peer'[PARENT_ID] = peer[PARENT_ID]
           \/ \A q \in Worker : q < peer'[PARENT_ID] => q < peer[PARENT_ID] \/ Born(q),
         pc'[PARENT_ID] = "collecting" => pc[PARENT_ID] = "collecting"
  PROVE  PhaseInv'
<1> USE NodeFacts
<1>1. pc'[PARENT_ID] = "robbing" => ~Writing(PARENT_ID)'
  BY DEF PhaseInv, PcMoves, ParentMoves, Passed, Writing
<1>2. pc'[PARENT_ID] \in {"boot", "starting"} =>
        \A q \in Worker : q < peer'[PARENT_ID] => Born(q)'
  <2>1. pc'[PARENT_ID] \in {"boot", "starting"} => pc[PARENT_ID] \in {"boot", "starting"}
    BY DEF PcMoves, ParentMoves
  <2> QED
    BY <2>1, BornStays DEF PhaseInv
<1>3. Started' => AllBorn'
  <2>1. Started' => AllBorn
    <3>1. (\E b \in Node : Frames(PARENT_ID, b)' # {}) => AllBorn
      <4>1. ASSUME NEW b \in Node, NEW m \in Frames(PARENT_ID, b)' PROVE AllBorn
        <5>1. m \in Frames(PARENT_ID, b) => AllBorn
          BY DEF PhaseInv, Started
        <5> QED
          BY <4>1, <5>1 DEF New
      <4> QED
        BY <4>1
    <3>2. pc'[PARENT_ID] \in {"robbing", "acking", "collecting", "gathering", "reaping", "exited"}
            => AllBorn
      <4>1. pc[PARENT_ID] = "starting" /\ Passed => AllBorn
        BY PassedAll DEF Passed, PhaseInv, AllBorn
      <4>2. pc[PARENT_ID] \in {"robbing", "acking", "collecting", "gathering", "reaping", "exited"}
              => AllBorn
        BY DEF PhaseInv, Started
      <4> QED
        BY <4>1, <4>2 DEF PcMoves, ParentMoves
    <3>3. outgoing # <<>> => AllBorn
      BY DEF PhaseInv, Started
    <3> QED
      BY <3>1, <3>2, <3>3 DEF Started
  <2> QED
    BY <2>1, BornStays DEF AllBorn
<1>4. Stopping' =>
       /\ pc'[PARENT_ID] \notin {"boot", "starting", "robbing", "acking"}
       /\ NoMoney' /\ next' = Len(Orders) + 1
       /\ Len(incoming') = Len(Orders) /\ Len(outgoing') = Len(Orders)
  <2>1. Stopping' => Stopping
    <3>1. ASSUME NEW b \in Node, NEW m \in Frames(PARENT_ID, b)', m.type = "STOP" PROVE Stopping
      BY <3>1 DEF New, Stopping
    <3>2. pc'[PARENT_ID] \in {"collecting", "gathering", "reaping", "exited"} => Stopping
      BY DEF Stopping, PcMoves, ParentMoves
    <3> QED
      BY <3>1, <3>2 DEF Stopping
  <2>2. Stopping => pc'[PARENT_ID] \notin {"boot", "starting", "robbing", "acking"}
    BY DEF PhaseInv, PcMoves, ParentMoves
  <2>3. Stopping => NoMoney'
    <3>1. ASSUME Stopping, NEW a \in Node, NEW b \in Node, NEW m \in Frames(a, b)'
          PROVE  ~Money(m)
      <4>1. m \in Frames(a, b) => ~Money(m)
        BY <3>1 DEF PhaseInv, NoMoney
      <4> QED
        BY <3>1, <4>1 DEF New
    <3> QED
      BY <3>1 DEF NoMoney, Money
  <2> QED
    BY <2>1, <2>2, <2>3 DEF PhaseInv
<1> QED
  BY <1>1, <1>2, <1>3, <1>4 DEF PhaseInv

LEMMA MoneyKept ==
  ASSUME TypeOK, TypeOK', MoneyInv, PcMoves, Grows, NEW n, NEW f, NEW to, New(n, f, to),
         Money(f) => to = {},
         UNCHANGED <<next, outgoing, incoming>>,
         pc'[PARENT_ID] = "robbing" => pc[PARENT_ID] # "acking"
  PROVE  MoneyInv'
<1> USE NodeFacts
<1>1. ASSUME NEW a \in Node, NEW b \in Node, NEW m \in Frames(a, b)', Money(m)
      PROVE  m \in Frames(a, b) /\ MoneyOk(a, b, m)'
  <2>1. m \in Frames(a, b)
    BY <1>1 DEF New
  <2>2. MoneyOk(a, b, m)
    BY <1>1, <2>1 DEF MoneyInv
  <2> QED
    BY <2>1, <2>2 DEF MoneyOk
<1>2. pc'[PARENT_ID] \in {"boot", "starting", "robbing"} =>
       NoMoney' /\ Len(outgoing) = next - 1 /\ Len(incoming) = next - 1
  <2>1. SUFFICES ASSUME pc'[PARENT_ID] \in {"boot", "starting", "robbing"}
                 PROVE  NoMoney' /\ Len(outgoing) = next - 1 /\ Len(incoming) = next - 1
    OBVIOUS
  <2>2. pc[PARENT_ID] \in {"boot", "starting", "robbing"}
    BY <2>1 DEF PcMoves, ParentMoves
  <2>3. NoMoney'
    BY <1>1, <2>2 DEF MoneyInv, NoMoney, Money
  <2> QED
    BY <2>2, <2>3 DEF MoneyInv
<1> QED
  BY <1>1, <1>2 DEF MoneyInv, Money

-----------------------------------------------------------------------------
(* The steps that send, take and send, and only take. *)

LEMMA SendStep ==
  ASSUME TypeOK, OrderInv, NEW n \in Node, ~Writing(n), UNCHANGED channel,
         NEW type, NEW payload, NEW to, NEW f \in Frame,
         Sends(n, type, payload, to), f = [type |-> type, payload |-> payload],
         \A b \in Node : b \in to => \A x \in Frames(n, b) : Rank(x) < Rank(f)
  PROVE  Gives(n, f, to) /\ New(n, f, to) /\ OrderInv'
  <1>1. Puts(n, f, to)
    BY WaySends
  <1>2. Sent(n, f, to)
    BY <1>1, PutsSent
  <1>3. Gives(n, f, to) /\ OrderInv'
    BY <1>2, GivesFrame
  <1> QED
    BY <1>3, NewFrames

LEMMA ReplyStep ==
  ASSUME TypeOK, OrderInv, NEW n \in Node, NEW q \in Node \ {n}, NEW any, Takes(n, q, any),
         NEW type, NEW payload, NEW to, NEW f \in Frame,
         Sends(n, type, payload, to), f = [type |-> type, payload |-> payload],
         \A b \in Node : b \in to => \A x \in Frames(n, b) : Rank(x) < Rank(f)
  PROVE  Gets(n, q, Received(n, q), f, to) /\ New(n, f, to) /\ OrderInv'
  <1>1. Puts(n, f, to)
    BY WaySends
  <1>2. Took(n, q, f, to) /\ Way(q, n) # <<>> /\ Received(n, q) = Head(Way(q, n))
    BY <1>1, PutsTook
  <1>3. Gets(n, q, Received(n, q), f, to) /\ OrderInv'
    BY <1>2, GetsFrame
  <1> QED
    BY <1>3, NewFrames

LEMMA TakeStep ==
  ASSUME TypeOK, OrderInv, NEW n \in Node, NEW q \in Node \ {n}, NEW any, Takes(n, q, any),
         UNCHANGED outbox
  PROVE  /\ Gets(n, q, Received(n, q), Received(n, q), {})
         /\ New(n, Received(n, q), {}) /\ OrderInv'
  <1> DEFINE m == Received(n, q)
  <1>1. Puts(n, m, {})
    BY WayStays DEF Takes, Reading
  <1>2. Took(n, q, m, {}) /\ Way(q, n) # <<>> /\ m = Head(Way(q, n))
    BY <1>1, PutsTook
  <1>3. Gets(n, q, m, m, {}) /\ OrderInv'
    <2> HIDE DEF m
    <2> QED
      BY <1>2, GetsFrame
  <1> QED
    BY <1>3, NewFrames

LEMMA SameGrows == UNCHANGED <<stopped, done, ledger>> => Grows
  BY DEF Grows

-----------------------------------------------------------------------------
(* The steps that send nothing new. *)

LEMMA QuietStep ==
  ASSUME BankInv, TypeInv', PcMoves, \A a, b \in Node : Way(a, b)' = Way(a, b),
         UNCHANGED <<next, stopped, done, accounts>>,
         peer'[PARENT_ID] = peer[PARENT_ID],
         outbox'[PARENT_ID] = outbox[PARENT_ID] \/ pc'[PARENT_ID] # "robbing",
         pc'[PARENT_ID] \in {"collecting", "gathering"} => pc'[PARENT_ID] = pc[PARENT_ID],
         pc'[PARENT_ID] = "robbing" => pc[PARENT_ID] # "acking"
  PROVE  BankInv'
  <1> DEFINE f == Sending(PARENT_ID)
  <1>1. TypeOK /\ TypeOK' /\ Silent /\ OrderInv' /\ New(PARENT_ID, f, {}) /\ Grows
    <2>1. TypeOK /\ TypeOK' /\ OrderInv
      BY DEF BankInv, TypeInv
    <2>2. Silent /\ OrderInv'
      BY <2>1, SilentFrames
    <2> QED
      BY <2>1, <2>2, NewFrames, SameGrows DEF accounts
  <1> HIDE DEF f
  <1>2. SenderInv'
    BY <1>1, SenderKept DEF BankInv
  <1>3. ReceiverInv'
    BY <1>1, ReceiverKept DEF BankInv, accounts
  <1>4. PhaseInv'
    BY <1>1, PhaseKept DEF BankInv, accounts, events, PhaseInv, Stopping, Started
  <1>5. MoneyInv'
    BY <1>1, MoneyKept DEF BankInv, accounts, events
  <1> QED
    BY <1>1, <1>2, <1>3, <1>4, <1>5 DEF BankInv

LEMMA SamePipes ==
  UNCHANGED <<channel, outbox>> => \A a, b \in Node : Way(a, b)' = Way(a, b)
  BY DEF Way, Sending

(* A node that only moves on. *)
LEMMA GotoStep ==
  ASSUME BankInv, TypeInv', PcMoves, UNCHANGED <<channel, outbox, protocol, accounts>>,
         pc'[PARENT_ID] \in {"collecting", "gathering"} => pc'[PARENT_ID] = pc[PARENT_ID],
         pc'[PARENT_ID] = "robbing" => pc[PARENT_ID] # "acking"
  PROVE  BankInv'
  <1>1. \A a, b \in Node : Way(a, b)' = Way(a, b)
    BY SamePipes
  <1> QED
    BY <1>1, QuietStep DEF protocol

LEMMA FatalStep ==
  ASSUME BankInv, TypeInv', PcMoves, NEW n \in Node, Fatal(n)
  PROVE  BankInv'
  <1>1. pc'[PARENT_ID] = pc[PARENT_ID] \/ pc'[PARENT_ID] = "stopping"
    BY NodeFacts DEF Fatal, Fail, Goto, BankInv, TypeInv, TypeOK
  <1> QED
    BY <1>1, GotoStep DEF Fatal

LEMMA WriteStep ==
  ASSUME BankInv, TypeInv', PcMoves, NEW n \in Node, NEW q \in Node, WriteFrame(n, q)
  PROVE  BankInv'
  <1>1. TypeOK
    BY DEF BankInv, TypeInv
  <1>2. \A a, b \in Node : Way(a, b)' = Way(a, b)
    BY <1>1, WriteSilent
  <1>3. outbox'[PARENT_ID] = outbox[PARENT_ID] \/ pc'[PARENT_ID] # "robbing"
    <2>1. CASE n = PARENT_ID
      BY <2>1 DEF WriteFrame, NextTarget, Writing, BankInv, PhaseInv
    <2>2. CASE n # PARENT_ID
      BY <1>1, <2>2, NodeFacts DEF WriteFrame, TypeOK
    <2> QED
      BY <2>1, <2>2
  <1> QED
    BY <1>2, <1>3, QuietStep DEF WriteFrame, protocol

LEMMA RankOf ==
  \A m : /\ m.type = "STARTED" => Rank(m) = 1
         /\ m.type \in {"TRANSFER", "ACK"} => Rank(m) = 2
         /\ m.type \in {"DONE", "STOP"} => Rank(m) = 3
         /\ m.type = "BALANCE_HISTORY" => Rank(m) = 4
  BY DEF Rank

LEMMA WritingFrames ==
  ASSUME TypeOK, NEW p \in Node, Writing(p)
  PROVE  \E b \in Node : Frames(p, b) # {}
  <1>1. PICK b \in Node : b \in outbox[p].to
    <2>1. outbox[p] \in Output
      BY DEF TypeOK, Idle, Writing
    <2> QED
      BY <2>1 DEF Output, Writing
  <1>2. Way(p, b) \in Seq(Frame) /\ Way(p, b) = Append(channel[p][b], Sending(p))
        /\ channel[p][b] \in Seq(Frame)
    BY <1>1, WayType DEF Way
  <1>3. 1 \in DOMAIN Way(p, b)
    BY <1>2
  <1> QED
    BY <1>3 DEF Frames, Range

LEMMA AnnounceStep ==
  ASSUME BankInv, TypeInv', PcMoves, NEW p \in Node, AnnounceStarted(p)
  PROVE  BankInv'
  <1> DEFINE to == Node \ {p}
  <1> USE NodeFacts
  <1>0. PICK f : f = [type |-> "STARTED", payload |-> Nothing]
    OBVIOUS
  <1>1. /\ TypeOK /\ TypeOK' /\ OrderInv /\ p \in Worker /\ p # PARENT_ID /\ pc[p] = "boot"
        /\ Sends(p, "STARTED", Nothing, to) /\ Goto(p, "starting")
        /\ UNCHANGED <<channel, protocol, accounts>>
    BY DEF AnnounceStarted, BankInv, TypeInv, TypeOK
  <1>2. \A b \in Node : Frames(p, b) = {}
    BY <1>1 DEF BankInv, SenderInv, FrameOk, Born
  <1>3. ~Writing(p)
    BY <1>1, <1>2, WritingFrames
  <1>4. f \in Frame
    <2>1. "STARTED" \in MessageType
      BY DEF MessageType
    <2> QED
      BY <1>0, <2>1, FrameType
  <1>5. New(p, f, to) /\ OrderInv'
    <2> HIDE DEF to
    <2> QED
      BY <1>0, <1>1, <1>2, <1>3, <1>4, SendStep
  <1>6. Grows
    BY <1>1 DEF Grows, protocol, accounts
  <1>7. /\ f.type = "STARTED" /\ ~Money(f) /\ p \notin to /\ pc'[p] = "starting"
        /\ pc'[PARENT_ID] = pc[PARENT_ID]
        /\ outbox'[PARENT_ID] = outbox[PARENT_ID]
    BY <1>0, <1>1 DEF Money, Goto, Sends, TypeOK
  <1> HIDE DEF to
  <1>8. SenderInv'
    <2>1. ASSUME NEW b \in Node, b \in to PROVE FrameOk(p, b, f)'
      BY <1>1, <1>7, <2>1 DEF FrameOk, Born
    <2> QED
      BY <1>5, <1>6, <2>1, SenderKept DEF BankInv
  <1>9. p \notin stopped /\ ~Reported(p) /\ ~AllBorn
    BY <1>1 DEF BankInv, PhaseInv, Started, AllBorn, Born, Reported
  <1>10. ReceiverInv'
    <2>1. Fresh(p, f, to)
      BY <1>1, <1>9 DEF Fresh
    <2>2. UNCHANGED <<stopped, done, history>> /\ peer'[PARENT_ID] = peer[PARENT_ID]
      BY <1>1 DEF protocol, accounts
    <2> QED
      BY <1>1, <1>5, <1>6, <1>7, <2>1, <2>2, ReceiverKept DEF BankInv
  <1>11. PhaseInv'
    BY <1>1, <1>5, <1>7, <1>9, PhaseKept
       DEF BankInv, protocol, accounts, events, PhaseInv, Started
  <1>12. MoneyInv'
    BY <1>1, <1>5, <1>6, <1>7, MoneyKept DEF BankInv, protocol, accounts, events, MoneyInv
  <1> QED
    BY <1>5, <1>8, <1>10, <1>11, <1>12 DEF BankInv

(* There is one frame about money at most, the one of the order at hand. *)
LEMMA MoneyFacts ==
  ASSUME BankInv, NEW a \in Node, NEW b \in Node, NEW m \in Frames(a, b), Money(m)
  PROVE  /\ MoneyOk(a, b, m) /\ ~Stopping /\ stopped = {} /\ AllBorn
         /\ pc[PARENT_ID] \notin {"boot", "starting", "robbing"}
         /\ \A c, d \in Node : \A k \in Frames(c, d) : Money(k) => c = a /\ d = b /\ k = m
         /\ next \in 1..Len(Orders)
  <1> USE NodeFacts
  <1>1. /\ MoneyOk(a, b, m) /\ pc[PARENT_ID] \notin {"boot", "starting", "robbing"}
        /\ \A c, d \in Node : \A k \in Frames(c, d) : Money(k) => c = a /\ d = b /\ k = m
    BY DEF BankInv, MoneyInv, NoMoney
  <1>2. ~Stopping
    BY DEF BankInv, PhaseInv, NoMoney
  <1>3. stopped = {}
    BY <1>2 DEF Stopping
  <1>4. next \in 1..Len(Orders) /\ Len(Orders) \in Nat
    BY <1>1, Pa2Assumption DEF MoneyOk, BankInv, TypeInv, TypeOK
  <1>5. AllBorn
    <2>1. CASE a = PARENT_ID
      BY <2>1 DEF BankInv, PhaseInv, Started
    <2>2. CASE a # PARENT_ID
      <3>1. Len(outgoing) = next
        BY <1>1, <2>2 DEF MoneyOk
      <3>2. outgoing # <<>>
        BY <1>4, <3>1
      <3> QED
        BY <3>2 DEF BankInv, PhaseInv, Started
    <2> QED
      BY <2>1, <2>2
  <1> QED
    BY <1>1, <1>2, <1>3, <1>4, <1>5

LEMMA MoneyMoved ==
  ASSUME NEW n \in Node, NEW q \in Node, NEW f,
         \A a, b \in Node : \A m \in Frames(a, b)' : Money(m) => a = n /\ b = q /\ m = f,
         MoneyOk(n, q, f)', pc'[PARENT_ID] \notin {"boot", "starting", "robbing"}
  PROVE  MoneyInv'
  <1>1. \A a, b \in Node : \A m \in Frames(a, b)' : Money(m) => MoneyOk(a, b, m)'
    <2> SUFFICES ASSUME NEW a \in Node, NEW b \in Node, NEW m \in Frames(a, b)', Money(m)
                 PROVE  MoneyOk(a, b, m)'
      OBVIOUS
    <2>1. a = n /\ b = q /\ m = f
      OBVIOUS
    <2> QED
      BY <2>1 DEF MoneyOk
  <1> QED
    BY <1>1 DEF MoneyInv, Money

LEMMA RequestStep ==
  ASSUME BankInv, TypeInv', PcMoves, RequestTransfer
  PROVE  BankInv'
  <1> USE NodeFacts
  <1>0. PICK order, f, src, to :
          /\ order = Orders[next] /\ src = order.src /\ to = {src}
          /\ f = [type |-> "TRANSFER", payload |-> <<order>>]
    OBVIOUS
  <1>1. /\ TypeOK /\ TypeOK' /\ OrderInv /\ pc[PARENT_ID] = "robbing"
        /\ Sends(PARENT_ID, "TRANSFER", <<order>>, to)
        /\ ValidOrder(order) /\ next <= Len(Orders) /\ pc' = [pc EXCEPT ![PARENT_ID] = "acking"]
        /\ UNCHANGED <<channel, protocol, accounts>>
    BY <1>0 DEF RequestTransfer, Robbing, MoreOrders, Goto, BankInv, TypeInv
  <1>2. ~Stopping /\ stopped = {} /\ NoMoney /\ ~Writing(PARENT_ID) /\ AllBorn
    BY <1>1 DEF BankInv, PhaseInv, Stopping, MoneyInv, Started
  <1>3. \A b \in Node : Frames(PARENT_ID, b) = {}
    BY <1>2 DEF BankInv, SenderInv, FrameOk, Stopping, NoMoney, Money
  <1>4. src \in Worker /\ src \in Node /\ src # PARENT_ID /\ order \in TransferOrder
    <2>1. order \in TransferOrder
      <3>1. next \in 1..Len(Orders)
        BY <1>1, Pa2Assumption DEF TypeOK
      <3> QED
        BY <1>0, <3>1, Pa2Assumption, ElementOfSeq
    <2> QED
      BY <1>0, <1>1, <2>1, OrderFacts
  <1>5. f \in Frame /\ f.type = "TRANSFER" /\ f.payload = <<order>>
    <2>1. "TRANSFER" \in MessageType /\ <<order>> \in OneOrder
      BY <1>4, OneOrderType DEF MessageType
    <2> QED
      BY <1>0, <2>1, FrameType
  <1>6. New(PARENT_ID, f, to) /\ OrderInv'
    BY <1>0, <1>1, <1>2, <1>3, <1>5, SendStep
  <1>7. Grows
    BY <1>1 DEF Grows, protocol, accounts
  <1>8. pc'[PARENT_ID] = "acking"
    BY <1>1 DEF TypeOK
  <1>9. SenderInv'
    <2>1. ASSUME NEW b \in Node, b \in to PROVE FrameOk(PARENT_ID, b, f)'
      BY <1>0, <1>4, <1>5, <1>8, <2>1 DEF FrameOk
    <2> QED
      BY <1>6, <1>7, <2>1, SenderKept DEF BankInv
  <1>10. ReceiverInv'
    <2>1. Fresh(PARENT_ID, f, to)
      BY <1>2 DEF Fresh
    <2>2. UNCHANGED <<stopped, done, history>> /\ peer'[PARENT_ID] = peer[PARENT_ID]
          /\ PARENT_ID \notin to
      BY <1>0, <1>1, <1>4 DEF protocol, accounts
    <2> QED
      BY <1>1, <1>6, <1>7, <1>8, <2>1, <2>2, ReceiverKept DEF BankInv
  <1>11. PhaseInv'
    BY <1>1, <1>2, <1>5, <1>6, <1>8, PhaseKept DEF BankInv, protocol, accounts, events
  <1>12. MoneyInv'
    <2>1. \A a, b \in Node : \A m \in Frames(a, b)' :
            Money(m) => a = PARENT_ID /\ b = src /\ m = f
      BY <1>0, <1>2, <1>6 DEF New, NoMoney
    <2>2. Len(outgoing) = next - 1 /\ Len(incoming) = next - 1
      BY <1>1 DEF BankInv, MoneyInv
    <2>3. MoneyOk(PARENT_ID, src, f)'
      BY <1>0, <1>1, <1>4, <1>5, <2>2 DEF MoneyOk, protocol, accounts, events
    <2> QED
      BY <1>4, <1>8, <2>1, <2>3, MoneyMoved
  <1> QED
    BY <1>6, <1>9, <1>10, <1>11, <1>12 DEF BankInv

LEMMA TakenFrame ==
  ASSUME TypeOK, NEW n \in Node, NEW q \in Node, NEW any, Takes(n, q, any)
  PROVE  Received(n, q) \in Frames(q, n) /\ Received(n, q).type = any
  <1> DEFINE s == channel[q][n]
             w == Way(q, n)
  <1>1. s \in Seq(Frame) /\ s # <<>> /\ Received(n, q) = s[1]
    BY HeadTailProperties DEF TypeOK, Takes, Reading, Received
  <1>2. w = s \/ w = Append(s, Sending(q))
    BY DEF Way
  <1> HIDE DEF s, w
  <1>3. 1 \in DOMAIN w /\ w[1] = s[1]
    BY <1>1, <1>2
  <1>4. Received(n, q).type = any
    BY DEF Takes
  <1> QED
    BY <1>1, <1>3, <1>4 DEF Frames, Range, w

(* A transfer a worker takes is the order at hand. *)
LEMMA TransferTaken ==
  ASSUME BankInv, NEW p \in Node, NEW q \in Node \ {p}, NEW m, m = Received(p, q),
         Takes(p, q, "TRANSFER")
  PROVE  /\ p \in Worker /\ pc[p] = "serving" /\ m \in Frames(q, p) /\ m.type = "TRANSFER"
         /\ MoneyOk(q, p, m) /\ m.payload[1] = Orders[next] /\ next \in 1..Len(Orders)
         /\ Orders[next] \in TransferOrder /\ ValidOrder(Orders[next]) /\ FitsHistory(now)
         /\ ~Stopping /\ stopped = {} /\ AllBorn
         /\ pc[PARENT_ID] \notin {"boot", "starting", "robbing"}
         /\ \A c, d \in Node : \A k \in Frames(c, d) : Money(k) => c = q /\ d = p /\ k = m
  <1>1. TypeOK /\ m \in Frames(q, p) /\ m.type = "TRANSFER"
    BY TakenFrame DEF BankInv, TypeInv
  <1>2. Money(m)
    BY <1>1 DEF Money
  <1>3. PICK order : order = m.payload[1]
    OBVIOUS
  <1>4. p \in Worker /\ pc[p] = "serving" /\ ValidOrder(order) /\ FitsHistory(now)
    BY <1>1, <1>3, TransferAccepted
  <1>5. MoneyOk(q, p, m) /\ next \in 1..Len(Orders)
    BY <1>1, <1>2, MoneyFacts
  <1>6. order = Orders[next]
    BY <1>1, <1>3, <1>5 DEF MoneyOk
  <1>7. Orders[next] \in TransferOrder
    BY <1>5, Pa2Assumption, ElementOfSeq
  <1> QED
    BY <1>1, <1>2, <1>3, <1>4, <1>5, <1>6, <1>7, MoneyFacts

LEMMA OrderStep ==
  ASSUME BankInv, TypeInv', PcMoves, NEW p \in Node, NEW q \in Node \ {p}, ReceiveOrder(p, q)
  PROVE  BankInv'
  <1> USE NodeFacts
  <1>0. PICK m, order, dst, to, f :
          /\ m = Received(p, q) /\ order = m.payload[1] /\ dst = order.dst /\ to = {dst}
          /\ f = [type |-> "TRANSFER", payload |-> <<order>>]
    OBVIOUS
  <1>1. /\ TypeOK /\ TypeOK' /\ OrderInv
        /\ Takes(p, q, "TRANSFER") /\ IsDebit(p, q, order)
        /\ outgoing' = Append(outgoing, [order |-> order, time |-> now])
        /\ Sends(p, "TRANSFER", <<order>>, to)
        /\ UNCHANGED <<pc, protocol, history, incoming>>
        /\ \A a \in Worker : a # p => ledger'[a] = ledger[a]
    BY <1>0 DEF ReceiveOrder, BankInv, TypeInv, TypeOK
  <1>2. /\ p \in Worker /\ pc[p] = "serving" /\ m \in Frames(q, p) /\ m.type = "TRANSFER"
        /\ MoneyOk(q, p, m) /\ order = Orders[next] /\ next \in 1..Len(Orders)
        /\ order \in TransferOrder /\ ValidOrder(order)
        /\ ~Stopping /\ stopped = {} /\ AllBorn
        /\ pc[PARENT_ID] \notin {"boot", "starting", "robbing"}
        /\ \A c, d \in Node : \A k \in Frames(c, d) : Money(k) => c = q /\ d = p /\ k = m
    BY <1>0, <1>1, TransferTaken
  <1>3. q = PARENT_ID /\ p = order.src /\ dst \in Worker /\ dst \in Node /\ dst # p
        /\ dst # PARENT_ID
    BY <1>0, <1>1, <1>2 DEF IsDebit, ValidOrder
  <1>4. f \in Frame /\ f.type = "TRANSFER" /\ f.payload = <<order>>
    <2>1. "TRANSFER" \in MessageType /\ <<order>> \in OneOrder
      BY <1>2, OneOrderType DEF MessageType
    <2> QED
      BY <1>0, <2>1, FrameType
  <1>5. \A x \in Frames(p, dst) : Rank(x) < Rank(f)
    <2>1. ASSUME NEW x \in Frames(p, dst) PROVE x.type = "STARTED"
      <3>1. FrameOk(p, dst, x) /\ ~Money(x)
        BY <1>2, <1>3 DEF BankInv, SenderInv
      <3> QED
        BY <1>2, <1>3, <3>1 DEF FrameOk, Money
    <2> QED
      BY <1>4, <2>1, RankOf
  <1>6. Gets(p, q, m, f, to) /\ New(p, f, to) /\ OrderInv'
    <2>1. \A b \in Node : b \in to => \A x \in Frames(p, b) : Rank(x) < Rank(f)
      BY <1>0, <1>5
    <2> QED
      BY <1>0, <1>1, <1>4, <2>1, ReplyStep
  <1>7. Grows
    BY <1>1, <1>2 DEF Grows, protocol
  <1>8. SenderInv'
    <2>1. ASSUME NEW b \in Node, b \in to PROVE FrameOk(p, b, f)'
      BY <1>0, <1>1, <1>2, <1>3, <1>4, <2>1 DEF FrameOk, Born
    <2> QED
      BY <1>6, <1>7, <2>1, SenderKept DEF BankInv
  <1>9. ReceiverInv'
    <2>1. Fresh(p, f, to)
      BY <1>2 DEF Fresh, Reported
    <2> QED
      BY <1>1, <1>2, <1>6, <1>7, <2>1, ReceiverKept DEF BankInv, protocol
  <1>10. PhaseInv'
    <2>1. outbox'[PARENT_ID] = outbox[PARENT_ID]
      BY <1>1, <1>2 DEF Sends, TypeOK
    <2> QED
      BY <1>1, <1>2, <1>6, <2>1, PhaseKept DEF BankInv, protocol
  <1>11. MoneyInv'
    <2>1. \A a, b \in Node : \A k \in Frames(a, b)' : Money(k) => a = p /\ b = dst /\ k = f
      BY <1>0, <1>2, <1>6 DEF Gets
    <2>2. Len(outgoing) = next - 1 /\ Len(incoming) = next - 1
      BY <1>2, <1>3 DEF MoneyOk
    <2>3. Len(outgoing') = next
      <3>1. outgoing \in Seq(Event) /\ next \in Nat /\ now \in Nat
        BY <1>1, <1>2, Pa2Assumption DEF TypeOK
      <3>2. [order |-> order, time |-> now] \in Event
        BY <1>2, <3>1 DEF Event
      <3> QED
        BY <1>1, <2>2, <3>1, <3>2, AppendProperties
    <2>4. MoneyOk(p, dst, f)'
      BY <1>0, <1>1, <1>2, <1>3, <1>4, <2>2, <2>3 DEF MoneyOk, protocol
    <2> QED
      BY <1>1, <1>2, <1>3, <2>1, <2>4, MoneyMoved
  <1> QED
    BY <1>6, <1>8, <1>9, <1>10, <1>11 DEF BankInv

LEMMA TransferStep ==
  ASSUME BankInv, TypeInv', PcMoves, NEW p \in Node, NEW q \in Node \ {p}, ReceiveTransfer(p, q)
  PROVE  BankInv'
  <1> USE NodeFacts
  <1>0. PICK m, order, to, f :
          /\ m = Received(p, q) /\ order = m.payload[1] /\ to = {PARENT_ID}
          /\ f = [type |-> "ACK", payload |-> Nothing]
    OBVIOUS
  <1>1. /\ TypeOK /\ TypeOK' /\ OrderInv
        /\ Takes(p, q, "TRANSFER") /\ IsCredit(p, q, order)
        /\ incoming' = Append(incoming, [order |-> order, time |-> now])
        /\ Sends(p, "ACK", Nothing, to)
        /\ UNCHANGED <<pc, protocol, history, outgoing>>
        /\ \A a \in Worker : a # p => ledger'[a] = ledger[a]
    BY <1>0 DEF ReceiveTransfer, BankInv, TypeInv, TypeOK
  <1>2. /\ p \in Worker /\ pc[p] = "serving" /\ m \in Frames(q, p) /\ m.type = "TRANSFER"
        /\ MoneyOk(q, p, m) /\ order = Orders[next] /\ next \in 1..Len(Orders)
        /\ order \in TransferOrder /\ ValidOrder(order)
        /\ ~Stopping /\ stopped = {} /\ AllBorn
        /\ pc[PARENT_ID] \notin {"boot", "starting", "robbing"}
        /\ \A c, d \in Node : \A k \in Frames(c, d) : Money(k) => c = q /\ d = p /\ k = m
    BY <1>0, <1>1, TransferTaken
  <1>3. q = order.src /\ p = order.dst /\ q \in Worker /\ q # PARENT_ID /\ p # PARENT_ID
    BY <1>0, <1>1, <1>2 DEF IsCredit, ValidOrder
  <1>4. f \in Frame /\ f.type = "ACK"
    <2>1. "ACK" \in MessageType
      BY DEF MessageType
    <2> QED
      BY <1>0, <2>1, FrameType
  <1>5. \A x \in Frames(p, PARENT_ID) : Rank(x) < Rank(f)
    <2>1. ASSUME NEW x \in Frames(p, PARENT_ID) PROVE x.type = "STARTED"
      <3>1. FrameOk(p, PARENT_ID, x) /\ ~Money(x)
        BY <1>2, <1>3 DEF BankInv, SenderInv
      <3> QED
        BY <1>2, <1>3, <3>1 DEF FrameOk, Money, Reported
    <2> QED
      BY <1>4, <2>1, RankOf
  <1>6. Gets(p, q, m, f, to) /\ New(p, f, to) /\ OrderInv'
    <2>1. \A b \in Node : b \in to => \A x \in Frames(p, b) : Rank(x) < Rank(f)
      BY <1>0, <1>5
    <2> QED
      BY <1>0, <1>1, <1>4, <2>1, ReplyStep
  <1>7. Grows
    BY <1>1, <1>2 DEF Grows, protocol
  <1>8. SenderInv'
    <2>1. ASSUME NEW b \in Node, b \in to PROVE FrameOk(p, b, f)'
      BY <1>0, <1>1, <1>2, <1>3, <1>4, <2>1 DEF FrameOk, Born
    <2> QED
      BY <1>6, <1>7, <2>1, SenderKept DEF BankInv
  <1>9. ReceiverInv'
    <2>1. Fresh(p, f, to)
      BY <1>2, <1>3 DEF Fresh, Reported
    <2> QED
      BY <1>1, <1>2, <1>3, <1>6, <1>7, <2>1, ReceiverKept DEF BankInv, protocol
  <1>10. PhaseInv'
    <2>1. outbox'[PARENT_ID] = outbox[PARENT_ID]
      BY <1>1, <1>3 DEF Sends, TypeOK
    <2> QED
      BY <1>1, <1>2, <1>3, <1>6, <2>1, PhaseKept DEF BankInv, protocol
  <1>11. MoneyInv'
    <2>1. \A a, b \in Node : \A k \in Frames(a, b)' :
            Money(k) => a = p /\ b = PARENT_ID /\ k = f
      BY <1>0, <1>2, <1>3, <1>6 DEF Gets
    <2>2. Len(outgoing) = next /\ Len(incoming) = next - 1
      BY <1>2, <1>3 DEF MoneyOk
    <2>3. Len(incoming') = next
      <3>1. incoming \in Seq(Event) /\ next \in Nat /\ now \in Nat
        BY <1>1, <1>2, Pa2Assumption DEF TypeOK
      <3>2. [order |-> order, time |-> now] \in Event
        BY <1>2, <3>1 DEF Event
      <3> QED
        BY <1>1, <2>2, <3>1, <3>2, AppendProperties
    <2>4. MoneyOk(p, PARENT_ID, f)'
      BY <1>0, <1>1, <1>2, <1>3, <1>4, <2>2, <2>3 DEF MoneyOk, protocol
    <2> QED
      BY <1>1, <1>2, <1>3, <2>1, <2>4, MoneyMoved
  <1> QED
    BY <1>6, <1>8, <1>9, <1>10, <1>11 DEF BankInv

-----------------------------------------------------------------------------
(* The steps that take a frame and send nothing. *)

LEMMA NextPeer ==
  ASSUME TypeOK, NEW n \in Node, ToNextPeer(n)
  PROVE  peer'[PARENT_ID] = IF n = PARENT_ID THEN peer[PARENT_ID] + 1 ELSE peer[PARENT_ID]
  <1>1. peer[PARENT_ID] \in Nat /\ peer[PARENT_ID] + 1 # PARENT_ID
    BY NodeFacts DEF TypeOK, PARENT_ID
  <1> QED
    BY <1>1, NodeFacts DEF ToNextPeer, TypeOK, PeerFrom

LEMMA TakeKeeps ==
  ASSUME BankInv, TypeInv', PcMoves, NEW n \in Node, NEW q \in Node \ {n}, NEW m, NEW any,
         m = Received(n, q), Takes(n, q, any), UNCHANGED <<outbox, stopped, ledger>>,
         \A p \in Worker : done[p] \subseteq done'[p]
  PROVE  /\ TypeOK /\ TypeOK' /\ Grows /\ OrderInv' /\ SenderInv'
         /\ Gets(n, q, m, m, {}) /\ New(n, m, {})
         /\ m \in Frames(q, n) /\ m.type = any /\ FrameOk(q, n, m)
  <1>1. TypeOK /\ TypeOK' /\ OrderInv
    BY DEF BankInv, TypeInv
  <1>2. Gets(n, q, m, m, {}) /\ New(n, m, {}) /\ OrderInv'
    BY <1>1, TakeStep
  <1>3. Grows
    BY DEF Grows
  <1>4. SenderInv'
    BY <1>2, <1>3, SenderKept DEF BankInv
  <1>5. m \in Frames(q, n) /\ m.type = any /\ FrameOk(q, n, m)
    BY <1>1, TakenFrame DEF BankInv, SenderInv
  <1> QED
    BY <1>1, <1>2, <1>3, <1>4, <1>5

LEMMA StartedStep ==
  ASSUME BankInv, TypeInv', PcMoves, NEW p \in Node, NEW q \in Node \ {p}, AwaitStarted(p, q)
  PROVE  BankInv'
  <1> USE NodeFacts
  <1>0. PICK m : m = Received(p, q)
    OBVIOUS
  <1>1. /\ Takes(p, q, "STARTED") /\ ToNextPeer(p)
        /\ UNCHANGED <<pc, outbox, next, stopped, done, accounts>>
    BY DEF AwaitStarted
  <1>2. /\ TypeOK /\ TypeOK' /\ Grows /\ OrderInv' /\ SenderInv'
        /\ Gets(p, q, m, m, {}) /\ New(p, m, {}) /\ FrameOk(q, p, m)
    BY <1>0, <1>1, TakeKeeps DEF accounts
  <1>3. pc[p] = "starting" /\ q = peer[p] /\ q \in Worker /\ Born(q)
    <2>1. pc[p] = "starting" /\ q = peer[p] /\ q \in Worker
      BY <1>1, <1>2, TakesWhen
    <2> QED
      BY <1>2, <2>1 DEF FrameOk
  <1>4. p = PARENT_ID => peer'[PARENT_ID] = q + 1
    BY <1>1, <1>2, <1>3, NextPeer
  <1>5. p # PARENT_ID => peer'[PARENT_ID] = peer[PARENT_ID]
    BY <1>1, <1>2, NextPeer
  <1>6. ReceiverInv'
    <2>1. \A r \in Worker :
            (DoneHeard(r)' => DoneHeard(r)) /\ (HistoryHeard(r)' => HistoryHeard(r))
      BY <1>1, <1>3, <1>5 DEF DoneHeard, HistoryHeard
    <2> QED
      BY <1>1, <1>2, <2>1, ReceiverHeard DEF BankInv, accounts
  <1>7. PhaseInv'
    <2>1. \/ peer'[PARENT_ID] = peer[PARENT_ID]
          \/ \A r \in Worker : r < peer'[PARENT_ID] => r < peer[PARENT_ID] \/ Born(r)
      BY <1>3, <1>4, <1>5
    <2> QED
      BY <1>1, <1>2, <2>1, PhaseKept DEF BankInv, accounts, events, PhaseInv, Stopping, Started
  <1>8. MoneyInv'
    BY <1>1, <1>2, MoneyKept DEF BankInv, accounts, events
  <1> QED
    BY <1>2, <1>6, <1>7, <1>8 DEF BankInv

LEMMA DoneStep ==
  ASSUME BankInv, TypeInv', PcMoves, NEW p \in Node, NEW q \in Node \ {p}, ReceiveDone(p, q)
  PROVE  BankInv'
  <1> USE NodeFacts
  <1>0. PICK m : m = Received(p, q)
    OBVIOUS
  <1>1. /\ p \in Worker /\ Takes(p, q, "DONE")
        /\ done' = [done EXCEPT ![p] = @ \cup {q}]
        /\ UNCHANGED <<pc, outbox, peer, next, stopped, accounts>>
    BY DEF ReceiveDone
  <1>2. done'[p] = done[p] \cup {q} /\ \A r \in Worker : r # p => done'[r] = done[r]
    BY <1>1 DEF BankInv, TypeInv, TypeOK
  <1>3. /\ TypeOK /\ TypeOK' /\ Grows /\ OrderInv' /\ SenderInv'
        /\ Gets(p, q, m, m, {}) /\ New(p, m, {}) /\ FrameOk(q, p, m) /\ m.type = "DONE"
    <2>1. \A r \in Worker : done[r] \subseteq done'[r]
      BY <1>2
    <2> QED
      BY <1>0, <1>1, <2>1, TakeKeeps DEF accounts
  <1>4. pc[p] = "serving" /\ q \in stopped
    <2>1. pc[p] \in {"collecting", "serving"}
      BY <1>1, <1>3, TakesWhen
    <2>2. pc[p] # "collecting"
      BY <1>1 DEF BankInv, ReceiverInv, Over
    <2> QED
      BY <1>1, <1>3, <2>1, <2>2 DEF FrameOk
  <1>5. ReceiverInv'
    <2>1. \A x \in Frames(q, p)' : Rank(x) > 3
      BY <1>1, <1>3, RankOf DEF Gets
    <2> QED
      BY <1>1, <1>2, <1>3, <1>4, <2>1, ReceiverHeard
         DEF BankInv, accounts, DoneHeard, HistoryHeard
  <1>6. PhaseInv'
    BY <1>1, <1>3, PhaseKept DEF BankInv, accounts, events, PhaseInv, Stopping, Started
  <1>7. MoneyInv'
    BY <1>1, <1>3, MoneyKept DEF BankInv, accounts, events
  <1> QED
    BY <1>3, <1>5, <1>6, <1>7 DEF BankInv

LEMMA CollectStep ==
  ASSUME BankInv, TypeInv', PcMoves, NEW q \in Worker, AwaitDone(q)
  PROVE  BankInv'
  <1> USE NodeFacts
  <1>0. PICK m : m = Received(PARENT_ID, q)
    OBVIOUS
  <1>1. /\ Takes(PARENT_ID, q, "DONE") /\ ToNextPeer(PARENT_ID)
        /\ UNCHANGED <<pc, outbox, next, stopped, done, accounts>>
        /\ q \in Node \ {PARENT_ID}
    BY DEF AwaitDone
  <1>2. /\ TypeOK /\ TypeOK' /\ Grows /\ OrderInv' /\ SenderInv'
        /\ Gets(PARENT_ID, q, m, m, {}) /\ New(PARENT_ID, m, {}) /\ FrameOk(q, PARENT_ID, m)
        /\ m.type = "DONE"
    BY <1>0, <1>1, TakeKeeps DEF accounts
  <1>3. pc[PARENT_ID] = "collecting" /\ q = peer[PARENT_ID] /\ q \in stopped
    <2>1. pc[PARENT_ID] # "serving"
      BY <1>2 DEF TypeOK
    <2>2. pc[PARENT_ID] = "collecting" /\ q = peer[PARENT_ID]
      BY <1>1, <1>2, <2>1, TakesWhen
    <2> QED
      BY <1>2, <2>2 DEF FrameOk
  <1>4. peer'[PARENT_ID] = q + 1
    BY <1>1, <1>2, <1>3, NextPeer
  <1>5. ReceiverInv'
    <2>1. \A x \in Frames(q, PARENT_ID)' : Rank(x) > 3
      BY <1>1, <1>2, RankOf DEF Gets
    <2>2. \A r \in Worker : DoneHeard(r)' => DoneHeard(r) \/ r = q
      BY <1>1, <1>3, <1>4 DEF DoneHeard
    <2>3. \A r \in Worker : ~HistoryHeard(r)'
      BY <1>1, <1>3 DEF HistoryHeard
    <2> QED
      BY <1>1, <1>2, <1>3, <2>1, <2>2, <2>3, ReceiverHeard DEF BankInv, accounts
  <1>6. PhaseInv'
    BY <1>1, <1>2, <1>3, PhaseKept DEF BankInv, accounts, events, PhaseInv, Stopping, Started
  <1>7. MoneyInv'
    BY <1>1, <1>2, MoneyKept DEF BankInv, accounts, events
  <1> QED
    BY <1>2, <1>5, <1>6, <1>7 DEF BankInv

LEMMA GatherStep ==
  ASSUME BankInv, TypeInv', PcMoves, NEW q \in Worker, AwaitHistory(q)
  PROVE  BankInv'
  <1> USE NodeFacts
  <1>0. PICK m : m = Received(PARENT_ID, q)
    OBVIOUS
  <1>1. /\ Takes(PARENT_ID, q, "BALANCE_HISTORY")
        /\ ToNextPeer(PARENT_ID) /\ history' = [history EXCEPT ![q] = m.payload]
        /\ UNCHANGED <<pc, outbox, next, stopped, done, ledger, events>>
        /\ q \in Node \ {PARENT_ID}
    BY <1>0 DEF AwaitHistory
  <1>2. /\ TypeOK /\ TypeOK' /\ Grows /\ OrderInv' /\ SenderInv'
        /\ Gets(PARENT_ID, q, m, m, {}) /\ New(PARENT_ID, m, {}) /\ FrameOk(q, PARENT_ID, m)
        /\ m.type = "BALANCE_HISTORY"
    BY <1>0, <1>1, TakeKeeps
  <1>3. pc[PARENT_ID] = "gathering" /\ q = peer[PARENT_ID]
    BY <1>1, <1>2, TakesWhen
  <1>4. peer'[PARENT_ID] = q + 1
    BY <1>1, <1>2, <1>3, NextPeer
  <1>5. history'[q] = m.payload /\ \A r \in Worker : r # q => history'[r] = history[r]
    BY <1>1, <1>2 DEF TypeOK
  <1>6. ReceiverInv'
    <2>1. Frames(q, PARENT_ID)' = {} /\ history'[q] = ledger'[q] /\ Reported(q)'
      <3>1. \A x \in Frames(q, PARENT_ID) : Rank(x) > 3
        BY <1>3 DEF BankInv, ReceiverInv, DoneHeard
      <3>2. Frames(q, PARENT_ID)' = {}
        BY <1>1, <1>2, <3>1, RankOf, RankFacts DEF Gets
      <3> QED
        BY <1>1, <1>2, <1>5, <3>2 DEF FrameOk, Reported
    <2>2. \A r \in Worker : HistoryHeard(r)' => (HistoryHeard(r) /\ r # q) \/ r = q
      BY <1>1, <1>3, <1>4 DEF HistoryHeard
    <2>3. \A r \in Worker : DoneHeard(r)' => DoneHeard(r)
      BY <1>1, <1>3 DEF DoneHeard
    <2> QED
      BY <1>1, <1>2, <1>3, <1>5, <2>1, <2>2, <2>3, ReceiverHeard DEF BankInv
  <1>7. PhaseInv'
    BY <1>1, <1>2, <1>3, PhaseKept DEF BankInv, events, PhaseInv, Stopping, Started
  <1>8. MoneyInv'
    BY <1>1, <1>2, MoneyKept DEF BankInv, events
  <1> QED
    BY <1>2, <1>6, <1>7, <1>8 DEF BankInv

LEMMA AckStep ==
  ASSUME BankInv, TypeInv', PcMoves, NEW q \in Worker, AwaitAck(q)
  PROVE  BankInv'
  <1> USE NodeFacts
  <1>0. PICK m : m = Received(PARENT_ID, q)
    OBVIOUS
  <1>1. /\ Takes(PARENT_ID, q, "ACK")
        /\ next' = next + 1 /\ pc' = [pc EXCEPT ![PARENT_ID] = "robbing"]
        /\ UNCHANGED <<outbox, peer, stopped, done, accounts>>
        /\ q \in Node \ {PARENT_ID}
    BY DEF AwaitAck, Goto
  <1>2. /\ TypeOK /\ TypeOK' /\ Grows /\ OrderInv' /\ SenderInv'
        /\ Gets(PARENT_ID, q, m, m, {}) /\ New(PARENT_ID, m, {})
        /\ m \in Frames(q, PARENT_ID) /\ m.type = "ACK" /\ Money(m)
    BY <1>0, <1>1, TakeKeeps DEF accounts, Money
  <1>3. pc'[PARENT_ID] = "robbing" /\ ~Writing(PARENT_ID)
    BY <1>1, <1>2 DEF TypeOK, Takes, Reading
  <1>4. /\ MoneyOk(q, PARENT_ID, m) /\ ~Stopping /\ stopped = {} /\ AllBorn
        /\ pc[PARENT_ID] \notin {"boot", "starting", "robbing"}
        /\ \A c, d \in Node : \A k \in Frames(c, d) : Money(k) => c = q /\ d = PARENT_ID /\ k = m
        /\ next \in 1..Len(Orders)
    BY <1>1, <1>2, MoneyFacts
  <1>5. ReceiverInv'
    BY <1>1, <1>2, <1>3, ReceiverKept DEF BankInv, accounts
  <1>6. PhaseInv'
    BY <1>1, <1>2, <1>3, <1>4, PhaseKept DEF BankInv, accounts, events
  <1>7. MoneyInv'
    <2>1. NoMoney'
      BY <1>1, <1>2, <1>4 DEF Gets, NoMoney, Money
    <2>2. Len(outgoing) = next /\ Len(incoming) = next
      BY <1>4 DEF MoneyOk
    <2>3. next \in Nat /\ next' - 1 = next
      BY <1>1, <1>4, Pa2Assumption
    <2> QED
      BY <1>1, <2>1, <2>2, <2>3 DEF MoneyInv, NoMoney, accounts, events
  <1> QED
    BY <1>2, <1>5, <1>6, <1>7 DEF BankInv

-----------------------------------------------------------------------------
(* The end: STOP, DONE and the histories. *)

LEMMA BroadcastStep ==
  ASSUME BankInv, TypeInv', PcMoves, BroadcastStop
  PROVE  BankInv'
  <1> USE NodeFacts
  <1>0. PICK f : f = [type |-> "STOP", payload |-> Nothing]
    OBVIOUS
  <1>1. /\ TypeOK /\ TypeOK' /\ OrderInv /\ pc[PARENT_ID] = "robbing" /\ ~MoreOrders
        /\ Sends(PARENT_ID, "STOP", Nothing, Worker)
        /\ peer' = [peer EXCEPT ![PARENT_ID] = 1] /\ pc' = [pc EXCEPT ![PARENT_ID] = "collecting"]
        /\ UNCHANGED <<channel, next, stopped, done, accounts>>
    BY DEF BroadcastStop, Robbing, Goto, BankInv, TypeInv
  <1>2. ~Stopping /\ stopped = {} /\ NoMoney /\ ~Writing(PARENT_ID) /\ AllBorn
    BY <1>1 DEF BankInv, PhaseInv, Stopping, MoneyInv, Started
  <1>3. \A b \in Node : Frames(PARENT_ID, b) = {}
    BY <1>2 DEF BankInv, SenderInv, FrameOk, Stopping, NoMoney, Money
  <1>4. f \in Frame /\ f.type = "STOP" /\ ~Money(f)
    <2>1. "STOP" \in MessageType
      BY DEF MessageType
    <2> QED
      BY <1>0, <2>1, FrameType DEF Money
  <1>5. New(PARENT_ID, f, Worker) /\ OrderInv'
    BY <1>0, <1>1, <1>2, <1>3, <1>4, SendStep
  <1>6. Grows
    BY <1>1 DEF Grows, accounts
  <1>7. pc'[PARENT_ID] = "collecting" /\ peer'[PARENT_ID] = 1
    BY <1>1 DEF TypeOK
  <1>8. SenderInv'
    <2>1. ASSUME NEW b \in Node, b \in Worker PROVE FrameOk(PARENT_ID, b, f)'
      BY <1>4, <1>7, <2>1 DEF FrameOk
    <2> QED
      BY <1>5, <1>6, <2>1, SenderKept DEF BankInv
  <1>9. ReceiverInv'
    <2>1. Fresh(PARENT_ID, f, Worker)
      BY <1>2 DEF Fresh
    <2>2. \A p \in Worker : ~DoneHeard(p)' /\ ~HistoryHeard(p)'
      BY <1>7 DEF DoneHeard, HistoryHeard, Worker
    <2> QED
      BY <1>1, <1>5, <1>6, <2>1, <2>2, ReceiverHeard DEF BankInv
  <1>10. NoMoney'
    BY <1>2, <1>4, <1>5 DEF NoMoney, New, Money
  <1>11. PhaseInv'
    <2>1. next = Len(Orders) + 1
      <3>1. next \in 1..(Len(Orders) + 1) /\ ~(next <= Len(Orders)) /\ Len(Orders) \in Nat
        BY <1>1, Pa2Assumption, LenProperties DEF TypeOK, MoreOrders
      <3> QED
        BY <3>1
    <2>2. Len(outgoing) = next - 1 /\ Len(incoming) = next - 1
      BY <1>1 DEF BankInv, MoneyInv
    <2>3. AllBorn'
      BY <1>2, BornStays DEF AllBorn
    <2>4. Len(Orders) \in Nat
      BY Pa2Assumption
    <2> QED
      BY <1>1, <1>7, <1>10, <2>1, <2>2, <2>3, <2>4 DEF PhaseInv, accounts, events
  <1>12. MoneyInv'
    BY <1>1, <1>4, <1>5, <1>6, <1>7, MoneyKept DEF BankInv, accounts, events
  <1> QED
    BY <1>5, <1>8, <1>9, <1>11, <1>12 DEF BankInv

LEMMA StopStep ==
  ASSUME BankInv, TypeInv', PcMoves, NEW p \in Node, NEW q \in Node \ {p}, ReceiveStop(p, q)
  PROVE  BankInv'
  <1> USE NodeFacts
  <1>0. PICK m, to, f :
          /\ m = Received(p, q) /\ to = Node \ {p}
          /\ f = [type |-> "DONE", payload |-> Nothing]
    OBVIOUS
  <1>1. /\ TypeOK /\ TypeOK' /\ OrderInv
        /\ Takes(p, q, "STOP") /\ stopped' = stopped \cup {p}
        /\ Sends(p, "DONE", Nothing, to)
        /\ UNCHANGED <<pc, peer, next, done, history, events>>
        /\ \A a \in Worker : a # p => ledger'[a] = ledger[a]
    BY <1>0 DEF ReceiveStop, BankInv, TypeInv, TypeOK
  <1>2. /\ p \in Worker /\ pc[p] = "serving" /\ q = PARENT_ID /\ p \notin stopped
        /\ m \in Frames(PARENT_ID, p) /\ m.type = "STOP"
    <2>1. p \in Worker /\ pc[p] = "serving" /\ AcceptsByWorker(p, q, m) /\ m.type = "STOP"
      BY <1>0, <1>1, TakesWhen
    <2> QED
      BY <1>0, <1>1, <2>1, TakenFrame DEF AcceptsByWorker
  <1>3. f \in Frame /\ f.type = "DONE" /\ ~Money(f)
    <2>1. "DONE" \in MessageType
      BY DEF MessageType
    <2> QED
      BY <1>0, <2>1, FrameType DEF Money
  <1>4. ASSUME NEW b \in Node, NEW x \in Frames(p, b) PROVE Rank(x) < Rank(f)
    <2>1. FrameOk(p, b, x)
      BY DEF BankInv, SenderInv
    <2>2. x.type \in {"STARTED", "TRANSFER", "ACK"}
      BY <1>2, <2>1 DEF FrameOk, Reported
    <2> QED
      BY <1>3, <2>2, RankOf
  <1>5. Gets(p, q, m, f, to) /\ New(p, f, to) /\ OrderInv'
    BY <1>0, <1>1, <1>3, <1>4, ReplyStep
  <1>6. Grows
    BY <1>1, <1>2 DEF Grows
  <1>7. SenderInv'
    <2>1. ASSUME NEW b \in Node, b \in to PROVE FrameOk(p, b, f)'
      BY <1>0, <1>1, <1>2, <1>3, <2>1 DEF FrameOk, Born
    <2> QED
      BY <1>5, <1>6, <2>1, SenderKept DEF BankInv
  <1>8. ReceiverInv'
    <2>1. Fresh(p, f, to)
      BY <1>2 DEF Fresh, Reported
    <2>2. \A x \in Frames(PARENT_ID, p)' : Rank(x) > 3
      BY <1>2, <1>5, RankOf DEF Gets
    <2> QED
      BY <1>1, <1>2, <1>5, <1>6, <2>1, <2>2, ReceiverHeard DEF BankInv, DoneHeard, HistoryHeard
  <1>9. Stopping /\ AllBorn
    BY <1>2 DEF BankInv, PhaseInv, Started, Stopping
  <1>10. PhaseInv'
    <2>1. outbox'[PARENT_ID] = outbox[PARENT_ID]
      BY <1>1, <1>2 DEF Sends, TypeOK
    <2> QED
      BY <1>1, <1>2, <1>3, <1>5, <1>9, <2>1, PhaseKept DEF BankInv, events
  <1>11. MoneyInv'
    BY <1>1, <1>3, <1>5, <1>6, MoneyKept DEF BankInv, events
  <1> QED
    BY <1>5, <1>7, <1>8, <1>10, <1>11 DEF BankInv

LEMMA ReportStep ==
  ASSUME BankInv, TypeInv', PcMoves, NEW p \in Worker, ReportHistory(p)
  PROVE  BankInv'
  <1> USE NodeFacts
  <1>0. PICK book, to, f :
          /\ book = ledger'[p] /\ to = {PARENT_ID}
          /\ f = [type |-> "BALANCE_HISTORY", payload |-> book]
    OBVIOUS
  <1>1. /\ TypeOK /\ TypeOK' /\ OrderInv /\ Served(p)
        /\ Sends(p, "BALANCE_HISTORY", book, to)
        /\ pc' = [pc EXCEPT ![p] = "reporting"]
        /\ UNCHANGED <<channel, protocol, history, events>>
        /\ \A a \in Worker : a # p => ledger'[a] = ledger[a]
    BY <1>0 DEF ReportHistory, Goto, BankInv, TypeInv, TypeOK
  <1>2. /\ p \in Node /\ p # PARENT_ID /\ pc[p] = "serving" /\ ~Writing(p) /\ p \in stopped
        /\ pc'[p] = "reporting" /\ pc'[PARENT_ID] = pc[PARENT_ID]
    BY <1>1 DEF Served, TypeOK
  <1>3. f \in Frame /\ f.type = "BALANCE_HISTORY" /\ f.payload = book /\ ~Money(f)
    <2>1. "BALANCE_HISTORY" \in MessageType /\ book \in History
      BY <1>0, <1>1, <1>2 DEF MessageType, TypeOK
    <2> QED
      BY <1>0, <2>1, FrameType DEF Money
  <1>4. ASSUME NEW x \in Frames(p, PARENT_ID) PROVE Rank(x) < Rank(f)
    <2>1. FrameOk(p, PARENT_ID, x)
      BY <1>2 DEF BankInv, SenderInv
    <2>2. x.type \in {"STARTED", "ACK", "DONE"}
      BY <1>2, <2>1 DEF FrameOk, Reported
    <2> QED
      BY <1>3, <2>2, RankOf
  <1>5. New(p, f, to) /\ OrderInv'
    BY <1>0, <1>1, <1>2, <1>3, <1>4, SendStep
  <1>6. Grows
    BY <1>1, <1>2 DEF Grows, protocol
  <1>7. SenderInv'
    <2>1. ASSUME NEW b \in Node, b \in to PROVE FrameOk(p, b, f)'
      BY <1>0, <1>2, <1>3, <2>1 DEF FrameOk, Born, Reported
    <2> QED
      BY <1>5, <1>6, <2>1, SenderKept DEF BankInv
  <1>8. ReceiverInv'
    <2>1. Fresh(p, f, to)
      BY <1>0, <1>2, <1>3, RankOf DEF Fresh, Reported
    <2> QED
      BY <1>1, <1>2, <1>5, <1>6, <2>1, ReceiverKept DEF BankInv, protocol
  <1>9. PhaseInv'
    <2>1. outbox'[PARENT_ID] = outbox[PARENT_ID]
      BY <1>1, <1>2 DEF Sends, TypeOK
    <2>2. Stopping /\ AllBorn
      BY <1>2 DEF BankInv, PhaseInv, Stopping, Started
    <2> QED
      BY <1>1, <1>2, <1>3, <1>5, <2>1, <2>2, PhaseKept DEF BankInv, protocol, events
  <1>10. MoneyInv'
    BY <1>1, <1>2, <1>3, <1>5, <1>6, MoneyKept DEF BankInv, protocol, events, MoneyInv
  <1> QED
    BY <1>5, <1>7, <1>8, <1>9, <1>10 DEF BankInv

LEMMA AllDoneStep ==
  ASSUME BankInv, TypeInv', PcMoves, AllDone
  PROVE  BankInv'
  <1> USE NodeFacts
  <1> DEFINE f == Sending(PARENT_ID)
  <1>1. /\ TypeOK /\ TypeOK' /\ pc[PARENT_ID] = "collecting" /\ Passed
        /\ peer' = [peer EXCEPT ![PARENT_ID] = 1] /\ pc' = [pc EXCEPT ![PARENT_ID] = "gathering"]
        /\ UNCHANGED <<channel, outbox, next, stopped, done, accounts>>
    BY DEF AllDone, PastTheLast, Passed, Goto, BankInv, TypeInv
  <1>2. pc'[PARENT_ID] = "gathering" /\ peer'[PARENT_ID] = 1
    BY <1>1 DEF TypeOK
  <1>3. OrderInv' /\ New(PARENT_ID, f, {}) /\ Grows
    <2>1. Silent /\ OrderInv'
      BY <1>1, SamePipes, SilentFrames DEF BankInv
    <2> QED
      BY <1>1, <2>1, NewFrames, SameGrows DEF accounts
  <1> HIDE DEF f
  <1>4. SenderInv'
    BY <1>3, SenderKept DEF BankInv
  <1>5. ReceiverInv'
    <2>1. \A p \in Worker : p < peer[PARENT_ID]
      BY <1>1, PassedAll DEF Passed
    <2>2. \A p \in Worker : DoneHeard(p)
      BY <1>1, <2>1 DEF DoneHeard
    <2>3. \A p \in Worker : ~HistoryHeard(p)'
      BY <1>2 DEF HistoryHeard, Worker
    <2> QED
      BY <1>1, <1>3, <2>2, <2>3, ReceiverHeard DEF BankInv, accounts
  <1>6. PhaseInv'
    BY <1>1, <1>2, <1>3, PhaseKept DEF BankInv, accounts, events, PhaseInv, Stopping, Started
  <1>7. MoneyInv'
    BY <1>1, <1>2, <1>3, MoneyKept DEF BankInv, accounts, events
  <1> QED
    BY <1>3, <1>4, <1>5, <1>6, <1>7 DEF BankInv

LEMMA FinishStep ==
  ASSUME BankInv, TypeInv', PcMoves, FinishHistories
  PROVE  BankInv'
  <1> USE NodeFacts
  <1> DEFINE f == Sending(PARENT_ID)
  <1>1. /\ TypeOK /\ TypeOK' /\ pc[PARENT_ID] = "gathering" /\ Passed
        /\ pc' = [pc EXCEPT ![PARENT_ID] = "reaping"]
        /\ UNCHANGED <<channel, outbox, protocol, ledger, events>>
    BY DEF FinishHistories, PastTheLast, Passed, Goto, BankInv, TypeInv
  <1>2. pc'[PARENT_ID] = "reaping" /\ UNCHANGED <<peer, next, stopped, done>>
    BY <1>1 DEF TypeOK, protocol
  <1>3. OrderInv' /\ New(PARENT_ID, f, {}) /\ Grows
    <2>1. Silent /\ OrderInv'
      BY <1>1, SamePipes, SilentFrames DEF BankInv
    <2> QED
      BY <1>1, <1>2, <2>1, NewFrames, SameGrows
  <1> HIDE DEF f
  <1>4. SenderInv'
    BY <1>3, SenderKept DEF BankInv
  <1>5. ReceiverInv'
    <2>1. \A p \in Worker : p < peer[PARENT_ID]
      BY <1>1, PassedAll DEF Passed
    <2>2. \A p \in Worker : HistoryHeard(p) /\ ~DoneHeard(p)'
      BY <1>1, <1>2, <2>1 DEF HistoryHeard, DoneHeard
    <2> QED
      BY <1>1, <1>2, <1>3, <2>2, ReceiverHeard DEF BankInv
  <1>6. PhaseInv'
    BY <1>1, <1>2, <1>3, PhaseKept DEF BankInv, events, PhaseInv, Stopping, Started
  <1>7. MoneyInv'
    BY <1>1, <1>2, <1>3, MoneyKept DEF BankInv, events
  <1> QED
    BY <1>3, <1>4, <1>5, <1>6, <1>7 DEF BankInv

-----------------------------------------------------------------------------
(* The invariant. *)

LEMMA BankInit == Init => BankInv
  <1> SUFFICES ASSUME Init PROVE BankInv
    OBVIOUS
  <1> USE NodeFacts
  <1>1. TypeInv /\ TypeOK
    BY TypeInit DEF TypeInv
  <1>2. \A a, b \in Node : Way(a, b) = <<>> /\ Frames(a, b) = {}
    BY DEF Init, Way, Idle, Frames, Range
  <1>3. pc[PARENT_ID] = "boot" /\ \A p \in Worker : pc[p] = "unborn"
    BY DEF Init, NothingForked
  <1>4. OrderInv /\ SenderInv
    BY <1>2 DEF OrderInv, SenderInv, Ascending
  <1>5. ReceiverInv
    BY <1>3 DEF Init, ReceiverInv, DoneHeard, HistoryHeard
  <1>6. PhaseInv
    <2>1. peer[PARENT_ID] = 1
      BY DEF Init, PeerFrom, PARENT_ID, Node
    <2> QED
      BY <1>2, <1>3, <2>1 DEF Init, PhaseInv, Started, Stopping, Worker
  <1>7. MoneyInv
    BY <1>2 DEF Init, MoneyInv, NoMoney
  <1> QED
    BY <1>1, <1>4, <1>5, <1>6, <1>7 DEF BankInv

LEMMA BankStep == BankInv /\ [Next]_vars => BankInv'
<1> SUFFICES ASSUME BankInv, [Next]_vars PROVE BankInv'
  OBVIOUS
<1> USE NodeFacts
<1>0. TypeOK /\ TypeInv' /\ PcMoves
  BY TypeStep, StepMoves DEF BankInv, TypeInv
<1>1. ASSUME NEW n \in Node, NodeNext(n) PROVE BankInv'
  <2>1. CASE AnnounceStarted(n)
    BY <1>0, <2>1, AnnounceStep
  <2>2. CASE n \in Worker /\ ReportHistory(n)
    BY <1>0, <2>2, ReportStep
  <2>3. CASE PassStarted(n) \/ ExitChild(n)
    <3>1. /\ pc'[PARENT_ID] \notin {"collecting", "gathering"} \/ pc'[PARENT_ID] = pc[PARENT_ID]
          /\ pc'[PARENT_ID] = "robbing" => pc[PARENT_ID] # "acking"
      BY <1>0, <2>3 DEF PassStarted, ExitChild, Goto, TypeOK
    <3> QED
      BY <1>0, <2>3, <3>1, GotoStep DEF PassStarted, ExitChild
  <2>4. ASSUME NEW q \in Node \ {n}, WriteFrame(n, q) PROVE BankInv'
    BY <1>0, <2>4, WriteStep
  <2>5. ASSUME NEW q \in Node \ {n}, BrokenPipe(n, q) \/ RejectFrame(n, q) PROVE BankInv'
    BY <1>0, <2>5, FatalStep DEF BrokenPipe, RejectFrame
  <2>6. ASSUME NEW q \in Node \ {n}, AwaitStarted(n, q) PROVE BankInv'
    BY <1>0, <2>6, StartedStep
  <2>7. ASSUME NEW q \in Node \ {n}, ReceiveOrder(n, q) PROVE BankInv'
    BY <1>0, <2>7, OrderStep
  <2>8. ASSUME NEW q \in Node \ {n}, ReceiveTransfer(n, q) PROVE BankInv'
    BY <1>0, <2>8, TransferStep
  <2>9. ASSUME NEW q \in Node \ {n}, ReceiveStop(n, q) PROVE BankInv'
    BY <1>0, <2>9, StopStep
  <2>10. ASSUME NEW q \in Node \ {n}, ReceiveDone(n, q) PROVE BankInv'
    BY <1>0, <2>10, DoneStep
  <2>11. CASE PeersClosed(n) \/ Refuse(n)
    BY <1>0, <2>11, FatalStep DEF PeersClosed, Refuse
  <2> QED
    BY <1>1, <2>1, <2>2, <2>3, <2>4, <2>5, <2>6, <2>7, <2>8, <2>9, <2>10, <2>11 DEF NodeNext
<1>2. CASE ParentNext
  <2>1. CASE RequestTransfer
    BY <1>0, <2>1, RequestStep
  <2>2. CASE BroadcastStop
    BY <1>0, <2>2, BroadcastStep
  <2>3. CASE AllDone
    BY <1>0, <2>3, AllDoneStep
  <2>4. CASE FinishHistories
    BY <1>0, <2>4, FinishStep
  <2>5. ASSUME NEW q \in Worker, AwaitAck(q) PROVE BankInv'
    BY <1>0, <2>5, AckStep
  <2>6. ASSUME NEW q \in Worker, AwaitDone(q) PROVE BankInv'
    BY <1>0, <2>6, CollectStep
  <2>7. ASSUME NEW q \in Worker, AwaitHistory(q) PROVE BankInv'
    BY <1>0, <2>7, GatherStep
  <2> QED
    BY <1>2, <2>1, <2>2, <2>3, <2>4, <2>5, <2>6, <2>7 DEF ParentNext
<1>3. CASE Supervision \/ Signals
  <2>1. /\ pc'[PARENT_ID] \notin {"collecting", "gathering"} \/ pc'[PARENT_ID] = pc[PARENT_ID]
        /\ pc'[PARENT_ID] = "robbing" => pc[PARENT_ID] # "acking"
    <3>1. CASE Supervision
      BY <1>0, <3>1 DEF Supervision, AllForked, ReapInTurn, Reap, Fork, RefusedFork, ChildFailed,
                        StopWorker, Goto, TypeOK
    <3>2. CASE Signals
      BY <1>0, <3>2 DEF Signals, Kill, Goto, TypeOK
    <3> QED
      BY <1>3, <3>1, <3>2
  <2> QED
    BY <1>0, <1>3, <2>1, GotoStep DEF Supervision, Signals
<1>4. CASE Tick
  BY <1>0, <1>4, GotoStep DEF Tick
<1>5. CASE UNCHANGED vars
  BY <1>0, <1>5, GotoStep DEF vars, protocol, accounts, events
<1> QED
  BY <1>1, <1>2, <1>3, <1>4, <1>5 DEF Next

LEMMA BankAlways == Spec => []BankInv
  BY BankInit, BankStep, PTL DEF Spec

-----------------------------------------------------------------------------
(* The phases and the ends of the processes. *)

(* No account moves before every worker has announced itself, none after the *)
(* first STOP, and no history leaves a worker before all have stopped (the    *)
(* two barriers of child_main and parent_main in main.c).                     *)
THEOREM BarriersKept == Spec => []BarriersHold
  <1>1. BankInv => BarriersHold
    <2> SUFFICES ASSUME BankInv PROVE BarriersHold
      OBVIOUS
    <2>1. outgoing # <<>> => \A p \in Worker : pc[p] \notin {"unborn", "boot"}
      BY DEF BankInv, PhaseInv, Started, AllBorn, Born
    <2>2. stopped # {} => Len(incoming) = Len(Orders)
      BY DEF BankInv, PhaseInv, Stopping
    <2>3. ASSUME NEW p \in Worker, pc[p] \in {"reporting", "exited"} PROVE stopped = Worker
      <3>1. p \in stopped /\ Worker \ {p} \subseteq stopped
        BY <2>3 DEF BankInv, ReceiverInv, Peers
      <3>2. stopped \subseteq Worker
        BY DEF BankInv, TypeInv, TypeOK
      <3> QED
        BY <3>1, <3>2
    <2> QED
      BY <2>1, <2>2, <2>3 DEF BarriersHold
  <1> QED
    BY <1>1, BankAlways, PTL

(* The parent's last steps come after everybody else's. *)
EndInv ==
  /\ pc[PARENT_ID] \in {"exited", "failed"} => \A p \in Worker : pc[p] \in Over \cup {"unborn"}
  /\ pc[PARENT_ID] = "exited" => \A p \in Worker : pc[p] = "exited"

(* The parent's exit status is true: success means that every order was       *)
(* carried out and every worker exited with success, and unless it is killed  *)
(* the parent never ends before its children have (the waitpid loops of       *)
(* main.c and of stop_workers).                                               *)
THEOREM ParentIsRight == Spec => []ParentReports
  <1>1. Init => EndInv
    BY NodeFacts DEF Init, NothingForked, EndInv
  <1>2. TypeOK /\ EndInv /\ [Next]_vars => EndInv'
    <2> SUFFICES ASSUME EndInv, PcMoves PROVE EndInv'
      BY StepMoves
    <2> QED
      BY DEF EndInv, PcMoves, ParentMoves, WorkerMoves, Over
  <1>3. EndInv /\ BankInv => ParentReports
    BY DEF EndInv, BankInv, PhaseInv, Stopping, ParentReports
  <1>4. BankInv => TypeOK
    BY DEF BankInv, TypeInv
  <1> QED
    BY <1>1, <1>2, <1>3, <1>4, BankAlways, PTL DEF Spec
-----------------------------------------------------------------------------
(* Sums over lines of a log. *)

LEMMA PicksNone == \A log : Sum(log, {}) = 0
  BY SumOfNone DEF Sum

LEMMA PicksSame ==
  ASSUME NEW S, NEW log, NEW more, \A i \in S : more[i] = log[i]
  PROVE  Sum(more, S) = Sum(log, S)
  <1>1. [i \in S |-> more[i].order.amount] = [i \in S |-> log[i].order.amount]
    OBVIOUS
  <1> QED
    BY <1>1 DEF Sum

LEMMA PicksMore ==
  ASSUME NEW S, IsFiniteSet(S), NEW n, n \notin S, NEW log,
         \A i \in S \cup {n} : log[i].order.amount \in Int
  PROVE  Sum(log, S \cup {n}) = Sum(log, S) + log[n].order.amount
  <1> DEFINE f == [i \in S |-> log[i].order.amount]
             g == [i \in S \cup {n} |-> log[i].order.amount]
  <1>1. /\ DOMAIN f = S /\ DOMAIN g = S \cup {n} /\ g[n] \in Int
        /\ \A i \in S : f[i] \in Int /\ g[i] = f[i]
        /\ g[n] = log[n].order.amount
    OBVIOUS
  <1>2. SumFunction(f) \in Int /\ SumFunction(g) = SumFunction(f) + g[n]
    <2> HIDE DEF f, g
    <2> QED
      BY <1>1, SumOneMore
  <1> QED
    BY <1>1, <1>2 DEF Sum
LEMMA LogTypes ==
  ASSUME NEW log \in Seq(Event)
  PROVE  /\ \A i \in DOMAIN log :
              log[i] \in Event /\ log[i].order.amount \in Int /\ log[i].time \in Nat
         /\ \A S \in SUBSET DOMAIN log : IsFiniteSet(S) /\ Sum(log, S) \in Int
  <1>1. \A i \in DOMAIN log : log[i] \in Event
    BY ElementOfSeq
  <1>2. \A i \in DOMAIN log : log[i].order.amount \in Int /\ log[i].time \in Nat
    BY <1>1 DEF Event, TransferOrder
  <1>3. IsFiniteSet(DOMAIN log)
    BY FS_Interval
  <1>4. ASSUME NEW S \in SUBSET DOMAIN log PROVE IsFiniteSet(S) /\ Sum(log, S) \in Int
    <2>1. IsFiniteSet(S)
      BY <1>3, FS_Subset
    <2>2. \A f : DOMAIN f = S /\ (\A i \in S : f[i] \in Int) => SumFunction(f) \in Int
      BY <2>1, SumType DEF SumFunction
    <2> QED
      BY <1>2, <2>1, <2>2 DEF Sum
  <1> QED
    BY <1>1, <1>2, <1>4

LEMMA LogAppend ==
  ASSUME NEW log \in Seq(Event), NEW e \in Event
  PROVE  /\ Append(log, e) \in Seq(Event)
         /\ Len(log) \in Nat /\ DOMAIN log = 1..Len(log)
         /\ DOMAIN Append(log, e) = 1..(Len(log) + 1)
         /\ Append(log, e)[Len(log) + 1] = e
         /\ \A i \in 1..Len(log) : Append(log, e)[i] = log[i]
  BY AppendProperties

(* What a sum makes of a line that is new in the log. *)
NewLine(more, log, n, amount) ==
  /\ log \in Seq(Event) /\ more \in Seq(Event)
  /\ n \in DOMAIN more /\ n \notin DOMAIN log /\ more[n].order.amount = amount
  /\ \A i \in DOMAIN log : i \in DOMAIN more /\ more[i] = log[i]

LEMMA SumAppend ==
  ASSUME NEW log, NEW more, NEW n, NEW amount, NewLine(more, log, n, amount),
         NEW S, S \subseteq DOMAIN log
  PROVE  /\ Sum(log, S) \in Int /\ amount \in Int
         /\ Sum(more, S) = Sum(log, S)
         /\ Sum(more, S \cup {n}) = Sum(log, S) + amount
  <1>1. IsFiniteSet(S) /\ Sum(log, S) \in Int
    BY LogTypes DEF NewLine
  <1>2. n \notin S /\ \A i \in S \cup {n} : more[i].order.amount \in Int
    BY LogTypes DEF NewLine
  <1>3. Sum(more, S) = Sum(log, S)
    BY PicksSame DEF NewLine
  <1>4. Sum(more, S \cup {n}) = Sum(more, S) + more[n].order.amount
    BY <1>1, <1>2, PicksMore
  <1>5. more[n].order.amount = amount /\ more[n].order.amount \in Int
    BY <1>2 DEF NewLine
  <1> QED
    BY <1>1, <1>3, <1>4, <1>5
-----------------------------------------------------------------------------
(* The log of the transfers. *)

LogInv ==
  /\ Len(incoming) <= Len(outgoing) /\ Len(outgoing) <= Len(incoming) + 1
  /\ \A i \in DOMAIN outgoing : outgoing[i].order = Orders[i] /\ outgoing[i].time <= now
  /\ \A i \in DOMAIN incoming :
       /\ incoming[i].order = Orders[i] /\ incoming[i].time <= now
       /\ outgoing[i].time <= incoming[i].time

LEMMA EventsMove ==
  TypeOK /\ [Next]_vars =>
    \/ UNCHANGED events /\ now' \in Nat /\ now <= now'
    \/ \E p \in Node : \E q \in Node \ {p} : ReceiveOrder(p, q) \/ ReceiveTransfer(p, q)
<1> SUFFICES ASSUME TypeOK, [Next]_vars,
                    ~\E p \in Node : \E q \in Node \ {p} :
                        ReceiveOrder(p, q) \/ ReceiveTransfer(p, q)
             PROVE  UNCHANGED events /\ now' \in Nat /\ now <= now'
  OBVIOUS
<1>0. now \in Nat
  BY DEF TypeOK
<1>1. ASSUME NEW p \in Node, NodeNext(p) PROVE UNCHANGED <<now, events>>
  BY <1>1 DEF NodeNext, AnnounceStarted, PassStarted, ReportHistory, ExitChild, WriteFrame,
              BrokenPipe, AwaitStarted, RejectFrame, ReceiveStop, ReceiveDone, PeersClosed,
              Refuse, Fatal, accounts, events
<1>2. CASE ParentNext
  BY <1>0, <1>2 DEF ParentNext, RequestTransfer, BroadcastStop, AllDone, FinishHistories,
              AwaitAck, AwaitDone, AwaitHistory, accounts
<1>3. CASE Supervision \/ Signals \/ UNCHANGED vars
  BY <1>0, <1>3 DEF Supervision, Signals, accounts, vars, events
<1>4. CASE Tick
  BY <1>0, <1>4 DEF Tick, accounts
<1>5. UNCHANGED <<now, events>> => UNCHANGED events /\ now' \in Nat /\ now <= now'
  BY <1>0
<1> QED
  BY <1>1, <1>2, <1>3, <1>4, <1>5 DEF Next

(* What the step of a source and of a target write down. *)
LEMMA DebitFacts ==
  ASSUME BankInv, NEW p \in Node, NEW q \in Node \ {p}, ReceiveOrder(p, q)
  PROVE  /\ next \in 1..Len(Orders) /\ ValidOrder(Orders[next]) /\ Orders[next] \in TransferOrder
         /\ p = Orders[next].src /\ p \in Worker /\ pc[p] = "serving" /\ q = PARENT_ID
         /\ FitsHistory(now)
         /\ FitsBalance(Closing(ledger[p]).balance + (-Orders[next].amount))
         /\ Len(outgoing) = next - 1 /\ Len(incoming) = next - 1
         /\ outgoing' = Append(outgoing, [order |-> Orders[next], time |-> now])
         /\ incoming' = incoming /\ now' = now
         /\ ledger' = [ledger EXCEPT ![p] = Book(@, -Orders[next].amount)]
  <1> USE NodeFacts
  <1>0. PICK m : m = Received(p, q)
    OBVIOUS
  <1>1. TypeOK /\ Takes(p, q, "TRANSFER") /\ IsDebit(p, q, m.payload[1])
    BY <1>0 DEF ReceiveOrder, BankInv, TypeInv
  <1>2. /\ p \in Worker /\ pc[p] = "serving" /\ MoneyOk(q, p, m) /\ m.payload[1] = Orders[next]
        /\ next \in 1..Len(Orders) /\ ValidOrder(Orders[next]) /\ Orders[next] \in TransferOrder
        /\ FitsHistory(now)
    BY <1>0, <1>1, TransferTaken
  <1>3. q = PARENT_ID /\ p = Orders[next].src
    BY <1>1, <1>2 DEF IsDebit
  <1>4. FitsBalance(Closing(ledger[p]).balance + (-Orders[next].amount))
    <2>1. PICK order : order = m.payload[1]
      OBVIOUS
    <2>2. FitsBalance(Closing(ledger[p]).balance + (-order.amount))
      BY <1>0, <1>1, <2>1, TransferAccepted
    <2> QED
      BY <1>2, <2>1, <2>2
  <1>5. Len(outgoing) = next - 1 /\ Len(incoming) = next - 1
    BY <1>2, <1>3 DEF MoneyOk
  <1>6. /\ incoming' = incoming /\ now' = now
        /\ outgoing' = Append(outgoing, [order |-> Orders[next], time |-> now])
        /\ ledger' = [ledger EXCEPT ![p] = Book(@, -Orders[next].amount)]
    BY <1>0, <1>2 DEF ReceiveOrder
  <1> QED
    BY <1>2, <1>3, <1>4, <1>5, <1>6

LEMMA CreditFacts ==
  ASSUME BankInv, NEW p \in Node, NEW q \in Node \ {p}, ReceiveTransfer(p, q)
  PROVE  /\ next \in 1..Len(Orders) /\ ValidOrder(Orders[next]) /\ Orders[next] \in TransferOrder
         /\ p = Orders[next].dst /\ p \in Worker /\ pc[p] = "serving"
         /\ q = Orders[next].src /\ q \in Worker
         /\ FitsHistory(now) /\ FitsBalance(Closing(ledger[p]).balance + Orders[next].amount)
         /\ Len(outgoing) = next /\ Len(incoming) = next - 1
         /\ incoming' = Append(incoming, [order |-> Orders[next], time |-> now])
         /\ outgoing' = outgoing /\ now' = now
         /\ ledger' = [ledger EXCEPT ![p] = Book(@, Orders[next].amount)]
  <1> USE NodeFacts
  <1>0. PICK m : m = Received(p, q)
    OBVIOUS
  <1>1. TypeOK /\ Takes(p, q, "TRANSFER") /\ IsCredit(p, q, m.payload[1])
    BY <1>0 DEF ReceiveTransfer, BankInv, TypeInv
  <1>2. /\ p \in Worker /\ pc[p] = "serving" /\ MoneyOk(q, p, m) /\ m.payload[1] = Orders[next]
        /\ next \in 1..Len(Orders) /\ ValidOrder(Orders[next]) /\ Orders[next] \in TransferOrder
        /\ FitsHistory(now)
    BY <1>0, <1>1, TransferTaken
  <1>3. q = Orders[next].src /\ p = Orders[next].dst /\ q \in Worker /\ q # PARENT_ID
    BY <1>1, <1>2 DEF IsCredit, ValidOrder
  <1>4. FitsBalance(Closing(ledger[p]).balance + Orders[next].amount)
    <2>1. PICK order : order = m.payload[1]
      OBVIOUS
    <2>2. FitsBalance(Closing(ledger[p]).balance + order.amount)
      BY <1>0, <1>1, <2>1, TransferAccepted
    <2> QED
      BY <1>2, <2>1, <2>2
  <1>5. Len(outgoing) = next /\ Len(incoming) = next - 1
    BY <1>2, <1>3 DEF MoneyOk
  <1>6. /\ outgoing' = outgoing /\ now' = now
        /\ incoming' = Append(incoming, [order |-> Orders[next], time |-> now])
        /\ ledger' = [ledger EXCEPT ![p] = Book(@, Orders[next].amount)]
    BY <1>0, <1>2 DEF ReceiveTransfer
  <1> QED
    BY <1>2, <1>3, <1>4, <1>5, <1>6

LEMMA LogStep == BankInv /\ LogInv /\ [Next]_vars => LogInv'
<1> SUFFICES ASSUME BankInv, LogInv, [Next]_vars PROVE LogInv'
  OBVIOUS
<1>0. /\ outgoing \in Seq(Event) /\ incoming \in Seq(Event) /\ next \in Nat /\ now \in Nat
      /\ Len(outgoing) \in Nat /\ Len(incoming) \in Nat
      /\ \A i \in DOMAIN outgoing : outgoing[i].time \in Nat
      /\ \A i \in DOMAIN incoming : incoming[i].time \in Nat
  <2>1. outgoing \in Seq(Event) /\ incoming \in Seq(Event) /\ next \in Nat /\ now \in Nat
    BY Pa2Assumption DEF BankInv, TypeInv, TypeOK
  <2> QED
    BY <2>1, LogTypes
<1>1. ASSUME NEW p \in Node, NEW q \in Node \ {p}, ReceiveOrder(p, q) PROVE LogInv'
  <2>1. PICK e : e = [order |-> Orders[next], time |-> now]
    OBVIOUS
  <2>2. /\ Len(outgoing) = next - 1 /\ Len(incoming) = next - 1 /\ Orders[next] \in TransferOrder
        /\ outgoing' = Append(outgoing, e) /\ incoming' = incoming /\ now' = now
    BY <1>1, <2>1, DebitFacts
  <2>3. e \in Event
    BY <1>0, <2>1, <2>2 DEF Event
  <2>4. /\ Len(outgoing') = next /\ DOMAIN outgoing' = 1..next /\ DOMAIN incoming = 1..(next - 1)
        /\ outgoing'[next] = e
        /\ \A i \in 1..(next - 1) : outgoing'[i] = outgoing[i]
        /\ DOMAIN outgoing = 1..(next - 1)
    BY <1>0, <2>2, <2>3, AppendProperties
  <2>5. ASSUME NEW i \in DOMAIN outgoing'
        PROVE  outgoing'[i].order = Orders[i] /\ outgoing'[i].time <= now
    <3>1. CASE i = next
      BY <1>0, <2>1, <2>4, <3>1
    <3>2. CASE i # next
      BY <1>0, <2>4, <3>2 DEF LogInv
    <3> QED
      BY <3>1, <3>2
  <2>6. ASSUME NEW i \in DOMAIN incoming
        PROVE  /\ incoming[i].order = Orders[i] /\ incoming[i].time <= now
               /\ outgoing'[i].time <= incoming[i].time
    BY <2>4 DEF LogInv
  <2>7. Len(incoming) <= Len(outgoing') /\ Len(outgoing') <= Len(incoming) + 1
    BY <1>0, <2>2, <2>4
  <2> QED
    BY <2>2, <2>5, <2>6, <2>7 DEF LogInv
<1>2. ASSUME NEW p \in Node, NEW q \in Node \ {p}, ReceiveTransfer(p, q) PROVE LogInv'
  <2>1. PICK e : e = [order |-> Orders[next], time |-> now]
    OBVIOUS
  <2>2. /\ Len(outgoing) = next /\ Len(incoming) = next - 1 /\ next \in 1..Len(Orders)
        /\ Orders[next] \in TransferOrder
        /\ incoming' = Append(incoming, e) /\ outgoing' = outgoing /\ now' = now
    BY <1>2, <2>1, CreditFacts
  <2>3. e \in Event
    BY <1>0, <2>1, <2>2 DEF Event
  <2>4. /\ Len(incoming') = next /\ DOMAIN incoming' = 1..next /\ DOMAIN outgoing = 1..next
        /\ incoming'[next] = e
        /\ \A i \in 1..(next - 1) : incoming'[i] = incoming[i]
        /\ DOMAIN incoming = 1..(next - 1)
    BY <1>0, <2>2, <2>3, AppendProperties
  <2>5. ASSUME NEW i \in DOMAIN incoming'
        PROVE  /\ incoming'[i].order = Orders[i] /\ incoming'[i].time <= now
               /\ outgoing[i].time <= incoming'[i].time
    <3>1. CASE i = next
      <4>1. outgoing[i].time <= now
        BY <2>4 DEF LogInv
      <4> QED
        BY <1>0, <2>1, <2>4, <3>1, <4>1
    <3>2. CASE i # next
      BY <1>0, <2>4, <3>2 DEF LogInv
    <3> QED
      BY <3>1, <3>2
  <2>6. Len(incoming') <= Len(outgoing) /\ Len(outgoing) <= Len(incoming') + 1
    BY <1>0, <2>2, <2>4
  <2> QED
    BY <2>2, <2>5, <2>6 DEF LogInv
<1>3. CASE UNCHANGED events /\ now' \in Nat /\ now <= now'
  BY <1>0, <1>3 DEF events, LogInv
<1> QED
  BY <1>1, <1>2, <1>3, EventsMove DEF BankInv, TypeInv

LEMMA LogAlways == Spec => []LogInv
  <1>1. Init => LogInv
    BY DEF Init, LogInv
  <1> QED
    BY <1>1, LogStep, BankAlways, PTL DEF Spec

-----------------------------------------------------------------------------
(* Booking: from its time on the account holds the amount more. *)

LEMMA AtBook ==
  ASSUME NEW account \in History, now \in Nat, FitsHistory(now), NEW amount \in Int,
         Settled(account), Len(account) <= now + 1
  PROVE  /\ Settled(Book(account, amount)) /\ Len(Book(account, amount)) = now + 1
         /\ Closing(Book(account, amount)).balance = Closing(account).balance + amount
         /\ \A t \in Nat : At(Book(account, amount), t) =
              IF now <= t THEN [balance |-> At(account, t).balance + amount, pending_in |-> 0]
              ELSE At(account, t)
  <1> DEFINE e == Extend(account, now)
             b == Book(account, amount)
             last == Closing(account)
             state == [balance |-> last.balance + amount, pending_in |-> 0]
  <1>1. Len(account) \in Nat \ {0} /\ last = [balance |-> last.balance, pending_in |-> 0]
        /\ last.balance \in Int
    BY AtType
  <1>2. /\ e \in History /\ Closing(e) = last /\ Len(e) = now + 1
        /\ \A t \in Nat : At(e, t) = At(account, t)
    <2>1. /\ e \in History /\ Closing(e) = last /\ \A t \in Nat : At(e, t) = At(account, t)
          /\ Len(e) = IF now >= Len(account) THEN now + 1 ELSE Len(account)
      BY AtExtend
    <2> QED
      BY <1>1, <2>1
  <1>3. e[now + 1] = last /\ e \in Seq(BalanceState) /\ DOMAIN e = 1..(now + 1)
    BY <1>2 DEF Closing, History
  <1>4. b = [e EXCEPT ![now + 1].balance = last.balance + amount]
    BY DEF Book
  <1> HIDE DEF e, b, last
  <1>5. [last EXCEPT !.balance = last.balance + amount] = state
    BY <1>1
  <1>6. b = [e EXCEPT ![now + 1] = state]
    BY <1>3, <1>4, <1>5
  <1> HIDE DEF state
  <1>7. /\ Len(b) = now + 1 /\ b[now + 1] = state /\ \A i \in 1..now : b[i] = e[i]
    BY <1>2, <1>3, <1>6
  <1>8. Closing(b) = state
    BY <1>7 DEF Closing
  <1>9. ASSUME NEW t \in Nat
        PROVE  At(b, t) =
                 IF now <= t THEN [balance |-> At(account, t).balance + amount, pending_in |-> 0]
                 ELSE At(account, t)
    <2>1. CASE ~(now <= t)
      BY <1>2, <1>7, <2>1 DEF At
    <2>2. CASE now <= t
      <3>1. At(b, t) = state
        BY <1>7, <1>8, <2>2 DEF At
      <3>2. At(e, t) = last
        BY <1>2, <1>3, <2>2 DEF At
      <3>3. At(account, t) = last
        BY <1>2, <3>2
      <3> QED
        BY <2>2, <3>1, <3>3 DEF state
    <2> QED
      BY <2>1, <2>2
  <1>10. state.balance = last.balance + amount /\ state.pending_in = 0
    BY DEF state
  <1> QED
    BY <1>7, <1>8, <1>9, <1>10 DEF Settled, b, last

(* From a time on one account holds d more. *)
MovesFrom(books, more, p, time, d) ==
  \A a \in Worker, t \in Nat :
    At(more[a], t) =
      IF a = p /\ time <= t THEN [balance |-> At(books[a], t).balance + d, pending_in |-> 0]
      ELSE At(books[a], t)

(* No history is ahead of the clock, and nothing is ever pending. *)
Tidy(books, time) == \A a \in Worker : Settled(books[a]) /\ Len(books[a]) <= time + 1

TidyInv == Tidy(ledger, now)

LEMMA BookMoves ==
  ASSUME NEW books \in [Worker -> History], NEW p \in Worker, NEW d \in Int,
         now \in Nat, FitsHistory(now), Tidy(books, now),
         NEW more, more = [books EXCEPT ![p] = Book(@, d)]
  PROVE  Tidy(more, now) /\ MovesFrom(books, more, p, now, d)
  <1>1. /\ books[p] \in History /\ Settled(books[p]) /\ Len(books[p]) <= now + 1
    BY DEF Tidy
  <1>2. PICK book : book = Book(books[p], d)
    OBVIOUS
  <1>3. /\ Settled(book) /\ Len(book) = now + 1
        /\ \A t \in Nat : At(book, t) =
             IF now <= t THEN [balance |-> At(books[p], t).balance + d, pending_in |-> 0]
             ELSE At(books[p], t)
    BY <1>1, <1>2, AtBook
  <1>4. more[p] = book /\ \A a \in Worker : a # p => more[a] = books[a]
    BY <1>2
  <1>5. Tidy(more, now)
    BY <1>3, <1>4 DEF Tidy
  <1>6. MovesFrom(books, more, p, now, d)
    BY <1>3, <1>4 DEF MovesFrom
  <1> QED
    BY <1>5, <1>6

SaySame(books, more) == \A a \in Worker, t \in Nat : At(more[a], t) = At(books[a], t)

(* p's history is brought up to the time of the clock. *)
Extends(p) ==
  /\ pc[p] = "serving" /\ FitsHistory(now)
  /\ ledger' = [ledger EXCEPT ![p] = Extend(@, now)]
  /\ UNCHANGED <<now, events>>

LEMMA ExtendMoves ==
  ASSUME NEW books \in [Worker -> History], NEW p \in Worker,
         now \in Nat, FitsHistory(now), Tidy(books, now),
         NEW more, more = [books EXCEPT ![p] = Extend(@, now)]
  PROVE  /\ Tidy(more, now) /\ SaySame(books, more) /\ now + 1 <= Len(more[p])
  <1>1. /\ books[p] \in History /\ Settled(books[p]) /\ Len(books[p]) <= now + 1
        /\ Len(books[p]) \in Nat
    BY DEF Tidy, History
  <1>2. PICK book : book = Extend(books[p], now)
    OBVIOUS
  <1>3. /\ Settled(book) /\ \A t \in Nat : At(book, t) = At(books[p], t)
        /\ Len(book) = IF now >= Len(books[p]) THEN now + 1 ELSE Len(books[p])
    BY <1>1, <1>2, AtExtend
  <1>4. more[p] = book /\ \A a \in Worker : a # p => more[a] = books[a]
    BY <1>2
  <1>5. Tidy(more, now)
    BY <1>1, <1>3, <1>4 DEF Tidy
  <1>6. now + 1 <= Len(more[p])
    BY <1>1, <1>3, <1>4
  <1> QED
    BY <1>3, <1>4, <1>5, <1>6 DEF SaySame

LEMMA StopExtends ==
  ASSUME TypeOK, NEW p \in Node, NEW q \in Node \ {p}, ReceiveStop(p, q)
  PROVE  p \in Worker /\ Extends(p)
  <1>1. Takes(p, q, "STOP")
    BY DEF ReceiveStop
  <1>2. pc[p] = "serving" /\ p \in Worker
    BY <1>1, TakesWhen
  <1>3. FitsHistory(now)
    <2>1. Received(p, q).type = "STOP" /\ AcceptsByWorker(p, q, Received(p, q))
      BY <1>1, <1>2, TakesWhen
    <2> QED
      BY <2>1 DEF AcceptsByWorker
  <1> QED
    BY <1>2, <1>3 DEF ReceiveStop, Extends

LEMMA ReportExtends ==
  ASSUME TypeOK, NEW p \in Worker, ReportHistory(p)
  PROVE  Extends(p)
  BY DEF ReportHistory, Served, Extends

LEMMA LedgerMoves ==
  TypeOK /\ [Next]_vars =>
    \/ UNCHANGED <<ledger, events>> /\ now' \in Nat /\ now <= now'
    \/ \E p \in Node : \E q \in Node \ {p} : ReceiveOrder(p, q) \/ ReceiveTransfer(p, q)
    \/ \E p \in Worker : Extends(p)
<1> SUFFICES ASSUME TypeOK, [Next]_vars,
                    ~\E p \in Node : \E q \in Node \ {p} :
                        ReceiveOrder(p, q) \/ ReceiveTransfer(p, q),
                    ~\E p \in Worker : Extends(p)
             PROVE  UNCHANGED ledger
  BY EventsMove DEF events
<1>1. ASSUME NEW p \in Node, NodeNext(p) PROVE UNCHANGED ledger
  <2>1. ~(p \in Worker /\ ReportHistory(p))
    BY ReportExtends
  <2>2. ~\E q \in Node \ {p} : ReceiveStop(p, q)
    BY StopExtends
  <2> QED
    BY <1>1, <2>1, <2>2 DEF NodeNext, AnnounceStarted, PassStarted, ExitChild, WriteFrame,
              BrokenPipe, AwaitStarted, RejectFrame, ReceiveDone, PeersClosed,
              Refuse, Fatal, accounts
<1>2. CASE ParentNext
  BY <1>2 DEF ParentNext, RequestTransfer, BroadcastStop, AllDone, FinishHistories,
              AwaitAck, AwaitDone, AwaitHistory, accounts
<1>3. CASE Supervision \/ Signals \/ Tick \/ UNCHANGED vars
  BY <1>3 DEF Supervision, Signals, Tick, accounts, vars
<1> QED
  BY <1>1, <1>2, <1>3 DEF Next

(* What the three kinds of steps do to the histories. *)
LEMMA DebitMoves ==
  ASSUME BankInv, TidyInv, NEW p \in Node, NEW q \in Node \ {p}, ReceiveOrder(p, q)
  PROVE  Tidy(ledger', now) /\ MovesFrom(ledger, ledger', p, now, -Orders[next].amount)
  <1>1. /\ ValidOrder(Orders[next]) /\ Orders[next] \in TransferOrder /\ p \in Worker
        /\ FitsHistory(now) /\ ledger' = [ledger EXCEPT ![p] = Book(@, -Orders[next].amount)]
    BY DebitFacts
  <1>2. PICK d, more : d = -Orders[next].amount /\ more = ledger'
    OBVIOUS
  <1>3. d \in Int /\ ledger \in [Worker -> History] /\ now \in Nat
    BY <1>1, <1>2, OrderFacts DEF BankInv, TypeInv, TypeOK
  <1>4. Tidy(more, now) /\ MovesFrom(ledger, more, p, now, d)
    BY <1>1, <1>2, <1>3, BookMoves DEF TidyInv
  <1> QED
    BY <1>2, <1>4

LEMMA CreditMoves ==
  ASSUME BankInv, TidyInv, NEW p \in Node, NEW q \in Node \ {p}, ReceiveTransfer(p, q)
  PROVE  Tidy(ledger', now) /\ MovesFrom(ledger, ledger', p, now, Orders[next].amount)
  <1>1. /\ ValidOrder(Orders[next]) /\ Orders[next] \in TransferOrder /\ p \in Worker
        /\ FitsHistory(now) /\ ledger' = [ledger EXCEPT ![p] = Book(@, Orders[next].amount)]
    BY CreditFacts
  <1>2. PICK d, more : d = Orders[next].amount /\ more = ledger'
    OBVIOUS
  <1>3. d \in Int /\ ledger \in [Worker -> History] /\ now \in Nat
    BY <1>1, <1>2, OrderFacts DEF BankInv, TypeInv, TypeOK
  <1>4. Tidy(more, now) /\ MovesFrom(ledger, more, p, now, d)
    BY <1>1, <1>2, <1>3, BookMoves DEF TidyInv
  <1> QED
    BY <1>2, <1>4

LEMMA ExtendsMoves ==
  ASSUME TypeOK, TidyInv, NEW p \in Worker, Extends(p)
  PROVE  Tidy(ledger', now) /\ SaySame(ledger, ledger')
  <1>1. PICK more : more = ledger'
    OBVIOUS
  <1>2. Tidy(more, now) /\ SaySame(ledger, more) /\ now + 1 <= Len(more[p])
    <2>1. more = [ledger EXCEPT ![p] = Extend(@, now)] /\ FitsHistory(now)
      BY <1>1 DEF Extends
    <2>2. ledger \in [Worker -> History] /\ now \in Nat /\ Tidy(ledger, now)
      BY DEF TypeOK, TidyInv
    <2> QED
      BY <2>1, <2>2, ExtendMoves
  <1> QED
    BY <1>1, <1>2

LEMMA TidyStep == BankInv /\ TidyInv /\ [Next]_vars => TidyInv'
<1> SUFFICES ASSUME BankInv, TidyInv, [Next]_vars PROVE Tidy(ledger', now')
  BY DEF TidyInv
<1>0. TypeOK /\ now \in Nat
  BY DEF BankInv, TypeInv, TypeOK
<1>1. ASSUME NEW p \in Node, NEW q \in Node \ {p}, ReceiveOrder(p, q) PROVE Tidy(ledger', now')
  BY <1>1, DebitMoves, DebitFacts
<1>2. ASSUME NEW p \in Node, NEW q \in Node \ {p}, ReceiveTransfer(p, q) PROVE Tidy(ledger', now')
  BY <1>2, CreditMoves, CreditFacts
<1>3. ASSUME NEW p \in Worker, Extends(p) PROVE Tidy(ledger', now')
  BY <1>0, <1>3, ExtendsMoves DEF Extends
<1>4. CASE UNCHANGED <<ledger, events>> /\ now' \in Nat /\ now <= now'
  <2>1. \A a \in Worker : Len(ledger[a]) \in Nat
    BY DEF BankInv, TypeInv, TypeOK, History
  <2> QED
    BY <1>0, <1>4, <2>1 DEF TidyInv, Tidy
<1> QED
  BY <1>0, <1>1, <1>2, <1>3, <1>4, LedgerMoves

LEMMA AtOpening ==
  ASSUME Init, NEW a \in Worker
  PROVE  /\ Settled(ledger[a]) /\ Len(ledger[a]) = 1
         /\ \A t \in Nat : At(ledger[a], t) = [balance |-> Initial[a], pending_in |-> 0]
  BY DEF Init, Opening, At, Closing, Settled

LEMMA TidyAlways == Spec => []TidyInv
  <1>1. Init => TidyInv
    <2> SUFFICES ASSUME Init, NEW a \in Worker PROVE Settled(ledger[a]) /\ Len(ledger[a]) <= now + 1
      BY DEF TidyInv, Tidy
    <2>1. now = 0
      BY DEF Init
    <2>2. Settled(ledger[a]) /\ Len(ledger[a]) = 1
      BY AtOpening
    <2> QED
      BY <2>1, <2>2
  <1> QED
    BY <1>1, TidyStep, BankAlways, PTL DEF Spec

-----------------------------------------------------------------------------
(* What an account holds at a time, from the lines of a log. *)

Spent(out, a, t) == {i \in DOMAIN out : out[i].order.src = a /\ out[i].time <= t}
Earned(in, a, t) == {i \in DOMAIN in : in[i].order.dst = a /\ in[i].time <= t}
Holding(out, in, a, t) ==
  Initial[a] - Sum(out, Spent(out, a, t)) + Sum(in, Earned(in, a, t))


LEMMA HoldingType ==
  ASSUME NEW out \in Seq(Event), NEW in \in Seq(Event), NEW a \in Worker, NEW t
  PROVE  /\ Sum(out, Spent(out, a, t)) \in Int /\ Sum(in, Earned(in, a, t)) \in Int
         /\ Initial[a] \in Int /\ Holding(out, in, a, t) \in Int
  <1>1. Spent(out, a, t) \in SUBSET DOMAIN out /\ Earned(in, a, t) \in SUBSET DOMAIN in
    BY DEF Spent, Earned
  <1>2. Sum(out, Spent(out, a, t)) \in Int /\ Sum(in, Earned(in, a, t)) \in Int
    BY <1>1, LogTypes
  <1>3. Initial[a] \in Int
    BY Pa2Assumption, BalanceTFacts
  <1> QED
    BY <1>2, <1>3 DEF Holding

(* A source's line adds to what it has spent, a target's to what it has      *)
(* earned, from the line's time on.                                          *)
LEMMA HoldingDebit ==
  ASSUME NEW out \in Seq(Event), NEW in \in Seq(Event),
         NEW e \in Event, NEW a \in Worker, NEW t \in Nat
  PROVE  Holding(Append(out, e), in, a, t) =
           Holding(out, in, a, t)
             - (IF a = e.order.src /\ e.time <= t THEN e.order.amount ELSE 0)
  <1>0. PICK n, more, s, d : /\ n = Len(out) + 1 /\ more = Append(out, e)
                             /\ s = Spent(out, a, t) /\ d = e.order.amount
    OBVIOUS
  <1>1. /\ more \in Seq(Event) /\ n \in DOMAIN more
        /\ n \notin DOMAIN out /\ DOMAIN more = DOMAIN out \cup {n}
        /\ more[n] = e /\ \A i \in DOMAIN out : i \in DOMAIN more /\ more[i] = out[i]
    BY <1>0, LogAppend
  <1>2. NewLine(more, out, n, d)
    BY <1>0, <1>1 DEF NewLine
  <1>3. Spent(more, a, t) = IF a = e.order.src /\ e.time <= t THEN s \cup {n} ELSE s
    BY <1>0, <1>1 DEF Spent
  <1>4. s \subseteq DOMAIN out
    BY <1>0 DEF Spent
  <1>5. /\ Sum(out, s) \in Int /\ d \in Int
        /\ Sum(more, s) = Sum(out, s)
        /\ Sum(more, s \cup {n}) = Sum(out, s) + d
    BY <1>2, <1>4, SumAppend
  <1>6. Sum(more, Spent(more, a, t))
          = Sum(out, s) + (IF a = e.order.src /\ e.time <= t THEN d ELSE 0)
    BY <1>3, <1>5
  <1>7. PICK x, y, z : /\ x = Initial[a] /\ y = Sum(out, s) /\ z = Sum(in, Earned(in, a, t))
    OBVIOUS
  <1>8. x \in Int /\ y \in Int /\ z \in Int
    BY <1>0, <1>5, <1>7, HoldingType
  <1>9. /\ Holding(out, in, a, t) = x - y + z
        /\ Holding(more, in, a, t) = x - Sum(more, Spent(more, a, t)) + z
    BY <1>0, <1>7 DEF Holding
  <1>10. Holding(more, in, a, t)
          = x - (y + (IF a = e.order.src /\ e.time <= t THEN d ELSE 0)) + z
    BY <1>6, <1>7, <1>9
  <1>11. d \in Int /\ Holding(more, in, a, t)
          = Holding(out, in, a, t) - (IF a = e.order.src /\ e.time <= t THEN d ELSE 0)
    BY <1>5, <1>8, <1>9, <1>10
  <1> QED
    BY <1>0, <1>11

LEMMA HoldingCredit ==
  ASSUME NEW out \in Seq(Event), NEW in \in Seq(Event),
         NEW e \in Event, NEW a \in Worker, NEW t \in Nat
  PROVE  Holding(out, Append(in, e), a, t) =
           Holding(out, in, a, t)
             + (IF a = e.order.dst /\ e.time <= t THEN e.order.amount ELSE 0)
  <1>0. PICK n, more, s, d : /\ n = Len(in) + 1 /\ more = Append(in, e)
                             /\ s = Earned(in, a, t) /\ d = e.order.amount
    OBVIOUS
  <1>1. /\ more \in Seq(Event) /\ n \in DOMAIN more
        /\ n \notin DOMAIN in /\ DOMAIN more = DOMAIN in \cup {n}
        /\ more[n] = e /\ \A i \in DOMAIN in : i \in DOMAIN more /\ more[i] = in[i]
    BY <1>0, LogAppend
  <1>2. NewLine(more, in, n, d)
    BY <1>0, <1>1 DEF NewLine
  <1>3. Earned(more, a, t) = IF a = e.order.dst /\ e.time <= t THEN s \cup {n} ELSE s
    BY <1>0, <1>1 DEF Earned
  <1>4. s \subseteq DOMAIN in
    BY <1>0 DEF Earned
  <1>5. /\ Sum(in, s) \in Int /\ d \in Int
        /\ Sum(more, s) = Sum(in, s)
        /\ Sum(more, s \cup {n}) = Sum(in, s) + d
    BY <1>2, <1>4, SumAppend
  <1>6. Sum(more, Earned(more, a, t))
          = Sum(in, s) + (IF a = e.order.dst /\ e.time <= t THEN d ELSE 0)
    BY <1>3, <1>5
  <1>7. PICK x, y, z : /\ x = Initial[a] /\ y = Sum(in, s) /\ z = Sum(out, Spent(out, a, t))
    OBVIOUS
  <1>8. x \in Int /\ y \in Int /\ z \in Int
    BY <1>0, <1>5, <1>7, HoldingType
  <1>9. /\ Holding(out, in, a, t) = x - z + y
        /\ Holding(out, more, a, t) = x - z + Sum(more, Earned(more, a, t))
    BY <1>0, <1>7 DEF Holding
  <1>10. Holding(out, more, a, t)
          = x - z + (y + (IF a = e.order.dst /\ e.time <= t THEN d ELSE 0))
    BY <1>6, <1>7, <1>9
  <1> QED
    BY <1>0, <1>5, <1>8, <1>9, <1>10

-----------------------------------------------------------------------------
(* The accounts: each history says what the log says, at every time. *)

Agrees(books, out, in) ==
  \A a \in Worker, t \in Nat :
    At(books[a], t) = [balance |-> Holding(out, in, a, t), pending_in |-> 0]

AccountInv == Agrees(ledger, outgoing, incoming)

LEMMA AgreesDebit ==
  ASSUME NEW books, NEW more, NEW out \in Seq(Event), NEW in \in Seq(Event),
         NEW e \in Event, NEW time \in Nat, e.time = time, NEW p, e.order.src = p,
         NEW d, -e.order.amount = d, Agrees(books, out, in), MovesFrom(books, more, p, time, d)
  PROVE  Agrees(more, Append(out, e), in)
  <1> SUFFICES ASSUME NEW a \in Worker, NEW t \in Nat
               PROVE  At(more[a], t) =
                        [balance |-> Holding(Append(out, e), in, a, t), pending_in |-> 0]
    BY DEF Agrees
  <1>1. PICK h, k, amount : /\ h = Holding(out, in, a, t) /\ k = Holding(Append(out, e), in, a, t)
                            /\ amount = e.order.amount
    OBVIOUS
  <1>2. h \in Int /\ amount \in Int
    BY <1>1, HoldingType DEF Event, TransferOrder
  <1>3. At(books[a], t) = [balance |-> h, pending_in |-> 0]
    BY <1>1 DEF Agrees
  <1>4. At(more[a], t) =
          IF a = p /\ time <= t THEN [balance |-> At(books[a], t).balance + d, pending_in |-> 0]
          ELSE At(books[a], t)
    BY DEF MovesFrom
  <1>5. k = h - (IF a = p /\ time <= t THEN amount ELSE 0)
    BY <1>1, HoldingDebit
  <1>6. At(books[a], t).balance + d = h - amount
    BY <1>1, <1>2, <1>3
  <1>7. At(more[a], t) = [balance |-> k, pending_in |-> 0]
    <2>1. CASE a = p /\ time <= t
      BY <1>4, <1>5, <1>6, <2>1
    <2>2. CASE ~(a = p /\ time <= t)
      BY <1>2, <1>3, <1>4, <1>5, <2>2
    <2> QED
      BY <2>1, <2>2
  <1> QED
    BY <1>1, <1>7

LEMMA AgreesCredit ==
  ASSUME NEW books, NEW more, NEW out \in Seq(Event), NEW in \in Seq(Event),
         NEW e \in Event, NEW time \in Nat, e.time = time, NEW p, e.order.dst = p,
         NEW d, e.order.amount = d, Agrees(books, out, in), MovesFrom(books, more, p, time, d)
  PROVE  Agrees(more, out, Append(in, e))
  <1> SUFFICES ASSUME NEW a \in Worker, NEW t \in Nat
               PROVE  At(more[a], t) =
                        [balance |-> Holding(out, Append(in, e), a, t), pending_in |-> 0]
    BY DEF Agrees
  <1>1. PICK h, k : h = Holding(out, in, a, t) /\ k = Holding(out, Append(in, e), a, t)
    OBVIOUS
  <1>2. h \in Int /\ d \in Int
    BY <1>1, HoldingType DEF Event, TransferOrder
  <1>3. At(books[a], t) = [balance |-> h, pending_in |-> 0]
    BY <1>1 DEF Agrees
  <1>4. At(more[a], t) =
          IF a = p /\ time <= t THEN [balance |-> At(books[a], t).balance + d, pending_in |-> 0]
          ELSE At(books[a], t)
    BY DEF MovesFrom
  <1>5. k = h + (IF a = p /\ time <= t THEN d ELSE 0)
    BY <1>1, HoldingCredit
  <1>6. At(more[a], t) = [balance |-> k, pending_in |-> 0]
    <2>1. CASE a = p /\ time <= t
      BY <1>3, <1>4, <1>5, <2>1
    <2>2. CASE ~(a = p /\ time <= t)
      BY <1>2, <1>3, <1>4, <1>5, <2>2
    <2> QED
      BY <2>1, <2>2
  <1> QED
    BY <1>1, <1>6

(* The line a source or a target writes is one of the log. *)
LEMMA LineType ==
  ASSUME TypeOK, NEW n, Orders[n] \in TransferOrder
  PROVE  [order |-> Orders[n], time |-> now] \in Event
  BY DEF TypeOK, Event

LEMMA AccountStep ==
  BankInv /\ TidyInv /\ AccountInv /\ [Next]_vars => AccountInv'
<1> SUFFICES ASSUME BankInv, TidyInv, AccountInv, [Next]_vars
             PROVE  Agrees(ledger', outgoing', incoming')
  BY DEF AccountInv
<1>0. /\ TypeOK /\ now \in Nat
      /\ outgoing \in Seq(Event) /\ incoming \in Seq(Event)
      /\ Agrees(ledger, outgoing, incoming)
  BY DEF BankInv, TypeInv, TypeOK, AccountInv
<1>1. ASSUME NEW p \in Node, NEW q \in Node \ {p}, ReceiveOrder(p, q)
      PROVE  Agrees(ledger', outgoing', incoming')
  <2>1. PICK e, d, more : /\ e = [order |-> Orders[next], time |-> now]
                          /\ d = -Orders[next].amount /\ more = ledger'
    OBVIOUS
  <2>2. /\ Orders[next] \in TransferOrder /\ p = Orders[next].src
        /\ outgoing' = Append(outgoing, e) /\ incoming' = incoming
    BY <1>1, <2>1, DebitFacts
  <2>3. MovesFrom(ledger, more, p, now, d)
    BY <1>1, <2>1, DebitMoves
  <2>4. e \in Event /\ e.time = now /\ e.order.src = p /\ -e.order.amount = d
    BY <1>0, <2>1, <2>2, LineType
  <2>5. Agrees(more, Append(outgoing, e), incoming)
    BY <1>0, <2>3, <2>4, AgreesDebit
  <2> QED
    BY <2>1, <2>2, <2>5
<1>2. ASSUME NEW p \in Node, NEW q \in Node \ {p}, ReceiveTransfer(p, q)
      PROVE  Agrees(ledger', outgoing', incoming')
  <2>1. PICK e, d, more : /\ e = [order |-> Orders[next], time |-> now]
                          /\ d = Orders[next].amount /\ more = ledger'
    OBVIOUS
  <2>2. /\ Orders[next] \in TransferOrder /\ p = Orders[next].dst
        /\ incoming' = Append(incoming, e) /\ outgoing' = outgoing
    BY <1>2, <2>1, CreditFacts
  <2>3. MovesFrom(ledger, more, p, now, d)
    BY <1>2, <2>1, CreditMoves
  <2>4. e \in Event /\ e.time = now /\ e.order.dst = p /\ e.order.amount = d
    BY <1>0, <2>1, <2>2, LineType
  <2>5. Agrees(more, outgoing, Append(incoming, e))
    BY <1>0, <2>3, <2>4, AgreesCredit
  <2> QED
    BY <2>1, <2>2, <2>5
<1>3. ASSUME NEW p \in Worker, Extends(p) PROVE Agrees(ledger', outgoing', incoming')
  <2>1. SaySame(ledger, ledger')
    BY <1>0, <1>3, ExtendsMoves
  <2>2. UNCHANGED events
    BY <1>3 DEF Extends
  <2> QED
    BY <1>0, <2>1, <2>2 DEF SaySame, Agrees, events
<1>4. CASE UNCHANGED <<ledger, events>>
  BY <1>0, <1>4 DEF events
<1> QED
  BY <1>0, <1>1, <1>2, <1>3, <1>4, LedgerMoves

LEMMA AccountAlways == Spec => []AccountInv
<1>1. Init => AccountInv
  <2> SUFFICES ASSUME Init, NEW a \in Worker, NEW t \in Nat
               PROVE  At(ledger[a], t) =
                        [balance |-> Holding(outgoing, incoming, a, t), pending_in |-> 0]
    BY DEF AccountInv, Agrees
  <2>1. outgoing = <<>> /\ incoming = <<>>
    BY DEF Init
  <2>2. Spent(outgoing, a, t) = {} /\ Earned(incoming, a, t) = {}
    BY <2>1 DEF Spent, Earned
  <2>3. Holding(outgoing, incoming, a, t) = Initial[a] - 0 + 0
    BY <2>2, PicksNone DEF Holding
  <2>4. Initial[a] \in Int
    BY Pa2Assumption, BalanceTFacts
  <2>5. Holding(outgoing, incoming, a, t) = Initial[a]
    BY <2>3, <2>4
  <2> QED
    BY <2>5, AtOpening
<1> QED
  BY <1>1, AccountStep, BankAlways, TidyAlways, PTL DEF Spec

-----------------------------------------------------------------------------
(* The histories the parent prints: those of the workers, brought to one     *)
(* length, and the workers' are final by then.                               *)

Finished == pc[PARENT_ID] \in {"reaping", "exited"}

Table(books) == [p \in Worker |-> Extend(books[p], Horizon(books, Worker))]
TableInv == Finished => history = Table(ledger)

LEMMA FinishedMoves ==
  ASSUME TypeOK, [Next]_vars, ~FinishHistories
  PROVE  Finished' => Finished /\ history' = history
<1> SUFFICES ASSUME Finished' PROVE Finished /\ history' = history
  OBVIOUS
<1> USE NodeFacts
<1>1. ASSUME NEW n \in Node, NodeNext(n) PROVE Finished /\ history' = history
  <2>1. pc' = pc \/ \E state \in {"starting", "robbing", "serving", "reporting", "exited",
                                  "stopping", "failed"} :
                      /\ Goto(n, state)
                      /\ n = PARENT_ID => state \in {"starting", "robbing", "stopping"}
    <3>1. CASE AnnounceStarted(n) \/ PassStarted(n)
      BY <3>1 DEF AnnounceStarted, PassStarted
    <3>2. CASE n \in Worker /\ (ReportHistory(n) \/ ExitChild(n))
      BY <3>2 DEF ReportHistory, ExitChild
    <3>3. ASSUME NEW q \in Node \ {n},
                 \/ WriteFrame(n, q) \/ AwaitStarted(n, q) \/ ReceiveOrder(n, q)
                 \/ ReceiveTransfer(n, q) \/ ReceiveStop(n, q) \/ ReceiveDone(n, q)
          PROVE  pc' = pc
      BY <3>3 DEF WriteFrame, AwaitStarted, ReceiveOrder, ReceiveTransfer, ReceiveStop,
                  ReceiveDone
    <3>4. Fatal(n) => Goto(n, IF n = PARENT_ID THEN "stopping" ELSE "failed")
      BY DEF Fatal, Fail
    <3>5. (\/ PeersClosed(n) \/ Refuse(n)
           \/ \E q \in Node \ {n} : BrokenPipe(n, q) \/ RejectFrame(n, q)) => Fatal(n)
      BY DEF PeersClosed, Refuse, BrokenPipe, RejectFrame
    <3> QED
      BY <1>1, <3>1, <3>2, <3>3, <3>4, <3>5 DEF NodeNext
  <2>2. Finished
    BY <2>1 DEF Finished, Goto, TypeOK
  <2>3. history' = history
    BY <1>1 DEF NodeNext, AnnounceStarted, PassStarted, ReportHistory, ExitChild, WriteFrame,
              BrokenPipe, AwaitStarted, RejectFrame, ReceiveOrder, ReceiveTransfer, ReceiveStop,
              ReceiveDone, PeersClosed, Refuse, Fatal, accounts
  <2> QED
    BY <2>2, <2>3
<1>2. CASE ParentNext
  <2>1. ASSUME NEW q \in Worker, AwaitAck(q) \/ AwaitDone(q) \/ AwaitHistory(q)
        PROVE  ~Finished'
    <3>1. pc[PARENT_ID] \notin {"reaping", "exited"}
      <4>1. Reading(PARENT_ID, q)
        BY <2>1 DEF AwaitAck, AwaitDone, AwaitHistory, Takes
      <4>2. q \in Awaited(PARENT_ID)
        BY <4>1 DEF Reading
      <4> QED
        BY <4>2 DEF Awaited
    <3> QED
      BY <2>1, <3>1 DEF AwaitAck, AwaitDone, AwaitHistory, Finished, Goto, TypeOK
  <2>2. CASE RequestTransfer \/ BroadcastStop \/ AllDone
    BY <2>2 DEF RequestTransfer, BroadcastStop, AllDone, Finished, Goto, TypeOK
  <2> QED
    BY <1>2, <2>1, <2>2 DEF ParentNext
<1>3. CASE Supervision
  BY <1>3 DEF Supervision, AllForked, ReapInTurn, Reap, Fork, NextToFork, RefusedFork, ChildFailed,
              StopWorker, Goto, Finished, TypeOK, accounts
<1>4. CASE Signals
  BY <1>4 DEF Signals, Kill, Goto, Finished, TypeOK, accounts
<1>5. CASE Tick \/ UNCHANGED vars
  BY <1>5 DEF Tick, vars, accounts, Finished
<1> QED
  BY <1>1, <1>2, <1>3, <1>4, <1>5 DEF Next

(* Nothing is booked or brought up to date any more. *)
LEMMA LedgerFinal ==
  ASSUME BankInv, [Next]_vars, Finished
  PROVE  ledger' = ledger
  <1>1. \A p \in Worker : pc[p] # "serving"
    BY DEF BankInv, ReceiverInv, HistoryHeard, Finished, Reported
  <1>2. ~\E p \in Node : \E q \in Node \ {p} : ReceiveOrder(p, q) \/ ReceiveTransfer(p, q)
    BY <1>1, DebitFacts, CreditFacts
  <1>3. ~\E p \in Worker : Extends(p)
    BY <1>1 DEF Extends
  <1> QED
    BY <1>2, <1>3, LedgerMoves DEF BankInv, TypeInv

LEMMA FinishMakesTable ==
  ASSUME BankInv, FinishHistories
  PROVE  history' = Table(ledger) /\ ledger' = ledger
  <1>1. /\ pc[PARENT_ID] = "gathering" /\ peer[PARENT_ID] > Children
        /\ history' = Table(history) /\ ledger' = ledger
    BY DEF FinishHistories, PastTheLast, Table
  <1>2. peer[PARENT_ID] \in Nat
    BY NodeFacts DEF BankInv, TypeInv, TypeOK
  <1>3. ASSUME NEW p \in Worker PROVE history[p] = ledger[p]
    <2>1. p < peer[PARENT_ID]
      BY <1>1, <1>2, NodeFacts DEF Worker
    <2> QED
      BY <1>1, <2>1 DEF BankInv, ReceiverInv, HistoryHeard
  <1>4. history = ledger
    <2>1. history \in [Worker -> {Nothing} \cup History] /\ ledger \in [Worker -> History]
      BY DEF BankInv, TypeInv, TypeOK
    <2> QED
      BY <1>3, <2>1
  <1> QED
    BY <1>1, <1>4

LEMMA TableStep == BankInv /\ TableInv /\ [Next]_vars => TableInv'
<1> SUFFICES ASSUME BankInv, TableInv, [Next]_vars, Finished'
             PROVE  history' = Table(ledger')
  BY DEF TableInv, Table
<1>1. CASE FinishHistories
  BY <1>1, FinishMakesTable
<1>2. CASE ~FinishHistories
  <2>1. Finished /\ history' = history
    BY <1>2, FinishedMoves DEF BankInv, TypeInv
  <2> QED
    BY <2>1, LedgerFinal DEF TableInv
<1> QED
  BY <1>1, <1>2

LEMMA TableAlways == Spec => []TableInv
  <1>1. Init => TableInv
    BY NodeFacts DEF Init, NothingForked, TableInv, Finished
  <1> QED
    BY <1>1, TableStep, BankAlways, PTL DEF Spec

LEMMA Matches ==
  ASSUME NEW book \in History, NEW a,
         \A t \in Nat :
           At(book, t) = [balance |-> Holding(outgoing, incoming, a, t), pending_in |-> 0]
  PROVE  MatchesEvents(book, a)
  <1> SUFFICES ASSUME NEW t \in 0..(Len(book) - 1)
               PROVE  book[t + 1] = [balance |-> BalanceFromEvents(a, t), pending_in |-> 0]
    BY DEF MatchesEvents
  <1>1. Len(book) \in Nat
    BY DEF History
  <1>2. t \in Nat /\ t < Len(book)
    BY <1>1
  <1>3. At(book, t) = book[t + 1]
    BY <1>2 DEF At
  <1>4. Holding(outgoing, incoming, a, t) = BalanceFromEvents(a, t)
    BY DEF Holding, Spent, Earned, BalanceFromEvents
  <1> QED
    BY <1>2, <1>3, <1>4

LEMMA TableFacts ==
  ASSUME TypeOK, TidyInv, NEW a \in Worker
  PROVE  /\ Table(ledger)[a] \in History /\ Len(Table(ledger)[a]) = Horizon(ledger, Worker) + 1
         /\ \A t \in Nat : At(Table(ledger)[a], t) = At(ledger[a], t)
  <1>1. \A p \in Worker : ledger[p] \in History
    BY DEF TypeOK
  <1>2. PICK h : h = Horizon(ledger, Worker)
    OBVIOUS
  <1>3. h \in Nat /\ FitsHistory(h) /\ Len(ledger[a]) <= h + 1 /\ Len(ledger[a]) \in Nat
    BY <1>1, <1>2, HorizonFacts DEF History
  <1>4. PICK book : book = ledger[a]
    OBVIOUS
  <1>5. book \in History /\ Settled(book)
    BY <1>1, <1>4 DEF TidyInv, Tidy
  <1>6. /\ Extend(book, h) \in History /\ \A t \in Nat : At(Extend(book, h), t) = At(book, t)
        /\ Len(Extend(book, h)) = IF h >= Len(book) THEN h + 1 ELSE Len(book)
    BY <1>3, <1>5, AtExtend
  <1>7. Table(ledger)[a] = Extend(book, h)
    BY <1>2, <1>4 DEF Table
  <1>8. Len(Extend(book, h)) = h + 1
    BY <1>3, <1>4, <1>6
  <1> QED
    BY <1>2, <1>4, <1>6, <1>7, <1>8

(* Every cell of every history is what the lines of events.log say, and the   *)
(* histories the parent prints have one length (apply_transfer, the updates   *)
(* of a history in child_main, and the end of parent_main in main.c).         *)
THEOREM HistoriesAgree == Spec => []HistoriesMatchEvents
<1>1. BankInv /\ TidyInv /\ AccountInv /\ TableInv => HistoriesMatchEvents
  <2> SUFFICES ASSUME BankInv, TidyInv, AccountInv, TableInv PROVE HistoriesMatchEvents
    OBVIOUS
  <2>1. TypeOK
    BY DEF BankInv, TypeInv
  <2>2. \A a \in Worker, t \in Nat :
          At(ledger[a], t) = [balance |-> Holding(outgoing, incoming, a, t), pending_in |-> 0]
    BY DEF AccountInv, Agrees
  <2>3. ASSUME NEW a \in Worker PROVE MatchesEvents(ledger[a], a)
    <3>1. ledger[a] \in History
      BY <2>1 DEF TypeOK
    <3> QED
      BY <2>2, <3>1, Matches
  <2>4. ASSUME Finished, NEW a \in Worker
        PROVE  MatchesEvents(history[a], a) /\ Len(history[a]) = Horizon(ledger, Worker) + 1
    <3>1. PICK book : book = history[a]
      OBVIOUS
    <3>2. /\ book \in History /\ Len(book) = Horizon(ledger, Worker) + 1
          /\ \A t \in Nat : At(book, t) = At(ledger[a], t)
      BY <2>1, <2>4, <3>1, TableFacts DEF TableInv
    <3>3. \A t \in Nat :
            At(book, t) = [balance |-> Holding(outgoing, incoming, a, t), pending_in |-> 0]
      BY <2>2, <3>2
    <3> QED
      BY <3>1, <3>2, <3>3, Matches
  <2> QED
    BY <2>3, <2>4 DEF Finished, HistoriesMatchEvents
<1> QED
  BY <1>1, BankAlways, TidyAlways, AccountAlways, TableAlways, PTL

-----------------------------------------------------------------------------
(* The total: what the source of a transfer loses is under way until the     *)
(* target has it.                                                            *)

Wealth(books, t) == SumFunction([a \in Worker |-> At(books[a], t).balance])
Due(log, t) == {i \in DOMAIN log : log[i].time <= t}

Balanced(books, out, in) ==
  \A t \in Nat : Wealth(books, t) + Sum(out, Due(out, t) \ Due(in, t)) = SumFunction(Initial)

TotalInv == Balanced(ledger, outgoing, incoming)

LEMMA WorkersFinite == IsFiniteSet(Worker)
  BY NodeFacts, FS_Interval DEF Worker

(* Some account holds d more from the time on, and so do all together. *)
Shifts(books, more, time, d) == \E p \in Worker : MovesFrom(books, more, p, time, d)

Richer(books, more, time, d) ==
  \A t \in Nat :
    /\ Wealth(books, t) \in Int
    /\ Wealth(more, t) = IF time <= t THEN Wealth(books, t) + d ELSE Wealth(books, t)

LEMMA WealthMoves ==
  ASSUME NEW books \in [Worker -> History], NEW more,
         NEW time \in Nat, NEW d \in Int, Shifts(books, more, time, d)
  PROVE  Richer(books, more, time, d)
  <1> SUFFICES ASSUME NEW t \in Nat
               PROVE  /\ Wealth(books, t) \in Int
                      /\ Wealth(more, t) =
                           IF time <= t THEN Wealth(books, t) + d ELSE Wealth(books, t)
    BY DEF Richer
  <1> PICK p \in Worker : MovesFrom(books, more, p, time, d)
    BY DEF Shifts
  <1>0. PICK f, g : /\ f = [a \in Worker |-> At(books[a], t).balance]
                    /\ g = [a \in Worker |-> At(more[a], t).balance]
    OBVIOUS
  <1>1. \A a \in Worker : At(books[a], t).balance \in Int
    BY AtType
  <1>2. DOMAIN f = Worker /\ DOMAIN g = Worker /\ \A a \in Worker : f[a] \in Int
    BY <1>0, <1>1
  <1>3. \A a \in Worker : g[a] = IF a = p /\ time <= t THEN f[a] + d ELSE f[a]
    <2> SUFFICES ASSUME NEW a \in Worker
                 PROVE  g[a] = IF a = p /\ time <= t THEN f[a] + d ELSE f[a]
      OBVIOUS
    <2>1. At(more[a], t) =
            IF a = p /\ time <= t THEN [balance |-> At(books[a], t).balance + d, pending_in |-> 0]
            ELSE At(books[a], t)
      BY DEF MovesFrom
    <2>2. f[a] = At(books[a], t).balance /\ g[a] = At(more[a], t).balance
      BY <1>0
    <2>3. CASE a = p /\ time <= t
      <3>1. At(more[a], t) = [balance |-> At(books[a], t).balance + d, pending_in |-> 0]
        BY <2>1, <2>3
      <3>2. At(more[a], t).balance = At(books[a], t).balance + d
        BY <3>1
      <3> QED
        BY <2>2, <2>3, <3>2
    <2>4. CASE ~(a = p /\ time <= t)
      BY <2>1, <2>2, <2>4
    <2> QED
      BY <2>3, <2>4
  <1>4. time <= t => SumFunction(f) \in Int /\ SumFunction(g) = SumFunction(f) + d
    <2> SUFFICES ASSUME time <= t
                 PROVE  SumFunction(f) \in Int /\ SumFunction(g) = SumFunction(f) + d
      OBVIOUS
    <2>1. \A a \in Worker : g[a] = IF a = p THEN f[a] + d ELSE f[a]
      BY <1>3
    <2>2. SumFunctionOnSet(g, Worker) = SumFunctionOnSet(f, Worker) + d
      <3> PICK W : W = Worker
        OBVIOUS
      <3>1. IsFiniteSet(W) /\ p \in W /\ \A a \in W : f[a] \in Int
        BY <1>2, WorkersFinite
      <3>2. \A a \in W : g[a] = IF a = p THEN f[a] + d ELSE f[a]
        BY <2>1
      <3>3. SumFunctionOnSet(g, W) = SumFunctionOnSet(f, W) + d
        BY <3>1, <3>2, SumChange
      <3> QED
        BY <3>3
    <2>3. SumFunctionOnSet(f, Worker) \in Int
      BY <1>2, WorkersFinite, SumType
    <2> QED
      BY <1>2, <2>2, <2>3 DEF SumFunction
  <1>5. ~(time <= t) => SumFunction(g) = SumFunction(f)
    <2> SUFFICES ASSUME ~(time <= t) PROVE SumFunction(g) = SumFunction(f)
      OBVIOUS
    <2>1. \A a \in Worker : g[a] = f[a]
      BY <1>3
    <2>2. [a \in Worker |-> At(more[a], t).balance] = [a \in Worker |-> At(books[a], t).balance]
      BY <1>0, <2>1
    <2> QED
      BY <1>0, <2>2
  <1>6. SumFunction(f) \in Int
    BY <1>2, WorkersFinite, SumType DEF SumFunction
  <1> QED
    BY <1>0, <1>4, <1>5, <1>6 DEF Wealth

LEMMA DueType ==
  ASSUME NEW log \in Seq(Event), NEW from, NEW t
  PROVE  Due(log, t) \ Due(from, t) \subseteq DOMAIN log
  BY DEF Due

LEMMA BalancedDebit ==
  ASSUME NEW books, NEW more,
         NEW out \in Seq(Event), NEW in \in Seq(Event), Len(in) = Len(out),
         NEW e \in Event, NEW time \in Nat, e.time = time,
         NEW amount \in Int, e.order.amount = amount,
         Balanced(books, out, in), NEW d \in Int, -amount = d, Richer(books, more, time, d)
  PROVE  Balanced(more, Append(out, e), in)
  <1> SUFFICES ASSUME NEW t \in Nat
               PROVE  Wealth(more, t) + Sum(Append(out, e), Due(Append(out, e), t) \ Due(in, t))
                        = SumFunction(Initial)
    BY DEF Balanced
  <1>0. PICK n, log, S, w : /\ n = Len(out) + 1 /\ log = Append(out, e)
                            /\ S = Due(out, t) \ Due(in, t) /\ w = Wealth(books, t)
    OBVIOUS
  <1>1. /\ log \in Seq(Event) /\ n \in DOMAIN log /\ n \notin DOMAIN out
        /\ DOMAIN log = DOMAIN out \cup {n} /\ log[n] = e
        /\ DOMAIN in = DOMAIN out
        /\ \A i \in DOMAIN out : i \in DOMAIN log /\ log[i] = out[i]
    BY <1>0, LogAppend
  <1>2. /\ Sum(out, S) \in Int /\ Sum(log, S) = Sum(out, S)
        /\ Sum(log, S \cup {n}) = Sum(out, S) + amount
    <2>1. NewLine(log, out, n, amount)
      BY <1>1 DEF NewLine
    <2>2. S \subseteq DOMAIN out
      BY <1>0, DueType
    <2> QED
      BY <2>1, <2>2, SumAppend
  <1>3. Due(log, t) \ Due(in, t) = IF time <= t THEN S \cup {n} ELSE S
    BY <1>0, <1>1 DEF Due
  <1>4. w \in Int /\ Wealth(more, t) = IF time <= t THEN w + d ELSE w
    BY <1>0 DEF Richer
  <1>5. w + Sum(out, S) = SumFunction(Initial)
    BY <1>0 DEF Balanced
  <1>6. Wealth(more, t) + Sum(log, Due(log, t) \ Due(in, t)) = w + Sum(out, S)
    <2>1. CASE time <= t
      <3>1. Wealth(more, t) = w + d /\ Sum(log, Due(log, t) \ Due(in, t)) = Sum(out, S) + amount
        BY <1>2, <1>3, <1>4, <2>1
      <3> QED
        BY <1>2, <1>4, <3>1
    <2>2. CASE ~(time <= t)
      BY <1>2, <1>3, <1>4, <2>2
    <2> QED
      BY <2>1, <2>2
  <1> QED
    BY <1>0, <1>5, <1>6

LEMMA BalancedCredit ==
  ASSUME NEW books, NEW more,
         NEW out \in Seq(Event), NEW in \in Seq(Event),
         NEW n \in Nat \ {0}, Len(out) = n, Len(in) = n - 1,
         NEW e \in Event, NEW time \in Nat, e.time = time, out[n].time <= time,
         NEW amount \in Int, out[n].order.amount = amount,
         Balanced(books, out, in), Richer(books, more, time, amount)
  PROVE  Balanced(more, out, Append(in, e))
  <1> SUFFICES ASSUME NEW t \in Nat
               PROVE  Wealth(more, t) + Sum(out, Due(out, t) \ Due(Append(in, e), t))
                        = SumFunction(Initial)
    BY DEF Balanced
  <1>0. PICK log, S, w : /\ log = Append(in, e)
                         /\ S = Due(out, t) \ Due(in, t) /\ w = Wealth(books, t)
    OBVIOUS
  <1>1. /\ n \in DOMAIN log /\ n \notin DOMAIN in /\ n \in DOMAIN out
        /\ DOMAIN log = DOMAIN in \cup {n} /\ log[n] = e
        /\ \A i \in DOMAIN in : i \in DOMAIN log /\ log[i] = in[i]
    BY <1>0, LogAppend
  <1>2. out[n].time \in Nat /\ \A i \in DOMAIN out : out[i].order.amount \in Int
    BY <1>1, LogTypes
  <1>3. w \in Int /\ Wealth(more, t) = IF time <= t THEN w + amount ELSE w
    BY <1>0 DEF Richer
  <1>4. w + Sum(out, S) = SumFunction(Initial)
    BY <1>0 DEF Balanced
  <1>5. Wealth(more, t) + Sum(out, Due(out, t) \ Due(log, t)) = w + Sum(out, S)
    <2>1. CASE time <= t
      <3>1. PICK R : R = Due(out, t) \ Due(log, t)
        OBVIOUS
      <3>2. n \notin R /\ S = R \cup {n} /\ R \subseteq DOMAIN out
        <4>1. n \in Due(out, t) /\ n \notin Due(in, t)
          BY <1>1, <1>2, <2>1 DEF Due
        <4>2. Due(log, t) = Due(in, t) \cup {n}
          BY <1>1, <2>1 DEF Due
        <4>3. Due(out, t) \subseteq DOMAIN out
          BY DEF Due
        <4> QED
          BY <1>0, <3>1, <4>1, <4>2, <4>3
      <3>3. IsFiniteSet(R) /\ Sum(out, R) \in Int
        BY <3>2, LogTypes
      <3>4. Sum(out, R \cup {n}) = Sum(out, R) + out[n].order.amount
        BY <1>1, <1>2, <3>2, <3>3, PicksMore
      <3>5. Sum(out, S) = Sum(out, R) + amount /\ Wealth(more, t) = w + amount
        BY <1>3, <2>1, <3>2, <3>4
      <3> QED
        BY <1>3, <3>1, <3>3, <3>5
    <2>2. CASE ~(time <= t)
      <3>1. Due(log, t) = Due(in, t)
        BY <1>1, <2>2 DEF Due
      <3> QED
        BY <1>0, <1>3, <2>2, <3>1
    <2> QED
      BY <2>1, <2>2
  <1> QED
    BY <1>0, <1>4, <1>5

LEMMA TotalStep ==
  BankInv /\ TidyInv /\ LogInv /\ TotalInv /\ [Next]_vars => TotalInv'
<1> SUFFICES ASSUME BankInv, TidyInv, LogInv, TotalInv, [Next]_vars
             PROVE  Balanced(ledger', outgoing', incoming')
  BY DEF TotalInv
<1>0. /\ TypeOK /\ now \in Nat /\ ledger \in [Worker -> History]
      /\ outgoing \in Seq(Event) /\ incoming \in Seq(Event)
      /\ Balanced(ledger, outgoing, incoming)
  BY DEF BankInv, TypeInv, TypeOK, TotalInv
<1>1. ASSUME NEW p \in Node, NEW q \in Node \ {p}, ReceiveOrder(p, q)
      PROVE  Balanced(ledger', outgoing', incoming')
  <2>1. PICK e, amount, d, more :
          /\ e = [order |-> Orders[next], time |-> now] /\ amount = Orders[next].amount
          /\ d = -Orders[next].amount /\ more = ledger'
    OBVIOUS
  <2>2. /\ Orders[next] \in TransferOrder /\ ValidOrder(Orders[next]) /\ p \in Worker
        /\ Len(outgoing) = next - 1 /\ Len(incoming) = next - 1
        /\ outgoing' = Append(outgoing, e) /\ incoming' = incoming
    BY <1>1, <2>1, DebitFacts
  <2>3. Shifts(ledger, more, now, d)
    BY <1>1, <2>1, <2>2, DebitMoves DEF Shifts
  <2>4. /\ e \in Event /\ e.time = now /\ e.order.amount = amount
        /\ amount \in Int /\ d \in Int /\ -amount = d
    BY <1>0, <2>1, <2>2, LineType, OrderFacts
  <2>5. Len(incoming) = Len(outgoing)
    BY <2>2
  <2>6. Richer(ledger, more, now, d)
    BY <1>0, <2>3, <2>4, WealthMoves
  <2>7. Balanced(more, Append(outgoing, e), incoming)
    BY <1>0, <2>2, <2>4, <2>5, <2>6, BalancedDebit
  <2> QED
    BY <2>1, <2>2, <2>7
<1>2. ASSUME NEW p \in Node, NEW q \in Node \ {p}, ReceiveTransfer(p, q)
      PROVE  Balanced(ledger', outgoing', incoming')
  <2>1. PICK e, amount, more :
          /\ e = [order |-> Orders[next], time |-> now] /\ amount = Orders[next].amount
          /\ more = ledger'
    OBVIOUS
  <2>2. /\ Orders[next] \in TransferOrder /\ ValidOrder(Orders[next]) /\ p \in Worker
        /\ next \in 1..Len(Orders) /\ Len(outgoing) = next /\ Len(incoming) = next - 1
        /\ incoming' = Append(incoming, e) /\ outgoing' = outgoing
    BY <1>2, <2>1, CreditFacts
  <2>3. Shifts(ledger, more, now, amount)
    BY <1>2, <2>1, <2>2, CreditMoves DEF Shifts
  <2>4. e \in Event /\ e.time = now /\ amount \in Int
    BY <1>0, <2>1, <2>2, LineType, OrderFacts
  <2>5. next \in Nat \ {0}
    BY <2>2, Pa2Assumption
  <2>6. outgoing[next].time <= now /\ outgoing[next].order.amount = amount
    <3>1. next \in DOMAIN outgoing
      BY <1>0, <2>2, <2>5
    <3> QED
      BY <2>1, <3>1 DEF LogInv
  <2>7. Richer(ledger, more, now, amount)
    BY <1>0, <2>3, <2>4, WealthMoves
  <2>8. Balanced(more, outgoing, Append(incoming, e))
    BY <1>0, <2>2, <2>4, <2>5, <2>6, <2>7, BalancedCredit
  <2> QED
    BY <2>1, <2>2, <2>8
<1>3. ASSUME NEW p \in Worker, Extends(p) PROVE Balanced(ledger', outgoing', incoming')
  <2>1. SaySame(ledger, ledger') /\ UNCHANGED events
    BY <1>0, <1>3, ExtendsMoves DEF Extends
  <2>2. ASSUME NEW t \in Nat PROVE Wealth(ledger', t) = Wealth(ledger, t)
    <3>1. [a \in Worker |-> At(ledger'[a], t).balance] = [a \in Worker |-> At(ledger[a], t).balance]
      BY <2>1 DEF SaySame
    <3> QED
      BY <3>1 DEF Wealth
  <2> QED
    BY <1>0, <2>1, <2>2 DEF events, Balanced
<1>4. CASE UNCHANGED <<ledger, events>>
  BY <1>0, <1>4 DEF events
<1> QED
  BY <1>0, <1>1, <1>2, <1>3, <1>4, LedgerMoves

LEMMA TotalAlways == Spec => []TotalInv
<1>1. Init => TotalInv
  <2> SUFFICES ASSUME Init, NEW t \in Nat
               PROVE  Wealth(ledger, t) + Sum(outgoing, Due(outgoing, t) \ Due(incoming, t))
                        = SumFunction(Initial)
    BY DEF TotalInv, Balanced
  <2>1. outgoing = <<>>
    BY DEF Init
  <2>2. Due(outgoing, t) \ Due(incoming, t) = {}
    BY <2>1 DEF Due
  <2>3. \A a \in Worker : At(ledger[a], t).balance = Initial[a]
    <3> SUFFICES ASSUME NEW a \in Worker PROVE At(ledger[a], t).balance = Initial[a]
      OBVIOUS
    <3>1. At(ledger[a], t) = [balance |-> Initial[a], pending_in |-> 0]
      BY AtOpening
    <3> QED
      BY <3>1
  <2>4. [a \in Worker |-> At(ledger[a], t).balance] = Initial
    BY <2>3, Pa2Assumption
  <2>5. SumFunction(Initial) \in Int
    <3>1. DOMAIN Initial = Worker /\ \A a \in Worker : Initial[a] \in Int
      BY Pa2Assumption, BalanceTFacts
    <3> QED
      BY <3>1, WorkersFinite, SumType DEF SumFunction
  <2>6. Wealth(ledger, t) = SumFunction(Initial)
    BY <2>4 DEF Wealth
  <2>7. Sum(outgoing, Due(outgoing, t) \ Due(incoming, t)) = 0
    BY <2>2, PicksNone
  <2> QED
    BY <2>5, <2>6, <2>7
<1> QED
  BY <1>1, TotalStep, BankAlways, TidyAlways, LogAlways, PTL DEF Spec

(* At every time the balances and the transfers sent but not booked by then   *)
(* make up what there was at the start, and nothing is booked that was not    *)
(* sent (README: the sum may differ because of the money on its way; the two  *)
(* bookings of a transfer are apply_transfer of main.c).                      *)
THEOREM MoneyIsSomewhere == Spec => []MoneyInTransit
<1>1. BankInv /\ LogInv /\ TotalInv => MoneyInTransit
  <2> SUFFICES ASSUME BankInv, LogInv, TotalInv, NEW t \in 0..Horizon(ledger, Worker)
               PROVE  /\ Due(incoming, t) \subseteq Due(outgoing, t)
                      /\ Wealth(ledger, t) + Sum(outgoing, Due(outgoing, t) \ Due(incoming, t))
                           = SumFunction(Initial)
    BY DEF MoneyInTransit, Due, Wealth
  <2>1. /\ t \in Nat /\ outgoing \in Seq(Event) /\ incoming \in Seq(Event)
    <3>1. Horizon(ledger, Worker) \in Nat
      BY HorizonFacts DEF BankInv, TypeInv, TypeOK
    <3> QED
      BY <3>1 DEF BankInv, TypeInv, TypeOK
  <2>2. ASSUME NEW i \in Due(incoming, t) PROVE i \in Due(outgoing, t)
    <3>1. i \in DOMAIN incoming /\ incoming[i].time <= t
      BY DEF Due
    <3>2. i \in DOMAIN outgoing /\ outgoing[i].time <= incoming[i].time
      BY <2>1, <3>1 DEF LogInv
    <3>3. outgoing[i].time \in Nat /\ incoming[i].time \in Nat
      BY <2>1, <3>1, <3>2, LogTypes
    <3> QED
      BY <2>1, <3>1, <3>2, <3>3 DEF Due
  <2> QED
    BY <2>1, <2>2 DEF TotalInv, Balanced
<1> QED
  BY <1>1, BankAlways, LogAlways, TotalAlways, PTL

-----------------------------------------------------------------------------
(* The refinement: what is under way follows from the log, for a frame about *)
(* money is lost with nobody.                                                *)

CarryInv ==
  /\ Len(incoming) \in {next - 1, next}
  /\ Len(incoming) # Len(outgoing) =>
       \E p, q \in Worker : \E m \in Frames(p, q) : m.type = "TRANSFER"
  /\ Len(incoming) = next =>
       \E p \in Worker : \E m \in Frames(p, PARENT_ID) : m.type = "ACK"

(* The frames of the types that stay. *)
Keeps(types) == \A a, b \in Node : \A m \in Frames(a, b) : m.type \in types => m \in Frames(a, b)'

LEMMA AppendKeeps ==
  ASSUME NEW s \in Seq(Frame), NEW f
  PROVE  Range(Append(s, f)) = Range(s) \cup {f}
  <1>1. s \in Seq(Frame \cup {f}) /\ f \in Frame \cup {f}
    OBVIOUS
  <1>2. PICK t : t = Append(s, f)
    OBVIOUS
  <1>3. /\ Len(s) \in Nat /\ DOMAIN s = 1..Len(s) /\ DOMAIN t = 1..(Len(s) + 1)
        /\ t[Len(s) + 1] = f /\ \A i \in 1..Len(s) : t[i] = s[i]
    BY <1>1, <1>2, AppendProperties
  <1>4. Range(t) = Range(s) \cup {f}
    <2>1. Range(t) \subseteq Range(s) \cup {f}
      BY <1>3 DEF Range
    <2>2. Range(s) \subseteq Range(t)
      BY <1>3 DEF Range
    <2>3. f \in Range(t)
      BY <1>3 DEF Range
    <2> QED
      BY <2>1, <2>2, <2>3
  <1> QED
    BY <1>2, <1>4

LEMMA TailKeeps ==
  ASSUME NEW s \in Seq(Frame), s # <<>>
  PROVE  Range(s) \subseteq {Head(s)} \cup Range(Tail(s))
  <1>1. PICK t : t = Tail(s)
    OBVIOUS
  <1>2. /\ Len(s) \in Nat \ {0} /\ DOMAIN s = 1..Len(s) /\ DOMAIN t = 1..(Len(s) - 1)
        /\ Head(s) = s[1] /\ \A i \in 1..(Len(s) - 1) : t[i] = s[i + 1]
    BY <1>1, HeadTailProperties
  <1>3. ASSUME NEW i \in DOMAIN s, i # 1 PROVE s[i] \in Range(t)
    <2>1. i - 1 \in 1..(Len(s) - 1) /\ (i - 1) + 1 = i
      BY <1>2, <1>3
    <2>2. t[i - 1] = s[i] /\ i - 1 \in DOMAIN t
      BY <1>2, <2>1
    <2> QED
      BY <2>2 DEF Range
  <1> QED
    BY <1>1, <1>2, <1>3 DEF Range

LEMMA SentKeeps ==
  ASSUME TypeOK, NEW n \in Node, NEW f, NEW to, Sent(n, f, to)
  PROVE  /\ \A types : Keeps(types)
         /\ \A b \in Node : b \in to => f \in Frames(n, b)'
  <1>1. ASSUME NEW a \in Node, NEW b \in Node
        PROVE  /\ Frames(a, b) \subseteq Frames(a, b)'
               /\ a = n /\ b \in to => f \in Frames(a, b)'
    <2>1. Way(a, b)' = IF a = n /\ b \in to THEN Append(Way(a, b), f) ELSE Way(a, b)
      BY DEF Sent
    <2>2. Way(a, b) \in Seq(Frame)
      BY WayType
    <2>3. Range(Append(Way(a, b), f)) = Range(Way(a, b)) \cup {f}
      BY <2>2, AppendKeeps
    <2>4. Frames(a, b) = Range(Way(a, b)) /\ Frames(a, b)' = Range(Way(a, b)')
      BY DEF Frames
    <2> QED
      BY <2>1, <2>3, <2>4
  <1> QED
    BY <1>1 DEF Keeps

LEMMA TookKeeps ==
  ASSUME TypeOK, NEW n \in Node, NEW q \in Node \ {n}, NEW f, NEW to, NEW types,
         Took(n, q, f, to), Way(q, n) # <<>>, Head(Way(q, n)).type \notin types
  PROVE  /\ Keeps(types)
         /\ \A b \in Node : b \in to => f \in Frames(n, b)'
  <1>1. ASSUME NEW a \in Node, NEW b \in Node
        PROVE  /\ \A m \in Frames(a, b) : m.type \in types => m \in Frames(a, b)'
               /\ a = n /\ b \in to => f \in Frames(a, b)'
    <2>1. Way(a, b)' = IF a = n /\ b \in to THEN Append(Way(a, b), f)
                       ELSE IF a = q /\ b = n THEN Tail(Way(a, b)) ELSE Way(a, b)
      BY DEF Took
    <2>2. Way(a, b) \in Seq(Frame)
      BY WayType
    <2>3. Range(Append(Way(a, b), f)) = Range(Way(a, b)) \cup {f}
      BY <2>2, AppendKeeps
    <2>4. Frames(a, b) = Range(Way(a, b)) /\ Frames(a, b)' = Range(Way(a, b)')
      BY DEF Frames
    <2>5. a = q /\ b = n => Range(Way(a, b)) \subseteq {Head(Way(q, n))} \cup Range(Tail(Way(a, b)))
      BY <2>2, TailKeeps
    <2> QED
      BY <2>1, <2>3, <2>4, <2>5
  <1> QED
    BY <1>1 DEF Keeps

MoneyTypes == {"TRANSFER", "ACK"}

LEMMA SendKeeps ==
  ASSUME TypeOK, NEW n \in Node, ~Writing(n), UNCHANGED channel,
         NEW type, NEW payload, NEW to, Sends(n, type, payload, to)
  PROVE  Keeps(MoneyTypes)
  <1>1. PICK f : f = [type |-> type, payload |-> payload]
    OBVIOUS
  <1>2. Puts(n, f, to)
    BY <1>1, WaySends
  <1>3. Sent(n, f, to)
    BY <1>2, PutsSent
  <1> QED
    BY <1>3, SentKeeps

LEMMA ReplyKeeps ==
  ASSUME TypeOK, NEW n \in Node, NEW q \in Node \ {n}, NEW any, Takes(n, q, any),
         NEW type, NEW payload, NEW to, Sends(n, type, payload, to)
  PROVE  /\ any \notin MoneyTypes => Keeps(MoneyTypes)
         /\ \A b \in Node : b \in to => \E m \in Frames(n, b)' : m.type = type
  <1>1. PICK f : f = [type |-> type, payload |-> payload]
    OBVIOUS
  <1>2. Puts(n, f, to)
    BY <1>1, WaySends
  <1>3. Took(n, q, f, to) /\ Way(q, n) # <<>> /\ Received(n, q) = Head(Way(q, n))
    BY <1>2, PutsTook
  <1>4. Head(Way(q, n)).type = any
    BY <1>3 DEF Takes
  <1>5. any \notin MoneyTypes => Keeps(MoneyTypes)
    BY <1>3, <1>4, TookKeeps
  <1>6. any \notin {} => \A b \in Node : b \in to => f \in Frames(n, b)'
    <2>1. PICK types : types = {}
      OBVIOUS
    <2>2. Head(Way(q, n)).type \notin types
      BY <2>1
    <2> QED
      BY <1>3, <2>2, TookKeeps
  <1> QED
    BY <1>1, <1>5, <1>6

LEMMA TakeKept ==
  ASSUME TypeOK, NEW n \in Node, NEW q \in Node \ {n}, NEW any, Takes(n, q, any),
         UNCHANGED outbox, any \notin MoneyTypes
  PROVE  Keeps(MoneyTypes)
  <1>1. PICK f : f = Received(n, q)
    OBVIOUS
  <1>2. Puts(n, f, {})
    BY WayStays DEF Takes, Reading
  <1>3. Took(n, q, f, {}) /\ Way(q, n) # <<>> /\ Received(n, q) = Head(Way(q, n))
    BY <1>2, PutsTook
  <1>4. Head(Way(q, n)).type \notin MoneyTypes
    BY <1>3 DEF Takes
  <1> QED
    BY <1>3, <1>4, TookKeeps

LEMMA StillKeeps ==
  (\A a, b \in Node : Way(a, b)' = Way(a, b)) => Keeps(MoneyTypes)
  BY DEF Keeps, Frames, Range

(* A frame about money stays where it is until it is answered. *)
LEMMA MoneyStays ==
  BankInv /\ [Next]_vars =>
    \/ Keeps(MoneyTypes) /\ UNCHANGED <<next, events>>
    \/ \E p \in Node : \E q \in Node \ {p} : ReceiveOrder(p, q) \/ ReceiveTransfer(p, q)
    \/ \E q \in Worker : AwaitAck(q)
<1> SUFFICES ASSUME BankInv, [Next]_vars,
                    ~\E p \in Node : \E q \in Node \ {p} :
                        ReceiveOrder(p, q) \/ ReceiveTransfer(p, q),
                    ~\E q \in Worker : AwaitAck(q)
             PROVE  Keeps(MoneyTypes) /\ UNCHANGED <<next, events>>
  OBVIOUS
<1> USE NodeFacts
<1>0. TypeOK
  BY DEF BankInv, TypeInv
<1>1. UNCHANGED <<channel, outbox, protocol, accounts>> =>
        Keeps(MoneyTypes) /\ UNCHANGED <<next, events>>
  BY SamePipes, StillKeeps DEF protocol, accounts
<1>2. ASSUME NEW n \in Node, NodeNext(n) PROVE Keeps(MoneyTypes) /\ UNCHANGED <<next, events>>
  <2>1. CASE AnnounceStarted(n)
    <3>1. n \in Worker /\ pc[n] = "boot"
          /\ Sends(n, "STARTED", Nothing, Node \ {n})
          /\ UNCHANGED <<channel, protocol, accounts>>
      BY <2>1 DEF AnnounceStarted
    <3>2. \A b \in Node : Frames(n, b) = {}
      BY <3>1 DEF BankInv, SenderInv, FrameOk, Born
    <3>3. ~Writing(n)
      BY <1>0, <3>2, WritingFrames
    <3> QED
      BY <1>0, <3>1, <3>3, SendKeeps DEF protocol, accounts
  <2>2. CASE n \in Worker /\ ReportHistory(n)
    BY <1>0, <2>2, SendKeeps DEF ReportHistory, Served, protocol
  <2>3. CASE PassStarted(n) \/ ExitChild(n) \/ PeersClosed(n) \/ Refuse(n)
    BY <1>1, <2>3 DEF PassStarted, ExitChild, PeersClosed, Refuse, Fatal
  <2>4. ASSUME NEW q \in Node \ {n}, BrokenPipe(n, q) \/ RejectFrame(n, q)
        PROVE  Keeps(MoneyTypes) /\ UNCHANGED <<next, events>>
    BY <1>1, <2>4 DEF BrokenPipe, RejectFrame, Fatal
  <2>5. ASSUME NEW q \in Node \ {n}, WriteFrame(n, q)
        PROVE  Keeps(MoneyTypes) /\ UNCHANGED <<next, events>>
    <3>1. \A a, b \in Node : Way(a, b)' = Way(a, b)
      BY <1>0, <2>5, WriteSilent
    <3> QED
      BY <2>5, <3>1, StillKeeps DEF WriteFrame, protocol, accounts
  <2>6. ASSUME NEW q \in Node \ {n}, AwaitStarted(n, q)
        PROVE  Keeps(MoneyTypes) /\ UNCHANGED <<next, events>>
    BY <1>0, <2>6, TakeKept DEF AwaitStarted, accounts, MoneyTypes
  <2>7. ASSUME NEW q \in Node \ {n}, ReceiveDone(n, q)
        PROVE  Keeps(MoneyTypes) /\ UNCHANGED <<next, events>>
    BY <1>0, <2>7, TakeKept DEF ReceiveDone, accounts, MoneyTypes
  <2>8. ASSUME NEW q \in Node \ {n}, ReceiveStop(n, q)
        PROVE  Keeps(MoneyTypes) /\ UNCHANGED <<next, events>>
    BY <1>0, <2>8, ReplyKeeps DEF ReceiveStop, MoneyTypes
  <2> QED
    BY <1>2, <2>1, <2>2, <2>3, <2>4, <2>5, <2>6, <2>7, <2>8 DEF NodeNext
<1>3. CASE ParentNext
  <2>1. CASE RequestTransfer \/ BroadcastStop
    <3>1. ~Writing(PARENT_ID)
      BY <2>1 DEF RequestTransfer, BroadcastStop, Robbing, BankInv, PhaseInv
    <3>2. CASE RequestTransfer
      BY <1>0, <3>1, <3>2, SendKeeps DEF RequestTransfer, protocol, accounts
    <3>3. CASE BroadcastStop
      BY <1>0, <3>1, <3>3, SendKeeps DEF BroadcastStop, accounts
    <3> QED
      BY <2>1, <3>2, <3>3
  <2>2. CASE AllDone
    <3>1. \A a, b \in Node : Way(a, b)' = Way(a, b)
      BY <2>2, SamePipes DEF AllDone
    <3> QED
      BY <2>2, <3>1, StillKeeps DEF AllDone, accounts
  <2>3. CASE FinishHistories
    <3>1. \A a, b \in Node : Way(a, b)' = Way(a, b)
      BY <2>3, SamePipes DEF FinishHistories
    <3> QED
      BY <2>3, <3>1, StillKeeps DEF FinishHistories, protocol
  <2>4. ASSUME NEW q \in Worker, AwaitDone(q)
        PROVE  Keeps(MoneyTypes) /\ UNCHANGED <<next, events>>
    <3>1. q \in Node \ {PARENT_ID}
      OBVIOUS
    <3> QED
      BY <1>0, <2>4, <3>1, TakeKept DEF AwaitDone, accounts, MoneyTypes
  <2>5. ASSUME NEW q \in Worker, AwaitHistory(q)
        PROVE  Keeps(MoneyTypes) /\ UNCHANGED <<next, events>>
    <3>1. q \in Node \ {PARENT_ID}
      OBVIOUS
    <3> QED
      BY <1>0, <2>5, <3>1, TakeKept DEF AwaitHistory, MoneyTypes
  <2> QED
    BY <1>3, <2>1, <2>2, <2>3, <2>4, <2>5 DEF ParentNext
<1>4. CASE Supervision \/ Signals \/ Tick \/ UNCHANGED vars
  BY <1>1, <1>4 DEF Supervision, Signals, Tick, vars, protocol, accounts, events
<1> QED
  BY <1>2, <1>3, <1>4 DEF Next

LEMMA CarryStep == BankInv /\ CarryInv /\ [Next]_vars => CarryInv'
<1> SUFFICES ASSUME BankInv, CarryInv, [Next]_vars PROVE CarryInv'
  OBVIOUS
<1> USE NodeFacts
<1>0. TypeOK /\ outgoing \in Seq(Event) /\ incoming \in Seq(Event) /\ next \in Nat
  BY Pa2Assumption DEF BankInv, TypeInv, TypeOK
<1>1. CASE Keeps(MoneyTypes) /\ UNCHANGED <<next, events>>
  <2>1. ASSUME NEW a \in Node, NEW b \in Node, NEW type \in MoneyTypes,
               \E m \in Frames(a, b) : m.type = type
        PROVE  \E m \in Frames(a, b)' : m.type = type
    BY <1>1, <2>1 DEF Keeps
  <2>2. (\E p, q \in Worker : \E m \in Frames(p, q) : m.type = "TRANSFER") =>
          \E p, q \in Worker : \E m \in Frames(p, q)' : m.type = "TRANSFER"
    BY <2>1 DEF MoneyTypes
  <2>3. (\E p \in Worker : \E m \in Frames(p, PARENT_ID) : m.type = "ACK") =>
          \E p \in Worker : \E m \in Frames(p, PARENT_ID)' : m.type = "ACK"
    BY <2>1 DEF MoneyTypes
  <2> QED
    BY <1>1, <2>2, <2>3 DEF CarryInv, events
<1>2. ASSUME NEW p \in Node, NEW q \in Node \ {p}, ReceiveOrder(p, q) PROVE CarryInv'
  <2>1. PICK order : order = Orders[next]
    OBVIOUS
  <2>2. /\ order \in TransferOrder /\ ValidOrder(order) /\ p \in Worker
        /\ Len(incoming) = next - 1 /\ incoming' = incoming
    BY <1>2, <2>1, DebitFacts
  <2>3. order.dst \in Worker
    BY <2>2, OrderFacts
  <2>4. /\ Takes(p, q, "TRANSFER") /\ Sends(p, "TRANSFER", <<order>>, {order.dst})
        /\ next' = next
    <3>1. Received(p, q).payload[1] = order
      BY <1>2, <2>1, TransferTaken DEF ReceiveOrder
    <3> QED
      BY <1>2, <2>1, <3>1 DEF ReceiveOrder, protocol
  <2>5. \E m \in Frames(p, order.dst)' : m.type = "TRANSFER"
    <3>1. PICK dst, to, payload : dst = order.dst /\ to = {order.dst} /\ payload = <<order>>
      OBVIOUS
    <3>2. Sends(p, "TRANSFER", payload, to) /\ dst \in Node /\ dst \in to
      BY <2>3, <2>4, <3>1
    <3>3. \A b \in Node : b \in to => \E m \in Frames(p, b)' : m.type = "TRANSFER"
      BY <1>0, <2>2, <2>4, <3>2, ReplyKeeps
    <3> QED
      BY <3>1, <3>2, <3>3
  <2>6. Len(incoming') # next' /\ Len(incoming') = next' - 1
    BY <1>0, <2>2, <2>4
  <2> QED
    BY <2>2, <2>3, <2>5, <2>6 DEF CarryInv
<1>3. ASSUME NEW p \in Node, NEW q \in Node \ {p}, ReceiveTransfer(p, q) PROVE CarryInv'
  <2>2. /\ p \in Worker /\ Len(outgoing) = next /\ Len(incoming) = next - 1
        /\ outgoing' = outgoing /\ Len(incoming') = next
    <3>1. /\ p \in Worker /\ Len(outgoing) = next /\ Len(incoming) = next - 1
          /\ incoming' = Append(incoming, [order |-> Orders[next], time |-> now])
          /\ outgoing' = outgoing
      BY <1>3, CreditFacts
    <3> QED
      BY <1>0, <3>1
  <2>3. /\ Takes(p, q, "TRANSFER") /\ Sends(p, "ACK", Nothing, {PARENT_ID})
        /\ next' = next
    BY <1>3 DEF ReceiveTransfer, protocol
  <2>4. \E m \in Frames(p, PARENT_ID)' : m.type = "ACK"
    BY <1>0, <2>3, ReplyKeeps
  <2> QED
    BY <2>2, <2>3, <2>4 DEF CarryInv
<1>4. ASSUME NEW q \in Worker, AwaitAck(q) PROVE CarryInv'
  <2>1. Takes(PARENT_ID, q, "ACK") /\ next' = next + 1 /\ UNCHANGED events
    BY <1>4 DEF AwaitAck, accounts
  <2>2. Len(outgoing) = next /\ Len(incoming) = next
    <3>1. PICK m \in Frames(q, PARENT_ID) : m.type = "ACK"
      BY <1>0, <2>1, TakenFrame
    <3>2. MoneyOk(q, PARENT_ID, m)
      BY <3>1 DEF BankInv, MoneyInv, Money
    <3> QED
      BY <3>2 DEF MoneyOk
  <2> QED
    BY <1>0, <2>1, <2>2 DEF CarryInv, events
<1> QED
  BY <1>1, <1>2, <1>3, <1>4, MoneyStays

LEMMA CarryAlways == Spec => []CarryInv
  <1>1. Init => CarryInv
    BY DEF Init, CarryInv
  <1> QED
    BY <1>1, CarryStep, BankAlways, PTL DEF Spec

(* What the abstract accounts see of the bank. *)
balances == [a \in Worker |-> Closing(ledger[a]).balance]
Moved == next - 1 + (IF \E p \in Worker : UnderWay(p, PARENT_ID, "ACK") THEN 1 ELSE 0)
InTransit == \E p, q \in Worker : UnderWay(p, q, "TRANSFER")

LEMMA UnderWayFrames ==
  ASSUME TypeOK, NEW p \in Node, NEW q \in Node, NEW type
  PROVE  UnderWay(p, q, type) <=> \E m \in Frames(p, q) : m.type = type
  <1>1. PICK s, f : s = channel[p][q] /\ f = Sending(p)
    OBVIOUS
  <1>2. s \in Seq(Frame)
    BY <1>1 DEF TypeOK
  <1>3. Range(Append(s, f)) = Range(s) \cup {f}
    BY <1>2, AppendKeeps
  <1>4. Frames(p, q) = IF q \in outbox[p].to THEN Range(s) \cup {f} ELSE Range(s)
    BY <1>1, <1>3 DEF Frames, Way
  <1>5. UnderWay(p, q, type) <=> (q \in outbox[p].to /\ f.type = type)
                                 \/ \E m \in Range(s) : m.type = type
    BY <1>1 DEF UnderWay, Sending, Range
  <1> QED
    BY <1>4, <1>5

LEMMA MapFacts ==
  BankInv /\ LogInv /\ CarryInv =>
    Moved = Len(incoming) /\ (InTransit <=> Len(incoming) # Len(outgoing))
<1> SUFFICES ASSUME BankInv, LogInv, CarryInv
             PROVE  Moved = Len(incoming) /\ (InTransit <=> Len(incoming) # Len(outgoing))
  OBVIOUS
<1> USE NodeFacts
<1>0. /\ TypeOK /\ next \in Nat /\ Len(incoming) \in Nat /\ Len(outgoing) \in Nat
  BY Pa2Assumption DEF BankInv, TypeInv, TypeOK
<1>1. InTransit => Len(incoming) # Len(outgoing)
  <2>1. SUFFICES ASSUME NEW p \in Worker, NEW q \in Worker, UnderWay(p, q, "TRANSFER")
                 PROVE  Len(incoming) # Len(outgoing)
    BY DEF InTransit
  <2>2. PICK m \in Frames(p, q) : m.type = "TRANSFER"
    BY <1>0, <2>1, UnderWayFrames
  <2>3. MoneyOk(p, q, m)
    BY <2>2 DEF BankInv, MoneyInv, Money
  <2> QED
    BY <1>0, <2>3 DEF MoneyOk
<1>2. Len(incoming) # Len(outgoing) => InTransit
  <2>1. SUFFICES ASSUME Len(incoming) # Len(outgoing) PROVE InTransit
    OBVIOUS
  <2>2. PICK p \in Worker, q \in Worker : \E m \in Frames(p, q) : m.type = "TRANSFER"
    BY <2>1 DEF CarryInv
  <2>3. UnderWay(p, q, "TRANSFER")
    BY <1>0, <2>2, UnderWayFrames
  <2> QED
    BY <2>3 DEF InTransit
<1>3. CASE \E p \in Worker : UnderWay(p, PARENT_ID, "ACK")
  <2>1. PICK p \in Worker : UnderWay(p, PARENT_ID, "ACK")
    BY <1>3
  <2>2. PICK m \in Frames(p, PARENT_ID) : m.type = "ACK"
    BY <1>0, <2>1, UnderWayFrames
  <2>3. MoneyOk(p, PARENT_ID, m)
    BY <2>2 DEF BankInv, MoneyInv, Money
  <2> QED
    BY <1>0, <1>1, <1>2, <1>3, <2>3 DEF MoneyOk, Moved
<1>4. CASE ~\E p \in Worker : UnderWay(p, PARENT_ID, "ACK")
  <2>1. Len(incoming) # next
    BY <1>0, <1>4, UnderWayFrames DEF CarryInv
  <2>2. Len(incoming) \in {next - 1, next}
    BY DEF CarryInv
  <2> QED
    BY <1>0, <1>1, <1>2, <1>4, <2>1, <2>2 DEF Moved
<1> QED
  BY <1>3, <1>4

LEMMA MapNext == (BankInv /\ LogInv /\ CarryInv)' =>
    (Moved = Len(incoming) /\ (InTransit <=> Len(incoming) # Len(outgoing)))'
  BY MapFacts, PTL

LEMMA AccountsStart == Init => Abstract!AccInit
<1> SUFFICES ASSUME Init PROVE Abstract!AccInit
  OBVIOUS
<1>1. TypeOK /\ next = 1 /\ ledger = [p \in Worker |-> Opening(Initial[p])]
  BY TypeInit DEF Init, TypeInv
<1>2. \A p, q \in Node : \A type : ~UnderWay(p, q, type)
  BY DEF Init, UnderWay, Idle, Range
<1>3. Moved = 0 /\ InTransit = FALSE
  BY <1>1, <1>2, NodeFacts DEF Moved, InTransit
<1>4. balances = Initial
  BY <1>1, Pa2Assumption DEF balances, Opening, Closing
<1> QED
  BY <1>3, <1>4 DEF Abstract!AccInit, balances, Moved, InTransit

LEMMA AccountsWithdraw ==
  ASSUME BankInv, LogInv, CarryInv, TidyInv, (BankInv /\ LogInv /\ CarryInv)',
         NEW p \in Node, NEW q \in Node \ {p}, ReceiveOrder(p, q)
  PROVE  Abstract!Withdraw
  <1>1. PICK amount, loss, order : /\ order = Orders[next] /\ amount = order.amount
                                   /\ loss = -amount
    OBVIOUS
  <1>2. /\ next \in 1..Len(Orders) /\ order \in TransferOrder /\ ValidOrder(order)
        /\ p = order.src /\ p \in Worker /\ FitsHistory(now)
        /\ Len(outgoing) = next - 1 /\ Len(incoming) = next - 1
        /\ outgoing' = Append(outgoing, [order |-> order, time |-> now]) /\ incoming' = incoming
        /\ ledger' = [ledger EXCEPT ![p] = Book(@, loss)]
    BY <1>1, DebitFacts
  <1>3. /\ ledger \in [Worker -> History] /\ outgoing \in Seq(Event) /\ now \in Nat
        /\ amount \in Int /\ loss \in Int
    BY <1>1, <1>2, OrderFacts DEF BankInv, TypeInv, TypeOK
  <1>4. PICK account, book : account = ledger[p] /\ book = Book(account, loss)
    OBVIOUS
  <1>5. Closing(book).balance = Closing(account).balance - amount
    <2>1. account \in History /\ Settled(account) /\ Len(account) <= now + 1
      BY <1>2, <1>3, <1>4 DEF TidyInv, Tidy
    <2>2. Closing(book).balance = Closing(account).balance + loss
      BY <1>2, <1>3, <1>4, <2>1, AtBook
    <2>3. Closing(account).balance \in Int
      BY <2>1, AtType
    <2> QED
      BY <1>1, <1>3, <2>2, <2>3
  <1>6. balances' = [balances EXCEPT ![order.src] = @ - amount]
    <2>1. ledger' = [ledger EXCEPT ![p] = book]
      BY <1>2, <1>4
    <2> QED
      BY <1>2, <1>3, <1>4, <1>5, <2>1 DEF balances
  <1>7. Moved = next - 1 /\ ~InTransit
    BY <1>2, MapFacts
  <1>8. Moved' = next - 1 /\ InTransit'
    <2>1. Len(outgoing') = next /\ Len(incoming') = next - 1
      BY <1>2, <1>3
    <2> QED
      BY <1>2, <2>1, MapNext
  <1>9. Moved + 1 = next /\ Moved < Len(Orders)
    BY <1>2, <1>7
  <1> QED
    BY <1>1, <1>6, <1>7, <1>8, <1>9 DEF Abstract!Withdraw, balances, Moved, InTransit

LEMMA AccountsDeposit ==
  ASSUME BankInv, LogInv, CarryInv, TidyInv, (BankInv /\ LogInv /\ CarryInv)',
         NEW p \in Node, NEW q \in Node \ {p}, ReceiveTransfer(p, q)
  PROVE  Abstract!Deposit
  <1>1. PICK amount, order : order = Orders[next] /\ amount = order.amount
    OBVIOUS
  <1>2. /\ next \in 1..Len(Orders) /\ order \in TransferOrder /\ ValidOrder(order)
        /\ p = order.dst /\ p \in Worker /\ FitsHistory(now)
        /\ Len(outgoing) = next /\ Len(incoming) = next - 1
        /\ outgoing' = outgoing /\ incoming' = Append(incoming, [order |-> order, time |-> now])
        /\ ledger' = [ledger EXCEPT ![p] = Book(@, amount)]
    BY <1>1, CreditFacts
  <1>3. /\ ledger \in [Worker -> History] /\ incoming \in Seq(Event) /\ now \in Nat
        /\ amount \in Int
    BY <1>1, <1>2, OrderFacts DEF BankInv, TypeInv, TypeOK
  <1>4. PICK account, book : account = ledger[p] /\ book = Book(account, amount)
    OBVIOUS
  <1>5. Closing(book).balance = Closing(account).balance + amount
    <2>1. account \in History /\ Settled(account) /\ Len(account) <= now + 1
      BY <1>2, <1>3, <1>4 DEF TidyInv, Tidy
    <2> QED
      BY <1>2, <1>3, <1>4, <2>1, AtBook
  <1>6. balances' = [balances EXCEPT ![order.dst] = @ + amount]
    <2>1. ledger' = [ledger EXCEPT ![p] = book]
      BY <1>2, <1>4
    <2> QED
      BY <1>2, <1>3, <1>4, <1>5, <2>1 DEF balances
  <1>7. Moved = next - 1 /\ InTransit
    BY <1>2, MapFacts
  <1>8. Moved' = next /\ ~InTransit'
    <2>1. Len(outgoing') = next /\ Len(incoming') = next
      BY <1>2, <1>3
    <2> QED
      BY <1>2, <2>1, MapNext
  <1>9. Moved + 1 = next
    BY <1>2, <1>7
  <1> QED
    BY <1>1, <1>6, <1>7, <1>8, <1>9 DEF Abstract!Deposit, balances, Moved, InTransit

LEMMA AccountsStill ==
  ASSUME BankInv, LogInv, CarryInv, (BankInv /\ LogInv /\ CarryInv)',
         UNCHANGED events, balances' = balances
  PROVE  UNCHANGED Abstract!accVars
  <1>1. Moved' = Moved /\ (InTransit' <=> InTransit)
    BY MapFacts, MapNext DEF events
  <1>2. InTransit' = InTransit
    BY <1>1 DEF InTransit
  <1> QED
    BY <1>1, <1>2 DEF Abstract!accVars, balances, Moved, InTransit

LEMMA AccountsStep ==
  BankInv /\ LogInv /\ CarryInv /\ TidyInv /\ (BankInv /\ LogInv /\ CarryInv)' /\ [Next]_vars
    => [Abstract!Withdraw \/ Abstract!Deposit]_(Abstract!accVars)
<1> SUFFICES ASSUME BankInv, LogInv, CarryInv, TidyInv, (BankInv /\ LogInv /\ CarryInv)',
                    [Next]_vars
             PROVE  [Abstract!Withdraw \/ Abstract!Deposit]_(Abstract!accVars)
  OBVIOUS
<1>0. TypeOK /\ ledger \in [Worker -> History] /\ now \in Nat
  BY DEF BankInv, TypeInv, TypeOK
<1>1. CASE UNCHANGED <<ledger, events>>
  BY <1>1, AccountsStill DEF balances
<1>2. ASSUME NEW p \in Node, NEW q \in Node \ {p}, ReceiveOrder(p, q) \/ ReceiveTransfer(p, q)
      PROVE  Abstract!Withdraw \/ Abstract!Deposit
  BY <1>2, AccountsWithdraw, AccountsDeposit
<1>3. ASSUME NEW p \in Worker, Extends(p)
      PROVE  UNCHANGED Abstract!accVars
  <2>1. PICK account, later : account = ledger[p] /\ later = Extend(account, now)
    OBVIOUS
  <2>2. Closing(later).balance = Closing(account).balance
    BY <1>0, <1>3, <2>1, ExtendType DEF Extends
  <2>3. ledger' = [ledger EXCEPT ![p] = later]
    BY <1>3, <2>1 DEF Extends
  <2>4. balances' = balances
    BY <1>0, <2>1, <2>2, <2>3 DEF balances
  <2> QED
    BY <1>3, <2>4, AccountsStill DEF Extends
<1> QED
  BY <1>0, <1>1, <1>2, <1>3, LedgerMoves

(* The accounts of the bank are the abstract accounts: an order leaves its    *)
(* source when it forwards the TRANSFER, is carried out when its destination  *)
(* books it, once and in the order of bank_robbery, whoever is killed         *)
(* (transfer and apply_transfer of main.c).                                   *)
THEOREM BankImplementsAccounts == Spec => ImplementsAccounts
  <1> QED
    BY AccountsStart, AccountsStep, BankAlways, LogAlways, CarryAlways, TidyAlways, PTL
       DEF Spec, ImplementsAccounts, Abstract!AccSpec
=============================================================================
