------------------------------ MODULE Pa3Bank -------------------------------
(***************************************************************************)
(* Lab 3: a parent that orders transfers between the accounts of its        *)
(* children and collects their histories in Lamport time (bank.c,           *)
(* history.c, clock.c, the frame level of ipc.c).                           *)
(*                                                                         *)
(* channel and outbox are as in lab 4: a pipe is a sequence of frames, and  *)
(* every write_frame of a multicast is a step of its own.  A frame carries  *)
(* its payload as a sequence: nothing, one transfer order, or a ledger.     *)
(* The texts of STARTED and DONE are left out.                              *)
(***************************************************************************)
EXTENDS Processes, LamportClock, Ledger

CONSTANTS
  Initial,    \* Initial[p]: the balance p starts with
  Orders,     \* the transfers bank_robbery asks for, in order
  Capacity    \* the frames a pipe holds before write() answers EAGAIN

TransferOrder == [src : Int, dst : Int, amount : Int]

ASSUME Pa3Assumption ==
  /\ Initial \in [Worker -> BalanceT]
  /\ Orders \in Seq(TransferOrder)
  /\ Capacity \in Nat \ {0}

MessageType == {"STARTED", "DONE", "ACK", "STOP", "TRANSFER", "BALANCE_HISTORY"}

VARIABLES
  clock,     \* logical_time
  channel,   \* channel[p][q]: the frames in the pipe from p to q
  outbox,    \* the frame being written and its remaining targets
  peer,      \* peer[p]: the peer a loop over await_message has come to
  next,      \* the number of the order the parent is at
  stopped,   \* the workers that have received STOP
  done,      \* done[p]: the peers whose DONE worker p has received
  ledger,    \* ledger[p]: the history of worker p's account
  history,   \* history[p]: the ledger of p the parent has received
  outgoing,  \* events.log: the orders passed on by their source, with the time
  incoming   \* events.log: the transfers booked by their target, with the time

vars == <<pc, clock, channel, outbox, peer, next, stopped, done, ledger, history,
          outgoing, incoming>>

(* Between its birth and its end a node waits for STARTED (starting); then a  *)
(* worker serves its account and reports its history (serving, reporting),    *)
(* while the parent is in bank_robbery, waits for an ACK, for DONE and for    *)
(* the histories (robbing, acking, collecting, gathering).                    *)
State == {"starting", "serving", "reporting", "robbing", "acking", "collecting",
          "gathering"} \cup Lifecycle

Nothing == <<>>
Idle == [type |-> "none", payload |-> Nothing, to |-> {}]
Writing(p) == outbox[p].to # {}
Peers(p) == Worker \ {p}

(* The loops over the peers skip the process itself. *)
PeerFrom(p, q) == IF q = p THEN q + 1 ELSE q

Init ==
  /\ pc = NothingForked
  /\ clock = [p \in Node |-> 0]
  /\ channel = [p \in Node |-> [q \in Node |-> <<>>]]
  /\ outbox = [p \in Node |-> Idle]
  /\ peer = [p \in Node |-> PeerFrom(p, 1)]
  /\ next = 1
  /\ stopped = {}
  /\ done = [p \in Worker |-> {}]
  /\ ledger = [p \in Worker |-> Opening(Initial[p])]
  /\ history = [p \in Worker |-> Nothing]
  /\ outgoing = <<>>
  /\ incoming = <<>>

events == <<outgoing, incoming>>
accounts == <<ledger, history, events>>
protocol == <<peer, next, stopped, done>>

Fatal(p) ==
  /\ Fail(p)
  /\ UNCHANGED <<clock, channel, outbox, protocol, accounts>>

(* bank_robbery.c, which may be replaced: one unit visits every account and *)
(* returns.                                                                 *)
Robbery ==
  IF Children < 2 THEN <<>>
  ELSE [p \in Worker |->
          [src |-> p, dst |-> IF p = Children THEN 1 ELSE p + 1, amount |-> 1]]

-----------------------------------------------------------------------------
(* send, send_multicast and write_frame. *)

ToWrite(type, payload, targets) ==
  IF targets = {} THEN Idle ELSE [type |-> type, payload |-> payload, to |-> targets]

(* p's clock goes from time to the next tick, whether it sends to one or to all. *)
Sends(p, time, type, payload, targets) ==
  /\ CanSend(time)
  /\ clock' = [clock EXCEPT ![p] = ClockSend(time)]
  /\ outbox' = [outbox EXCEPT ![p] = ToWrite(type, payload, targets)]

NextTarget(p, q) ==
  /\ ~Closed(p) /\ pc[p] # "stopping"
  /\ q \in outbox[p].to
  /\ \A r \in outbox[p].to : q <= r

WriteFrame(p, q) ==
  /\ NextTarget(p, q) /\ ~Gone(q)
  /\ Len(channel[p][q]) < Capacity
  /\ LET b == outbox[p] IN
       /\ channel' = [channel EXCEPT ![p][q] =
                        Append(@, [type |-> b.type, time |-> clock[p], payload |-> b.payload])]
       /\ outbox' = [outbox EXCEPT ![p] = ToWrite(b.type, b.payload, b.to \ {q})]
  /\ UNCHANGED <<pc, clock, protocol, accounts>>

BrokenPipe(p, q) ==
  /\ NextTarget(p, q) /\ Gone(q)
  /\ Fatal(p)

-----------------------------------------------------------------------------
(* receive, await_message and await_any.  A frame is taken when the code      *)
(* accepts it; Accepts, defined below, lists what it requires.                *)

Received(p, q) == Head(channel[q][p])
TimeOfReceipt(p, q) == ClockReceive(clock[p], Received(p, q).time)

(* The peers p may be reading from: one in await_message, all in await_any. *)
Awaited(p) ==
  CASE pc[p] \in {"starting", "collecting", "gathering"} -> {peer[p]} \cap Worker
    [] pc[p] = "acking" -> {Orders[next].dst}
    [] pc[p] = "serving" -> IF p \in stopped /\ done[p] = Peers(p) THEN {} ELSE Node \ {p}
    [] OTHER -> {}

Reading(p, q) == ~Writing(p) /\ q \in Awaited(p) /\ channel[q][p] # <<>>

(* await_message gives up on a peer that is gone, await_any when all are. *)
PeersClosed(p) ==
  /\ ~Writing(p) /\ Awaited(p) # {}
  /\ \A q \in Awaited(p) : Gone(q) /\ channel[q][p] = <<>>
  /\ Fatal(p)

-----------------------------------------------------------------------------
(* What receive, process_transfer and the loops require of a frame. *)

ValidOrder(order) ==
  /\ order.src \in Worker /\ order.dst \in Worker
  /\ order.src # order.dst
  /\ order.amount \in 0..MaxBalance

(* The order of the parent to the source, and the money from the source. *)
IsDebit(p, q, order) == p = order.src /\ q = PARENT_ID
IsCredit(p, q, order) == p = order.dst /\ q = order.src

AcceptsTransfer(p, q, m, now) ==
  LET order == m.payload[1] IN
    /\ ValidOrder(order) /\ CanSend(now)
    /\ \/ IsDebit(p, q, order) /\ CanDebit(ledger[p], ClockSend(now), order.amount)
       \/ IsCredit(p, q, order) /\ CanCredit(ledger[p], m.time, now, order.amount)

(* Mutant: DONE only after the own STOP. *)
AcceptsByWorker_DoneAfterStop(p, q, m, now) ==
  \/ m.type = "TRANSFER" /\ AcceptsTransfer(p, q, m, now)
  \/ m.type = "STOP" /\ q = PARENT_ID /\ p \notin stopped /\ FitsHistory(now) /\ CanSend(now)
  \/ m.type = "DONE" /\ q # PARENT_ID /\ q \notin done[p] /\ p \in stopped

AcceptsByWorker(p, q, m, now) ==
  \/ m.type = "TRANSFER" /\ AcceptsTransfer(p, q, m, now)
  \/ m.type = "STOP" /\ q = PARENT_ID /\ p \notin stopped /\ FitsHistory(now) /\ CanSend(now)
  \/ m.type = "DONE" /\ q # PARENT_ID /\ q \notin done[p]

Expected(p) ==
  CASE pc[p] = "starting" -> "STARTED"
    [] pc[p] = "acking" -> "ACK"
    [] pc[p] = "collecting" -> "DONE"
    [] pc[p] = "gathering" -> "BALANCE_HISTORY"
    [] OTHER -> "none"

Accepts(p, q) ==
  LET m == Received(p, q) IN
    /\ CanReceive(clock[p], m.time)
    /\ IF pc[p] = "serving" THEN AcceptsByWorker(p, q, m, TimeOfReceipt(p, q))
       ELSE m.type = Expected(p)

(* p takes the frame of the given type from q's pipe. *)
Takes(p, q, type) ==
  /\ Reading(p, q) /\ Received(p, q).type = type
  /\ Accepts(p, q)
  /\ channel' = [channel EXCEPT ![q][p] = Tail(@)]

RejectFrame(p, q) ==
  /\ Reading(p, q) /\ ~Accepts(p, q)
  /\ Fatal(p)
Ticks(p, q) == clock' = [clock EXCEPT ![p] = TimeOfReceipt(p, q)]
ToNextPeer(p) == peer' = [peer EXCEPT ![p] = PeerFrom(p, @ + 1)]
PastTheLast(p) == peer[p] > Children /\ ~Writing(p)

-----------------------------------------------------------------------------
(* The first barrier: broadcast_status and wait_started. *)

AnnounceStarted(p) ==
  /\ p \in Worker /\ pc[p] = "boot"
  /\ Sends(p, clock[p], "STARTED", Nothing, Node \ {p})
  /\ Goto(p, "starting")
  /\ UNCHANGED <<channel, protocol, accounts>>

AwaitStarted(p, q) ==
  /\ Takes(p, q, "STARTED")
  /\ Ticks(p, q)
  /\ ToNextPeer(p)
  /\ UNCHANGED <<pc, outbox, next, stopped, done, accounts>>

PassStarted(p) ==
  /\ pc[p] = "starting" /\ PastTheLast(p)
  /\ Goto(p, IF p = PARENT_ID THEN "robbing" ELSE "serving")
  /\ UNCHANGED <<clock, channel, outbox, protocol, accounts>>

-----------------------------------------------------------------------------
(* A worker: child_run and process_transfer. *)

(* Mutant: the debit at the time of the request. *)
ReceiveOrder_AtRequest(p, q) ==
  LET order == Received(p, q).payload[1]
      sent == ClockSend(TimeOfReceipt(p, q)) IN
    /\ Takes(p, q, "TRANSFER") /\ IsDebit(p, q, order)
    /\ ledger' = [ledger EXCEPT ![p] = Debit(@, TimeOfReceipt(p, q), order.amount)]
    /\ outgoing' = Append(outgoing, [order |-> order, time |-> sent])
    /\ Sends(p, TimeOfReceipt(p, q), "TRANSFER", <<order>>, {order.dst})
    /\ UNCHANGED <<pc, protocol, history, incoming>>

(* The debit belongs to the send that follows, whose stamp is the next tick. *)
ReceiveOrder(p, q) ==
  LET order == Received(p, q).payload[1]
      sent == ClockSend(TimeOfReceipt(p, q)) IN
    /\ Takes(p, q, "TRANSFER") /\ IsDebit(p, q, order)
    /\ ledger' = [ledger EXCEPT ![p] = Debit(@, sent, order.amount)]
    /\ outgoing' = Append(outgoing, [order |-> order, time |-> sent])
    /\ Sends(p, TimeOfReceipt(p, q), "TRANSFER", <<order>>, {order.dst})
    /\ UNCHANGED <<pc, protocol, history, incoming>>

ReceiveTransfer(p, q) ==
  LET m == Received(p, q)
      order == m.payload[1]
      now == TimeOfReceipt(p, q) IN
    /\ Takes(p, q, "TRANSFER") /\ IsCredit(p, q, order)
    /\ ledger' = [ledger EXCEPT ![p] = Credit(@, m.time, now, order.amount)]
    /\ incoming' = Append(incoming, [order |-> order, time |-> now])
    /\ Sends(p, now, "ACK", Nothing, {PARENT_ID})
    /\ UNCHANGED <<pc, protocol, history, outgoing>>

ReceiveStop(p, q) ==
  LET now == TimeOfReceipt(p, q) IN
    /\ Takes(p, q, "STOP")
    /\ stopped' = stopped \cup {p}
    /\ ledger' = [ledger EXCEPT ![p] = Extend(@, now)]
    /\ Sends(p, now, "DONE", Nothing, Node \ {p})
    /\ UNCHANGED <<pc, peer, next, done, history, events>>

(* Possibly before p's own STOP: the two come through different pipes. *)
ReceiveDone(p, q) ==
  /\ p \in Worker /\ Takes(p, q, "DONE")
  /\ Ticks(p, q)
  /\ done' = [done EXCEPT ![p] = @ \cup {q}]
  /\ UNCHANGED <<pc, outbox, peer, next, stopped, accounts>>

(* Mutant: a worker that does not wait for the DONE of the others. *)
Served_StopOnly(p) == pc[p] = "serving" /\ ~Writing(p) /\ p \in stopped

Served(p) ==
  /\ pc[p] = "serving" /\ ~Writing(p)
  /\ p \in stopped /\ done[p] = Peers(p)

ReportHistory(p) ==
  /\ Served(p) /\ FitsHistory(clock[p])
  /\ ledger' = [ledger EXCEPT ![p] = Extend(@, clock[p])]
  /\ Sends(p, clock[p], "BALANCE_HISTORY", ledger'[p], {PARENT_ID})
  /\ Goto(p, "reporting")
  /\ UNCHANGED <<channel, protocol, history, events>>

ExitChild(p) ==
  /\ pc[p] = "reporting" /\ ~Writing(p)
  /\ Goto(p, "exited")
  /\ UNCHANGED <<clock, channel, outbox, protocol, accounts>>

-----------------------------------------------------------------------------
(* The parent: transfer, called by bank_robbery, and parent_run. *)

Robbing == pc[PARENT_ID] = "robbing"
MoreOrders == next <= Len(Orders)

(* Mutant: the ACK of a transfer is not waited for. *)
RequestTransfer_NoAck ==
  /\ Robbing /\ MoreOrders /\ ~Writing(PARENT_ID)
  /\ LET order == Orders[next] IN
       /\ ValidOrder(order)
       /\ Sends(PARENT_ID, clock[PARENT_ID], "TRANSFER", <<order>>, {order.src})
  /\ next' = next + 1
  /\ UNCHANGED <<pc, channel, peer, stopped, done, accounts>>

RequestTransfer ==
  /\ Robbing /\ MoreOrders
  /\ LET order == Orders[next] IN
       /\ ValidOrder(order)
       /\ Sends(PARENT_ID, clock[PARENT_ID], "TRANSFER", <<order>>, {order.src})
  /\ Goto(PARENT_ID, "acking")
  /\ UNCHANGED <<channel, protocol, accounts>>

AwaitAck(q) ==
  /\ Takes(PARENT_ID, q, "ACK")
  /\ Ticks(PARENT_ID, q)
  /\ next' = next + 1
  /\ Goto(PARENT_ID, "robbing")
  /\ UNCHANGED <<outbox, peer, stopped, done, accounts>>

BroadcastStop ==
  /\ Robbing /\ ~MoreOrders
  /\ Sends(PARENT_ID, clock[PARENT_ID], "STOP", Nothing, Worker)
  /\ peer' = [peer EXCEPT ![PARENT_ID] = 1]
  /\ Goto(PARENT_ID, "collecting")
  /\ UNCHANGED <<channel, next, stopped, done, accounts>>

AwaitDone(q) ==
  /\ Takes(PARENT_ID, q, "DONE")
  /\ Ticks(PARENT_ID, q)
  /\ ToNextPeer(PARENT_ID)
  /\ UNCHANGED <<pc, outbox, next, stopped, done, accounts>>

AllDone ==
  /\ pc[PARENT_ID] = "collecting" /\ PastTheLast(PARENT_ID)
  /\ peer' = [peer EXCEPT ![PARENT_ID] = 1]
  /\ Goto(PARENT_ID, "gathering")
  /\ UNCHANGED <<clock, channel, outbox, next, stopped, done, accounts>>

AwaitHistory(q) ==
  /\ Takes(PARENT_ID, q, "BALANCE_HISTORY")
  /\ Ticks(PARENT_ID, q)
  /\ history' = [history EXCEPT ![q] = Received(PARENT_ID, q).payload]
  /\ ToNextPeer(PARENT_ID)
  /\ UNCHANGED <<pc, outbox, next, stopped, done, ledger, events>>

Gathered == pc[PARENT_ID] = "gathering" /\ PastTheLast(PARENT_ID)

(* history_finish, then print_history and channels_close. *)
FinishHistory ==
  /\ Gathered /\ AddsUp(history, Initial, Worker)
  /\ Goto(PARENT_ID, "reaping")
  /\ UNCHANGED <<clock, channel, outbox, protocol, accounts>>

-----------------------------------------------------------------------------
(* What is fatal at a node's own step: a clock at its maximum before a send, *)
(* a bad order, a history that is too long or does not add up.               *)
Refuses(p) ==
  \/ /\ (p \in Worker /\ pc[p] = "boot") \/ pc[p] = "robbing" \/ Served(p)
     /\ ~CanSend(clock[p])
  \/ pc[p] = "robbing" /\ MoreOrders /\ ~ValidOrder(Orders[next])
  \/ Served(p) /\ ~FitsHistory(clock[p])
  \/ p = PARENT_ID /\ Gathered /\ ~AddsUp(history, Initial, Worker)

Refuse(p) == Refuses(p) /\ Fatal(p)

NodeNext(p) ==
  \/ AnnounceStarted(p) \/ PassStarted(p)
  \/ ReportHistory(p) \/ ExitChild(p)
  \/ \E q \in Node \ {p} :
       \/ WriteFrame(p, q) \/ BrokenPipe(p, q)
       \/ AwaitStarted(p, q) \/ RejectFrame(p, q)
       \/ ReceiveOrder(p, q) \/ ReceiveTransfer(p, q)
       \/ ReceiveStop(p, q) \/ ReceiveDone(p, q)
  \/ PeersClosed(p)
  \/ Refuse(p)

ParentNext ==
  \/ RequestTransfer \/ BroadcastStop \/ AllDone \/ FinishHistory
  \/ \E q \in Worker : AwaitAck(q) \/ AwaitDone(q) \/ AwaitHistory(q)

Supervision == Supervise /\ UNCHANGED <<clock, channel, outbox, protocol, accounts>>

Signals ==
  (\E p \in Node : Kill(p)) /\ UNCHANGED <<clock, channel, outbox, protocol, accounts>>

Next ==
  \/ \E p \in Node : NodeNext(p)
  \/ ParentNext
  \/ Supervision
  \/ Signals
  \/ Terminated /\ UNCHANGED vars

Spec == Init /\ [][Next]_vars

(* A live process keeps running, and sched_yield leaves none out for ever. *)
Fairness ==
  /\ \A p \in Worker : WF_vars(NodeNext(p))
  /\ WF_vars(NodeNext(PARENT_ID) \/ ParentNext)
  /\ WF_vars(Supervision)

FairSpec == Spec /\ Fairness
-----------------------------------------------------------------------------
(* Properties. *)

(* A frame's payload goes with its type. *)
OneOrder == [{1} -> TransferOrder]
Payload == {Nothing} \cup OneOrder \cup History
Fits(m) ==
  CASE m.type = "TRANSFER" -> m.payload \in OneOrder
    [] m.type = "BALANCE_HISTORY" -> m.payload \in History
    [] OTHER -> m.payload = Nothing

Frame == {m \in [type : MessageType, time : Timestamp, payload : Payload] : Fits(m)}
Output == {b \in [type : MessageType, payload : Payload, to : SUBSET Node] : Fits(b)}
Event == [order : TransferOrder, time : Timestamp]

(* The types of the variables; a history is no longer than its length, a *)
(* uint8_t, can say (README: states 0..254).                             *)
TypeOK ==
  /\ pc \in [Node -> State]
  /\ pc[PARENT_ID] \notin {"unborn", "serving", "reporting"}
  /\ clock \in [Node -> Timestamp]
  /\ channel \in [Node -> [Node -> Seq(Frame)]]
  /\ outbox \in [Node -> {Idle} \cup Output]
  /\ peer \in [Node -> 1..(Children + 2)]
  /\ next \in 1..(Len(Orders) + 1)
  /\ stopped \in SUBSET Worker
  /\ done \in [Worker -> SUBSET Worker]
  /\ ledger \in [Worker -> History]
  /\ history \in [Worker -> {Nothing} \cup History]
  /\ outgoing \in Seq(Event) /\ incoming \in Seq(Event)

Sum(log, picks) == SumFunction([i \in picks |-> log[i].order.amount])

(* The cell of account a at a time, from the events alone, the way the audit *)
(* of tests/verify.py builds it.                                             *)
CellFromEvents(a, time) ==
  LET spent == {i \in DOMAIN outgoing : outgoing[i].order.src = a /\ outgoing[i].time <= time}
      to == {i \in DOMAIN incoming : incoming[i].order.dst = a}
      earned == {i \in to : incoming[i].time <= time}
      pending == {i \in to \ earned : outgoing[i].time <= time} IN
    [balance |-> Initial[a] - Sum(outgoing, spent) + Sum(incoming, earned),
     pending_in |-> Sum(incoming, pending)]

(* Every cell of every history is what the transfer events say, also while   *)
(* transfers are under way, and the parent prints exactly these histories    *)
(* (docs/DEFENSE.md: the total alone would let two wrong cells cancel out).  *)
HistoriesMatchEvents ==
  /\ \A a \in Worker : \A time \in 0..(Len(ledger[a]) - 1) :
       ledger[a][time + 1] = CellFromEvents(a, time)
  /\ pc[PARENT_ID] \in {"reaping", "exited"} => history = ledger

(* Money is neither made nor lost: at every logical time the balances, the   *)
(* pending amounts and what a source has sent and its target not yet booked  *)
(* add up to what there was at the start (README: for every t the sum of     *)
(* balance and pending_in equals the initial one).                           *)
MoneyConserved ==
  \A time \in 0..Horizon(ledger, Worker) :
    SumFunction([a \in Worker |-> At(ledger[a], time).balance + At(ledger[a], time).pending_in])
      + Sum(outgoing, {i \in DOMAIN outgoing \ DOMAIN incoming : outgoing[i].time <= time})
    = SumFunction(Initial)

(* Transfers do not overlap, in logical time either: each is the order        *)
(* bank_robbery gave, booked after it was sent and before the next is sent.   *)
(* The audit sorts by time and pairs the lines up on the strength of this.    *)
TransfersInOrder ==
  /\ Len(incoming) <= Len(outgoing) /\ Len(outgoing) <= Len(incoming) + 1
  /\ \A i \in DOMAIN incoming :
       /\ outgoing[i].order = Orders[i] /\ incoming[i].order = Orders[i]
       /\ outgoing[i].time < incoming[i].time
       /\ i + 1 \in DOMAIN outgoing => incoming[i].time < outgoing[i + 1].time

(* The phases: no account moves before every worker has announced itself,    *)
(* none after the first STOP, and no history leaves a worker before all have *)
(* stopped (DEFENSE.md: after bank_robbery there is no unfinished transfer). *)
BarriersHold ==
  /\ outgoing # <<>> => \A p \in Worker : pc[p] \notin {"unborn", "boot"}
  /\ stopped # {} => Len(incoming) = Len(Orders)
  /\ (\E p \in Worker : pc[p] \in {"reporting", "exited"}) => stopped = Worker

(* A node that closes its pipes leaves nothing unread, and nobody is about   *)
(* to write to it.                                                           *)
NothingUnread ==
  \A p, q \in Node :
    pc[p] \in {"reaping", "exited"} => channel[q][p] = <<>> /\ p \notin outbox[q].to

(* The parent's exit status is true: success means that every order was      *)
(* carried out and every worker exited with success, and unless it is killed *)
(* the parent never ends before its children have.                           *)
ParentReports ==
  /\ pc[PARENT_ID] \in {"exited", "failed"} =>
       \A p \in Worker : pc[p] \in Over \cup {"unborn"}
  /\ pc[PARENT_ID] = "exited" =>
       Len(incoming) = Len(Orders) /\ \A p \in Worker : pc[p] = "exited"

(* All orders are carried out, the histories reach the parent, and everybody *)
(* exits with success: no frame is refused, no pipe is written after its     *)
(* reader closed it, and nobody waits for ever for room in a pipe, though a  *)
(* pipe has room for no more than DONE and a history (DEFENSE.md:            *)
(* synchronous transfers make no unbounded queue).                           *)
EveryoneExits == <>(\A p \in Node : pc[p] = "exited")

(* A process that refuses to go on makes the program end with a failure      *)
(* (docs/VALIDATION.md: a history that is too long gives a nonzero code).    *)
RefusalReported ==
  (\E p \in Worker : pc[p] = "failed") ~> pc[PARENT_ID] = "failed"

(* Every history is that of an account the orders are carried out on, one at *)
(* a time and each once, whoever dies.                                       *)
UnderWay(p, q, type) ==
  \/ q \in outbox[p].to /\ outbox[p].type = type
  \/ \E i \in DOMAIN channel[p][q] : channel[p][q][i].type = type

Abstract ==
  INSTANCE Accounts WITH
    Account <- Worker,
    balance <- [a \in Worker |-> Closing(ledger[a]).balance],
    moved <- next - 1 + (IF \E p \in Worker : UnderWay(p, PARENT_ID, "ACK") THEN 1 ELSE 0),
    under_way <- \E p, q \in Worker : UnderWay(p, q, "TRANSFER")

ImplementsAccounts == Abstract!AccSpec
=============================================================================
