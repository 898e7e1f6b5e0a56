------------------------------ MODULE Pa2Bank -------------------------------
(***************************************************************************)
(* Lab 2: the bank with a physical clock (src/lab2/main.c and ipc.c).  The  *)
(* parent orders transfers, the workers keep a balance per time and report  *)
(* it.  Money under way is in no history, and frames carry no time that     *)
(* anybody looks at.                                                        *)
(*                                                                         *)
(* Pipes are as in lab 3: sequences of frames, written one by one.  main    *)
(* treats its children differently: a refused fork is fatal with every      *)
(* pipe still open, and at the end they are waited for in turn, the first   *)
(* that has failed being fatal for the rest.                                *)
(***************************************************************************)
EXTENDS Processes, Ledger

CONSTANTS
  Initial,    \* Initial[p]: the balance p starts with
  Orders,     \* the transfers bank_robbery.c, which may be replaced, asks for, in order
  Capacity,   \* the frames a pipe holds before write() answers EAGAIN
  LastTime    \* the bound of the physical clock

TransferOrder == [src : Int, dst : Int, amount : Int]

ASSUME Pa2Assumption ==
  /\ Initial \in [Worker -> BalanceT]
  /\ Orders \in Seq(TransferOrder)
  /\ Capacity \in Nat \ {0}
  /\ LastTime \in Nat

VARIABLES
  now,       \* get_physical_time()
  channel,   \* channel[p][q]: the frames in the pipe from p to q
  outbox,    \* the frame being written and its remaining targets
  peer,      \* peer[p]: the peer a loop over wait_message has come to
  next,      \* the number of the order the parent is at
  stopped,   \* the workers that have received STOP
  done,      \* done[p]: the peers whose DONE worker p has received
  ledger,    \* ledger[p]: the history of worker p's account
  history,   \* history[p]: the parent's copy
  outgoing,  \* events.log: the orders passed on by their source, with the time
  incoming   \* events.log: the transfers booked by their target, with the time

protocol == <<peer, next, stopped, done>>
events == <<outgoing, incoming>>
accounts == <<ledger, history, events>>
vars == <<pc, now, channel, outbox, protocol, accounts>>

Nothing == <<>>
Idle == [type |-> "none", payload |-> Nothing, to |-> {}]
Writing(p) == outbox[p].to # {}
Peers(p) == Worker \ {p}
PeerFrom(p, q) == IF q = p THEN q + 1 ELSE q

Init ==
  /\ pc = NothingForked
  /\ now = 0
  /\ channel = [p \in Node |-> [q \in Node |-> <<>>]]
  /\ outbox = [p \in Node |-> Idle]
  /\ peer = [p \in Node |-> PeerFrom(p, 1)]
  /\ next = 1
  /\ stopped = {}
  /\ done = [p \in Worker |-> {}]
  /\ ledger = [p \in Worker |-> Opening(Initial[p])]
  /\ history = [p \in Worker |-> Nothing]
  /\ outgoing = <<>>
  /\ incoming = <<>>

Fatal(p) == Fail(p) /\ UNCHANGED <<now, channel, outbox, protocol, accounts>>

-----------------------------------------------------------------------------
(* send and send_multicast.  In its fork loop the parent has the ends of all *)
(* pipes, and it keeps them while it stops the children after a refusal.     *)

HasAllEnds(p) == p = PARENT_ID /\ pc[p] = "stopping" /\ \E q \in Worker : pc[q] = "unborn"
NoEnds(q) == Gone(q) /\ ~HasAllEnds(PARENT_ID)

ToWrite(type, payload, targets) ==
  IF targets = {} THEN Idle ELSE [type |-> type, payload |-> payload, to |-> targets]

Sends(p, type, payload, targets) ==
  outbox' = [outbox EXCEPT ![p] = ToWrite(type, payload, targets)]

NextTarget(p, q) ==
  /\ ~Closed(p) /\ pc[p] # "stopping"
  /\ q \in outbox[p].to
  /\ \A r \in outbox[p].to : q <= r

WriteFrame(p, q) ==
  /\ NextTarget(p, q) /\ ~NoEnds(q)
  /\ Len(channel[p][q]) < Capacity
  /\ LET b == outbox[p] IN
       /\ channel' = [channel EXCEPT ![p][q] =
                        Append(@, [type |-> b.type, payload |-> b.payload])]
       /\ outbox' = [outbox EXCEPT ![p] = ToWrite(b.type, b.payload, b.to \ {q})]
  /\ UNCHANGED <<pc, now, protocol, accounts>>

BrokenPipe(p, q) == NextTarget(p, q) /\ NoEnds(q) /\ Fatal(p)

-----------------------------------------------------------------------------
(* receive, receive_any and wait_message: from one peer, or from any. *)

Received(p, q) == Head(channel[q][p])

Awaited(p) ==
  CASE pc[p] \in {"starting", "collecting", "gathering"} -> {peer[p]} \cap Worker
    [] pc[p] = "acking" -> {Orders[next].dst}
    [] pc[p] = "serving" -> IF p \in stopped /\ done[p] = Peers(p) THEN {} ELSE Node \ {p}
    [] OTHER -> {}

Reading(p, q) == ~Writing(p) /\ q \in Awaited(p) /\ channel[q][p] # <<>>

(* receive gives up at the end of file, receive_any when all pipes are there. *)
PeersClosed(p) ==
  /\ ~Writing(p) /\ Awaited(p) # {}
  /\ \A q \in Awaited(p) : NoEnds(q) /\ channel[q][p] = <<>>
  /\ Fatal(p)

-----------------------------------------------------------------------------
(* What the code requires of a frame. *)

ValidOrder(order) ==
  /\ order.src \in Worker /\ order.dst \in Worker
  /\ order.src # order.dst
  /\ order.amount \in 1..MaxBalance

IsDebit(p, q, order) == p = order.src /\ q = PARENT_ID
IsCredit(p, q, order) == p = order.dst /\ q = order.src

AcceptsTransfer(p, q, order) ==
  /\ ValidOrder(order) /\ FitsHistory(now)
  /\ \/ IsDebit(p, q, order) /\ FitsBalance(Closing(ledger[p]).balance - order.amount)
     \/ IsCredit(p, q, order) /\ FitsBalance(Closing(ledger[p]).balance + order.amount)

(* Mutant: DONE only after the own STOP. *)
AcceptsByWorker_DoneAfterStop(p, q, m) ==
  \/ m.type = "TRANSFER" /\ AcceptsTransfer(p, q, m.payload[1])
  \/ m.type = "STOP" /\ q = PARENT_ID /\ p \notin stopped /\ FitsHistory(now)
  \/ m.type = "DONE" /\ q # PARENT_ID /\ q \notin done[p] /\ p \in stopped

AcceptsByWorker(p, q, m) ==
  \/ m.type = "TRANSFER" /\ AcceptsTransfer(p, q, m.payload[1])
  \/ m.type = "STOP" /\ q = PARENT_ID /\ p \notin stopped /\ FitsHistory(now)
  \/ m.type = "DONE" /\ q # PARENT_ID /\ q \notin done[p]

Expected(p) ==
  CASE pc[p] = "starting" -> "STARTED"
    [] pc[p] = "acking" -> "ACK"
    [] pc[p] = "collecting" -> "DONE"
    [] pc[p] = "gathering" -> "BALANCE_HISTORY"
    [] OTHER -> "none"

Accepts(p, q) ==
  LET m == Received(p, q) IN
    IF pc[p] = "serving" THEN AcceptsByWorker(p, q, m) ELSE m.type = Expected(p)

(* p takes the frame of the given type from q's pipe. *)
Takes(p, q, type) ==
  /\ Reading(p, q) /\ Received(p, q).type = type
  /\ Accepts(p, q)
  /\ channel' = [channel EXCEPT ![q][p] = Tail(@)]

RejectFrame(p, q) == Reading(p, q) /\ ~Accepts(p, q) /\ Fatal(p)

ToNextPeer(p) == peer' = [peer EXCEPT ![p] = PeerFrom(p, @ + 1)]
PastTheLast(p) == peer[p] > Children /\ ~Writing(p)

-----------------------------------------------------------------------------
(* A worker: child_main and apply_transfer. *)

AnnounceStarted(p) ==
  /\ p \in Worker /\ pc[p] = "boot"
  /\ Sends(p, "STARTED", Nothing, Node \ {p})
  /\ Goto(p, "starting")
  /\ UNCHANGED <<now, channel, protocol, accounts>>

(* Also the parent's loop. *)
AwaitStarted(p, q) ==
  /\ Takes(p, q, "STARTED")
  /\ ToNextPeer(p)
  /\ UNCHANGED <<pc, now, outbox, next, stopped, done, accounts>>

PassStarted(p) ==
  /\ pc[p] = "starting" /\ PastTheLast(p)
  /\ Goto(p, IF p = PARENT_ID THEN "robbing" ELSE "serving")
  /\ UNCHANGED <<now, channel, outbox, protocol, accounts>>

(* Mutant: the entry of the time before is changed, not a new one. *)
Book_WithoutExtending(account, amount) ==
  [account EXCEPT ![Len(account)].balance = @ + amount]

(* The entry of this time, which an earlier transfer may have made. *)
Book(account, amount) ==
  [Extend(account, now) EXCEPT ![now + 1].balance = Closing(account).balance + amount]

ReceiveOrder(p, q) ==
  LET order == Received(p, q).payload[1] IN
    /\ Takes(p, q, "TRANSFER") /\ IsDebit(p, q, order)
    /\ ledger' = [ledger EXCEPT ![p] = Book(@, -order.amount)]
    /\ outgoing' = Append(outgoing, [order |-> order, time |-> now])
    /\ Sends(p, "TRANSFER", <<order>>, {order.dst})
    /\ UNCHANGED <<pc, now, protocol, history, incoming>>

ReceiveTransfer(p, q) ==
  LET order == Received(p, q).payload[1] IN
    /\ Takes(p, q, "TRANSFER") /\ IsCredit(p, q, order)
    /\ ledger' = [ledger EXCEPT ![p] = Book(@, order.amount)]
    /\ incoming' = Append(incoming, [order |-> order, time |-> now])
    /\ Sends(p, "ACK", Nothing, {PARENT_ID})
    /\ UNCHANGED <<pc, now, protocol, history, outgoing>>

ReceiveStop(p, q) ==
  /\ Takes(p, q, "STOP")
  /\ stopped' = stopped \cup {p}
  /\ ledger' = [ledger EXCEPT ![p] = Extend(@, now)]
  /\ Sends(p, "DONE", Nothing, Node \ {p})
  /\ UNCHANGED <<pc, now, peer, next, done, history, events>>

(* Possibly before p's own STOP: the two come through different pipes. *)
ReceiveDone(p, q) ==
  /\ p \in Worker /\ Takes(p, q, "DONE")
  /\ done' = [done EXCEPT ![p] = @ \cup {q}]
  /\ UNCHANGED <<pc, now, outbox, peer, next, stopped, accounts>>

(* Mutant: a worker that does not wait for the DONE of the others. *)
Served_StopOnly(p) == pc[p] = "serving" /\ ~Writing(p) /\ p \in stopped

Served(p) ==
  /\ pc[p] = "serving" /\ ~Writing(p)
  /\ p \in stopped /\ done[p] = Peers(p)

(* The clock may have moved since the DONE. *)
ReportHistory(p) ==
  /\ Served(p) /\ FitsHistory(now)
  /\ ledger' = [ledger EXCEPT ![p] = Extend(@, now)]
  /\ Sends(p, "BALANCE_HISTORY", ledger'[p], {PARENT_ID})
  /\ Goto(p, "reporting")
  /\ UNCHANGED <<now, channel, protocol, history, events>>

ExitChild(p) ==
  /\ pc[p] = "reporting" /\ ~Writing(p)
  /\ Goto(p, "exited")
  /\ UNCHANGED <<now, channel, outbox, protocol, accounts>>

-----------------------------------------------------------------------------
(* The parent: transfer, called by bank_robbery, and parent_main. *)

Robbing == pc[PARENT_ID] = "robbing"
MoreOrders == next <= Len(Orders)

(* Mutant: the ACK of a transfer is not waited for. *)
RequestTransfer_NoAck ==
  /\ Robbing /\ MoreOrders /\ ~Writing(PARENT_ID)
  /\ LET order == Orders[next] IN
       /\ ValidOrder(order)
       /\ Sends(PARENT_ID, "TRANSFER", <<order>>, {order.src})
  /\ next' = next + 1
  /\ UNCHANGED <<pc, now, channel, peer, stopped, done, accounts>>

RequestTransfer ==
  /\ Robbing /\ MoreOrders
  /\ LET order == Orders[next] IN
       /\ ValidOrder(order)
       /\ Sends(PARENT_ID, "TRANSFER", <<order>>, {order.src})
  /\ Goto(PARENT_ID, "acking")
  /\ UNCHANGED <<now, channel, protocol, accounts>>

AwaitAck(q) ==
  /\ Takes(PARENT_ID, q, "ACK")
  /\ next' = next + 1
  /\ Goto(PARENT_ID, "robbing")
  /\ UNCHANGED <<now, outbox, peer, stopped, done, accounts>>

BroadcastStop ==
  /\ Robbing /\ ~MoreOrders
  /\ Sends(PARENT_ID, "STOP", Nothing, Worker)
  /\ peer' = [peer EXCEPT ![PARENT_ID] = 1]
  /\ Goto(PARENT_ID, "collecting")
  /\ UNCHANGED <<now, channel, next, stopped, done, accounts>>

AwaitDone(q) ==
  /\ Takes(PARENT_ID, q, "DONE")
  /\ ToNextPeer(PARENT_ID)
  /\ UNCHANGED <<pc, now, outbox, next, stopped, done, accounts>>

AllDone ==
  /\ pc[PARENT_ID] = "collecting" /\ PastTheLast(PARENT_ID)
  /\ peer' = [peer EXCEPT ![PARENT_ID] = 1]
  /\ Goto(PARENT_ID, "gathering")
  /\ UNCHANGED <<now, channel, outbox, next, stopped, done, accounts>>

AwaitHistory(q) ==
  /\ Takes(PARENT_ID, q, "BALANCE_HISTORY")
  /\ history' = [history EXCEPT ![q] = Received(PARENT_ID, q).payload]
  /\ ToNextPeer(PARENT_ID)
  /\ UNCHANGED <<pc, now, outbox, next, stopped, done, ledger, events>>

(* Mutant: the histories are printed as they came. *)
FinishHistories_AsTheyCame ==
  /\ pc[PARENT_ID] = "gathering" /\ PastTheLast(PARENT_ID)
  /\ Goto(PARENT_ID, "reaping")
  /\ UNCHANGED <<now, channel, outbox, protocol, accounts>>

(* The histories are brought to one length and printed, the pipes closed. *)
FinishHistories ==
  /\ pc[PARENT_ID] = "gathering" /\ PastTheLast(PARENT_ID)
  /\ history' = [p \in Worker |-> Extend(history[p], Horizon(history, Worker))]
  /\ Goto(PARENT_ID, "reaping")
  /\ UNCHANGED <<now, channel, outbox, protocol, ledger, events>>

(* What is fatal at a node's own step: a bad order, a time beyond histories. *)
Refuse(p) ==
  /\ \/ pc[p] = "robbing" /\ MoreOrders /\ ~ValidOrder(Orders[next])
     \/ p \in Worker /\ Served(p) /\ ~FitsHistory(now)
  /\ Fatal(p)

-----------------------------------------------------------------------------
(* main: the fork loop and the end of the children, where lab 2 differs. *)

RefusedFork(p) == NextToFork(p) /\ ForkMayFail /\ Goto(PARENT_ID, "stopping")

(* Mutant: the parent reports the failure of a child and leaves the rest. *)
ChildFailed_NoStop(p) ==
  /\ pc[PARENT_ID] = "reaping"
  /\ pc[p] \in Over \ {"exited"}
  /\ \A q \in Worker : q < p => pc[q] = "exited"
  /\ Goto(PARENT_ID, "failed")

(* Those before p are waited for and their pids forgotten. *)
ChildFailed(p) ==
  /\ pc[PARENT_ID] = "reaping"
  /\ pc[p] \in Over \ {"exited"}
  /\ \A q \in Worker : q < p => pc[q] = "exited"
  /\ Goto(PARENT_ID, "aborting")

ReapInTurn == Reap /\ (pc[PARENT_ID] = "reaping" => \A p \in Worker : pc[p] = "exited")

Supervision ==
  /\ \/ AllForked \/ ReapInTurn
     \/ \E p \in Worker : Fork(p) \/ RefusedFork(p) \/ ChildFailed(p) \/ StopWorker(p)
  /\ UNCHANGED <<now, channel, outbox, protocol, accounts>>

Signals ==
  (\E p \in Node : Kill(p)) /\ UNCHANGED <<now, channel, outbox, protocol, accounts>>

(* The physical clock is the library's; all that is known is its direction. *)
Tick ==
  /\ now < LastTime /\ ~Terminated
  /\ now' = now + 1
  /\ UNCHANGED <<pc, channel, outbox, protocol, accounts>>

NodeNext(p) ==
  \/ AnnounceStarted(p) \/ PassStarted(p)
  \/ p \in Worker /\ (ReportHistory(p) \/ ExitChild(p))
  \/ \E q \in Node \ {p} :
       \/ WriteFrame(p, q) \/ BrokenPipe(p, q)
       \/ AwaitStarted(p, q) \/ RejectFrame(p, q)
       \/ ReceiveOrder(p, q) \/ ReceiveTransfer(p, q)
       \/ ReceiveStop(p, q) \/ ReceiveDone(p, q)
  \/ PeersClosed(p)
  \/ Refuse(p)

ParentNext ==
  \/ RequestTransfer \/ BroadcastStop \/ AllDone \/ FinishHistories
  \/ \E q \in Worker : AwaitAck(q) \/ AwaitDone(q) \/ AwaitHistory(q)

Next ==
  \/ \E p \in Node : NodeNext(p)
  \/ ParentNext
  \/ Supervision
  \/ Signals
  \/ Tick
  \/ Terminated /\ UNCHANGED vars

Spec == Init /\ [][Next]_vars

(* A live process keeps running: the loops over EAGAIN leave it the processor *)
(* again and again, and receive_any comes round to every peer.                *)
Fairness ==
  /\ \A p \in Worker : WF_vars(NodeNext(p))
  /\ WF_vars(NodeNext(PARENT_ID) \/ ParentNext)
  /\ WF_vars(Supervision)

FairSpec == Spec /\ Fairness
-----------------------------------------------------------------------------
(* Properties. *)

Sum(log, picks) == SumFunction([i \in picks |-> log[i].order.amount])

(* What account a holds at a time, from the lines of events.log alone. *)
BalanceFromEvents(a, time) ==
  LET spent == {i \in DOMAIN outgoing : outgoing[i].order.src = a /\ outgoing[i].time <= time}
      earned == {i \in DOMAIN incoming : incoming[i].order.dst = a /\ incoming[i].time <= time}
  IN Initial[a] - Sum(outgoing, spent) + Sum(incoming, earned)

MatchesEvents(account, a) ==
  \A time \in 0..(Len(account) - 1) :
    account[time + 1] = [balance |-> BalanceFromEvents(a, time), pending_in |-> 0]

(* Every cell of every history is what the transfer lines say, also when     *)
(* several fall on one time and when the clock moves between an account's    *)
(* last event and its report; and the table that is printed has all accounts *)
(* up to the same time (README: the gaps are filled by the previous state).  *)
HistoriesMatchEvents ==
  /\ \A a \in Worker : MatchesEvents(ledger[a], a)
  /\ pc[PARENT_ID] \in {"reaping", "exited"} =>
       /\ \A a \in Worker : MatchesEvents(history[a], a)
       /\ \A a, b \in Worker : Len(history[a]) = Len(history[b])

(* Money is only ever missing, and only while it is under way: at every time *)
(* the balances and what a source has sent and its target not booked by then *)
(* are what there was at the start (README: the sum may differ in between    *)
(* because of the money on its way).                                         *)
MoneyInTransit ==
  \A time \in 0..Horizon(ledger, Worker) :
    LET booked == {i \in DOMAIN incoming : incoming[i].time <= time}
        sent == {i \in DOMAIN outgoing : outgoing[i].time <= time} IN
      /\ booked \subseteq sent
      /\ SumFunction([a \in Worker |-> At(ledger[a], time).balance])
           + Sum(outgoing, sent \ booked)
         = SumFunction(Initial)

(* No account moves before every worker has announced itself, none after the *)
(* first STOP: the transfer after STOP that child_main provides for is never *)
(* needed, because the parent stops only when all are acknowledged.  And no  *)
(* history leaves a worker before all have stopped.                          *)
BarriersHold ==
  /\ outgoing # <<>> => \A p \in Worker : pc[p] \notin {"unborn", "boot"}
  /\ stopped # {} => Len(incoming) = Len(Orders)
  /\ (\E p \in Worker : pc[p] \in {"reporting", "exited"}) => stopped = Worker

(* Success means that all orders are carried out and every worker succeeded, *)
(* and a parent that is not killed never leaves a child behind.              *)
ParentReports ==
  /\ pc[PARENT_ID] \in {"exited", "failed"} =>
       \A p \in Worker : pc[p] \in Over \cup {"unborn"}
  /\ pc[PARENT_ID] = "exited" =>
       Len(incoming) = Len(Orders) /\ \A p \in Worker : pc[p] = "exited"

(* Unless somebody is killed, a fork is refused or the clock passes what a   *)
(* history can say, everybody exits with success: no frame is refused, no    *)
(* pipe is written after its reader closed it, nobody waits for ever.        *)
Disturbed ==
  \/ \E p \in Node : pc[p] = "killed"
  \/ HasAllEnds(PARENT_ID)
  \/ ~FitsHistory(now)

EveryoneExits == <>(Disturbed \/ \A p \in Node : pc[p] = "exited")

(* Whoever dies, what happens to the balances is what the orders say, one at *)
(* a time and each once.                                                     *)
UnderWay(p, q, type) ==
  \/ q \in outbox[p].to /\ outbox[p].type = type
  \/ \E i \in DOMAIN channel[p][q] : channel[p][q][i].type = type

Abstract ==
  INSTANCE Accounts WITH
    Account <- Worker,
    balance <- [a \in Worker |-> Closing(ledger[a]).balance],
    moved <- next - 1 + (IF \E p \in Worker : UnderWay(p, PARENT_ID, "ACK") THEN 1 ELSE 0),
    under_way <- \E p, q \in Worker : UnderWay(p, q, "TRANSFER")

ImplementsAccounts == Abstract!AccSpec
=============================================================================
