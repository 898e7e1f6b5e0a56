------------------------------ MODULE Pa4Mutex ------------------------------
(***************************************************************************)
(* Lab 4: workers that print inside a critical section guarded by          *)
(* Lamport's mutual exclusion, and a parent that watches them start and    *)
(* finish (mutex.c, protocol.c, clock.c, the frame level of ipc.c).        *)
(*                                                                         *)
(* channel[p][q] is the pipe from p to q at the granularity of frames, and *)
(* every write_frame of a multicast is a step of its own: outbox[p] holds  *)
(* the type of the frame p is writing and the nodes still to be written,   *)
(* in increasing order as the loops of send_multicast and send_children    *)
(* go.  The frame's stamp is clock[p], which no step of p moves before the *)
(* last write.  Everything else a node does between two writes or reads is *)
(* local to it and is one step.                                            *)
(*                                                                         *)
(* receive_any's cursor is abstracted: a scan may find any peer that has a *)
(* frame, since frames arrive while it is under way.                       *)
(***************************************************************************)
EXTENDS Processes, LamportClock, Sequences

CONSTANTS
  Iterations,    \* Iterations[p]: the passes of p's work loop (5 * p in child_run)
  MutexEnabled,  \* --mutexl
  Capacity       \* the frames a pipe holds before write() answers EAGAIN

ASSUME Pa4Assumption ==
  /\ Iterations \in [Worker -> Nat]
  /\ MutexEnabled \in BOOLEAN
  /\ Capacity \in Nat \ {0}

CsType == {"CS_REQUEST", "CS_REPLY", "CS_RELEASE"}
MessageType == CsType \cup {"STARTED", "DONE"}
Frame == [type : MessageType, time : Timestamp]

VARIABLES
  clock,         \* logical_time
  channel,       \* channel[p][q]: the frames in the pipe from p to q
  outbox,        \* the frame being written and its remaining targets
  started,       \* started[p]: the peers whose STARTED p has received
  done,          \* done[p]: the peers whose DONE p has received
  queued,        \* queued[p]: the nodes with a request in p's table
  replied,       \* replied[p]: the peers that answered p's request
  requested_at,  \* requested_at[p][q]: the stamp of q's request in p's table
  iteration      \* the iteration a worker is in, or the last it finished

vars == <<pc, clock, channel, outbox, started, done, queued, replied,
          requested_at, iteration>>
cs == <<queued, replied, requested_at>>
barriers == <<started, done>>

(* Between its birth and its end a worker waits at the first barrier         *)
(* (starting), works, asks for the critical section (waiting), prints in it  *)
(* (inside), announces DONE and waits at the second barrier (finishing).     *)
(* The parent waits at both barriers.                                        *)
State == {"starting", "work", "waiting", "inside", "finishing"} \cup Lifecycle

Idle == [type |-> "none", to |-> {}]
Writing(p) == outbox[p].to # {}
Requesting(p) == pc[p] \in {"waiting", "inside"}
Peers(p) == Worker \ {p}

Init ==
  /\ pc = NothingForked
  /\ clock = [p \in Node |-> 0]
  /\ channel = [p \in Node |-> [q \in Node |-> <<>>]]
  /\ outbox = [p \in Node |-> Idle]
  /\ started = [p \in Node |-> {}]
  /\ done = [p \in Node |-> {}]
  /\ queued = [p \in Node |-> {}]
  /\ replied = [p \in Node |-> {}]
  /\ requested_at = [p \in Node |-> [q \in Node |-> 0]]
  /\ iteration = [p \in Node |-> 0]

-----------------------------------------------------------------------------
(* The loops that call dispatch, and what ends them. *)

(* Mutant: the loop over the peers stops before the last child. *)
AllReceived_ButLast(p, received) == Peers(p) \ {Children} \subseteq received[p]

AllReceived(p, received) == Peers(p) \subseteq received[p]

(* Mutants: equal stamps taken for no order at all, or for both orders. *)
Earlier_NoTieBreak(s, p, t, q) == s < t
Earlier_OrEqual(s, p, t, q) == s <= t

(* The stamp and the id order requests lexicographically. *)
Earlier(s, p, t, q) == s < t \/ (s = t /\ p < q)

(* Mutant: an entry that does not wait for the replies. *)
FirstAndConfirmed_NoReplies(p) ==
  \A q \in Peers(p) :
    q \in queued[p] => ~Earlier(requested_at[p][q], q, requested_at[p][p], p)

FirstAndConfirmed(p) ==
  \A q \in Peers(p) :
    /\ q \in replied[p]
    /\ q \in queued[p] =>
         ~Earlier(requested_at[p][q], q, requested_at[p][p], p)

Dispatching(p) ==
  /\ ~Writing(p)
  /\ \/ pc[p] = "starting" /\ ~AllReceived(p, started)
     \/ pc[p] = "finishing" /\ ~AllReceived(p, done)
     \/ pc[p] = "waiting" /\ ~FirstAndConfirmed(p)

Fatal(p) ==
  /\ Fail(p)
  /\ UNCHANGED <<clock, channel, outbox, started, done, cs, iteration>>

ToWrite(type, targets) ==
  IF targets = {} THEN Idle ELSE [type |-> type, to |-> targets]

(* One tick for the whole multicast, then one write per target. *)
Multicast(p, type, targets) ==
  /\ CanSend(clock[p])
  /\ clock' = [clock EXCEPT ![p] = ClockSend(@)]
  /\ outbox' = [outbox EXCEPT ![p] = ToWrite(type, targets)]

-----------------------------------------------------------------------------
(* child_run, parent_run, request_cs and release_cs. *)

AnnounceStarted(p) ==
  /\ p \in Worker /\ pc[p] = "boot"
  /\ Multicast(p, "STARTED", Node \ {p})
  /\ Goto(p, "starting")
  /\ UNCHANGED <<channel, barriers, cs, iteration>>

(* The first barrier falls; a parent goes on to wait for the second. *)
PassStarted(p) ==
  /\ pc[p] = "starting" /\ ~Writing(p)
  /\ AllReceived(p, started)
  /\ Goto(p, IF p = PARENT_ID THEN "finishing" ELSE "work")
  /\ UNCHANGED <<clock, channel, outbox, barriers, cs, iteration>>

AtWork(p) == pc[p] = "work" /\ ~Writing(p)

(* Mutant: a claim that carries the clock from before the send. *)
RequestCs_StampBeforeSend(p) ==
  /\ AtWork(p) /\ MutexEnabled /\ iteration[p] < Iterations[p]
  /\ Multicast(p, "CS_REQUEST", Peers(p))
  /\ Goto(p, "waiting")
  /\ iteration' = [iteration EXCEPT ![p] = @ + 1]
  /\ replied' = [replied EXCEPT ![p] = {}]
  /\ queued' = [queued EXCEPT ![p] = @ \cup {p}]
  /\ requested_at' = [requested_at EXCEPT ![p][p] = clock[p]]
  /\ UNCHANGED <<channel, barriers>>

(* Mutant: request_cs called without a look at --mutexl. *)
RequestCs_Always(p) ==
  /\ AtWork(p) /\ iteration[p] < Iterations[p]
  /\ Multicast(p, "CS_REQUEST", Peers(p))
  /\ Goto(p, "waiting")
  /\ UNCHANGED <<channel, barriers, cs, iteration>>

(* requested_at is assigned after the last write in the code; nothing reads *)
(* it or ticks the clock in between.                                        *)
RequestCs(p) ==
  /\ AtWork(p) /\ MutexEnabled /\ iteration[p] < Iterations[p]
  /\ Multicast(p, "CS_REQUEST", Peers(p))
  /\ Goto(p, "waiting")
  /\ iteration' = [iteration EXCEPT ![p] = @ + 1]
  /\ replied' = [replied EXCEPT ![p] = {}]
  /\ queued' = [queued EXCEPT ![p] = @ \cup {p}]
  /\ requested_at' = [requested_at EXCEPT ![p][p] = ClockSend(clock[p])]
  /\ UNCHANGED <<channel, barriers>>

EnterCs(p) ==
  /\ pc[p] = "waiting" /\ ~Writing(p)
  /\ FirstAndConfirmed(p)
  /\ Goto(p, "inside")
  /\ UNCHANGED <<clock, channel, outbox, barriers, cs, iteration>>

(* Mutant: a release that nobody hears of. *)
ReleaseCs_Silent(p) ==
  /\ pc[p] = "inside"
  /\ Goto(p, "work")
  /\ queued' = [queued EXCEPT ![p] = @ \ {p}]
  /\ UNCHANGED <<clock, channel, outbox, barriers, replied, requested_at, iteration>>

ReleaseCs(p) ==
  /\ pc[p] = "inside"
  /\ Multicast(p, "CS_RELEASE", Peers(p))
  /\ Goto(p, "work")
  /\ queued' = [queued EXCEPT ![p] = @ \ {p}]
  /\ UNCHANGED <<channel, barriers, replied, requested_at, iteration>>

(* Without --mutexl an iteration is print() alone. *)
PrintOnly(p) ==
  /\ AtWork(p) /\ ~MutexEnabled /\ iteration[p] < Iterations[p]
  /\ iteration' = [iteration EXCEPT ![p] = @ + 1]
  /\ UNCHANGED <<pc, clock, channel, outbox, barriers, cs>>

AnnounceDone(p) ==
  /\ AtWork(p) /\ iteration[p] = Iterations[p]
  /\ Multicast(p, "DONE", Node \ {p})
  /\ Goto(p, "finishing")
  /\ UNCHANGED <<channel, barriers, cs, iteration>>

(* A child closes its pipes and exits, the parent goes on to waitpid. *)
PassDone(p) ==
  /\ pc[p] = "finishing" /\ ~Writing(p)
  /\ AllReceived(p, done)
  /\ Goto(p, IF p = PARENT_ID THEN "reaping" ELSE "exited")
  /\ UNCHANGED <<clock, channel, outbox, barriers, cs, iteration>>

(* clock_send is fatal wherever the node is about to multicast. *)
SendOverflow(p) ==
  /\ \/ p \in Worker /\ pc[p] \in {"boot", "inside"}
     \/ AtWork(p) /\ (MutexEnabled \/ iteration[p] = Iterations[p])
  /\ ~CanSend(clock[p])
  /\ Fatal(p)

-----------------------------------------------------------------------------
(* write_frame: append to the pipe, spin while it is full, fail on EPIPE. *)

NextTarget(p, q) ==
  /\ ~Closed(p)
  /\ q \in outbox[p].to
  /\ \A r \in outbox[p].to : q <= r

WriteFrame(p, q) ==
  /\ NextTarget(p, q) /\ ~Gone(q)
  /\ Len(channel[p][q]) < Capacity
  /\ channel' = [channel EXCEPT ![p][q] =
                   Append(@, [type |-> outbox[p].type, time |-> clock[p]])]
  /\ outbox' = [outbox EXCEPT ![p] = ToWrite(@.type, @.to \ {q})]
  /\ UNCHANGED <<pc, clock, barriers, cs, iteration>>

BrokenPipe(p, q) ==
  /\ NextTarget(p, q) /\ Gone(q)
  /\ Fatal(p)

-----------------------------------------------------------------------------
(* dispatch: one complete frame of one peer. *)

(* What receive and dispatch require of a frame before they act on it. *)
Accepts(p, q, m) ==
  /\ CanReceive(clock[p], m.time)
  /\ m.type \in CsType => MutexEnabled /\ p # PARENT_ID /\ q # PARENT_ID
  /\ m.type = "DONE" => q \notin queued[p]
  /\ m.type = "CS_REQUEST" =>
       /\ q \notin queued[p] \cup done[p]
       /\ CanSend(ClockReceive(clock[p], m.time))
  /\ m.type = "CS_REPLY" => Requesting(p)
  /\ m.type = "CS_RELEASE" => q \in queued[p]

(* The frame of the given type at the head of q's pipe to p is taken. *)
Takes(p, q, type) ==
  /\ Dispatching(p)
  /\ channel[q][p] # <<>>
  /\ Head(channel[q][p]).type = type
  /\ Accepts(p, q, Head(channel[q][p]))
  /\ channel' = [channel EXCEPT ![q][p] = Tail(@)]

Ticks(p, remote) == clock' = [clock EXCEPT ![p] = ClockReceive(@, remote)]

ReceiveStarted(p, q) ==
  /\ Takes(p, q, "STARTED")
  /\ Ticks(p, Head(channel[q][p]).time)
  /\ started' = [started EXCEPT ![p] = @ \cup {q}]
  /\ UNCHANGED <<pc, outbox, done, cs, iteration>>

ReceiveDone(p, q) ==
  /\ Takes(p, q, "DONE")
  /\ Ticks(p, Head(channel[q][p]).time)
  /\ done' = [done EXCEPT ![p] = @ \cup {q}]
  /\ UNCHANGED <<pc, outbox, started, cs, iteration>>

(* Mutant: the stamp of the request is not kept. *)
ReceiveRequest_NoStamp(p, q) ==
  /\ Takes(p, q, "CS_REQUEST")
  /\ queued' = [queued EXCEPT ![p] = @ \cup {q}]
  /\ clock' = [clock EXCEPT ![p] =
                 ClockSend(ClockReceive(@, Head(channel[q][p]).time))]
  /\ outbox' = [outbox EXCEPT ![p] = ToWrite("CS_REPLY", {q})]
  /\ UNCHANGED <<pc, barriers, replied, requested_at, iteration>>

(* The request enters the table and is answered at once, never deferred. *)
ReceiveRequest(p, q) ==
  /\ Takes(p, q, "CS_REQUEST")
  /\ LET sent == Head(channel[q][p]).time IN
       /\ queued' = [queued EXCEPT ![p] = @ \cup {q}]
       /\ requested_at' = [requested_at EXCEPT ![p][q] = sent]
       /\ clock' = [clock EXCEPT ![p] = ClockSend(ClockReceive(@, sent))]
  /\ outbox' = [outbox EXCEPT ![p] = ToWrite("CS_REPLY", {q})]
  /\ UNCHANGED <<pc, barriers, replied, iteration>>

ReceiveReply(p, q) ==
  /\ Takes(p, q, "CS_REPLY")
  /\ Ticks(p, Head(channel[q][p]).time)
  /\ replied' = [replied EXCEPT ![p] = @ \cup {q}]
  /\ UNCHANGED <<pc, outbox, barriers, queued, requested_at, iteration>>

(* Mutant: a release that leaves the request in the table. *)
ReceiveRelease_Keeps(p, q) ==
  /\ Takes(p, q, "CS_RELEASE")
  /\ Ticks(p, Head(channel[q][p]).time)
  /\ UNCHANGED <<pc, outbox, barriers, cs, iteration>>

ReceiveRelease(p, q) ==
  /\ Takes(p, q, "CS_RELEASE")
  /\ Ticks(p, Head(channel[q][p]).time)
  /\ queued' = [queued EXCEPT ![p] = @ \ {q}]
  /\ UNCHANGED <<pc, outbox, barriers, replied, requested_at, iteration>>

(* A frame the code refuses, from an overflowing clock to a request that *)
(* breaks the protocol, ends the process.                                *)
RejectFrame(p, q) ==
  /\ Dispatching(p)
  /\ channel[q][p] # <<>>
  /\ ~Accepts(p, q, Head(channel[q][p]))
  /\ Fatal(p)

Dispatch(p, q) ==
  \/ ReceiveStarted(p, q) \/ ReceiveDone(p, q)
  \/ ReceiveRequest(p, q) \/ ReceiveReply(p, q) \/ ReceiveRelease(p, q)
  \/ RejectFrame(p, q)

(* await_any gives up when every peer has closed and nothing is left to read. *)
PeersClosed(p) ==
  /\ Dispatching(p)
  /\ \A q \in Node \ {p} : Gone(q) /\ channel[q][p] = <<>>
  /\ Fatal(p)

-----------------------------------------------------------------------------
NodeNext(p) ==
  \/ AnnounceStarted(p) \/ PassStarted(p)
  \/ RequestCs(p) \/ PrintOnly(p) \/ AnnounceDone(p)
  \/ EnterCs(p) \/ ReleaseCs(p)
  \/ PassDone(p)
  \/ SendOverflow(p)
  \/ \E q \in Node \ {p} : WriteFrame(p, q) \/ BrokenPipe(p, q) \/ Dispatch(p, q)
  \/ PeersClosed(p)

Supervision ==
  Supervise /\ UNCHANGED <<clock, channel, outbox, barriers, cs, iteration>>

Signals ==
  /\ \E p \in Node : Kill(p)
  /\ UNCHANGED <<clock, channel, outbox, barriers, cs, iteration>>

Next ==
  \/ \E p \in Node : NodeNext(p)
  \/ Supervision
  \/ Signals
  \/ Terminated /\ UNCHANGED vars

Spec == Init /\ [][Next]_vars

(* A live process keeps running, and sched_yield and the round-robin cursor *)
(* leave no process out for ever.                                           *)
Fairness == (\A p \in Node : WF_vars(NodeNext(p))) /\ WF_vars(Supervision)

FairSpec == Spec /\ Fairness
-----------------------------------------------------------------------------
(* Properties. *)

(* The types of the variables; the parent has no work of its own. *)
TypeOK ==
  /\ pc \in [Node -> State]
  /\ pc[PARENT_ID] \notin {"unborn", "work", "waiting", "inside"}
  /\ clock \in [Node -> Timestamp]
  /\ channel \in [Node -> [Node -> Seq(Frame)]]
  /\ outbox \in [Node -> {Idle} \cup [type : MessageType, to : SUBSET Node]]
  /\ started \in [Node -> SUBSET Node]
  /\ done \in [Node -> SUBSET Node]
  /\ queued \in [Node -> SUBSET Worker]
  /\ replied \in [Node -> SUBSET Worker]
  /\ requested_at \in [Node -> [Node -> Timestamp]]
  /\ iteration \in [Node -> Nat]

(* A node counts as claiming the critical section from request_cs until its *)
(* own release_cs, even when it dies in between.                            *)
Claims(p) == p \in queued[p]
Own(p) == requested_at[p][p]

(* print() runs in one process at a time (mutex.c, README: no overlap of ENTER and EXIT). *)
MutualExclusion ==
  \A p, q \in Worker : pc[p] = "inside" /\ pc[q] = "inside" => p = q

(* Whoever is inside has the earliest claim of all, in the lexicographic    *)
(* order of the queue: also of the claims whose frames are still under way  *)
(* and of the workers that died with theirs (first_and_confirmed).          *)
GrantsInOrder ==
  \A p, q \in Worker :
    pc[p] = "inside" /\ q # p /\ Claims(q) => Earlier(Own(p), p, Own(q), q)

(* While nobody is killed, every fork succeeds and the clock stays below    *)
(* its maximum, nobody fails: no frame is refused (duplicate or late        *)
(* request, unexpected reply, release without request, DONE with a request  *)
(* in the table), no pipe is written after its reader closed it, and no     *)
(* peer is missed.                                                          *)
NoFailure == \A p \in Node : pc[p] \notin {"stopping", "aborting", "failed", "killed"}

(* The barriers separate the phases: nobody works before every worker has   *)
(* announced itself, and nobody leaves before every worker has done all its *)
(* iterations and withdrawn its claim.                                      *)
BarriersHold ==
  \A p \in Node, q \in Worker :
    /\ pc[p] \in {"work", "waiting", "inside", "finishing", "reaping", "exited"}
         => pc[q] \notin {"unborn", "boot"}
    /\ pc[p] \in {"reaping", "exited"} => iteration[q] = Iterations[q] /\ ~Claims(q)

(* A node that is through the second barrier leaves nothing unread, and     *)
(* nobody is about to write to it: closing the pipes loses no frame.        *)
NothingUnread ==
  \A p, q \in Node :
    pc[p] \in {"reaping", "exited"} => channel[q][p] = <<>> /\ p \notin outbox[q].to

(* One request per process bounds the frames in a pipe (README: small       *)
(* messages and one request per process bound how full the channels get), so *)
(* write_frame never spins on a full pipe while its own input piles up.      *)
MostFrames == 3
ChannelsStayShort == \A p, q \in Node : Len(channel[p][q]) <= MostFrames

(* The parent's exit status is true: success means that every worker did    *)
(* all its work and exited with success, and unless it is killed the parent *)
(* never ends before its children have.                                     *)
ParentReports ==
  /\ pc[PARENT_ID] \in {"exited", "failed"} =>
       \A p \in Worker : pc[p] \in Over \cup {"unborn"}
  /\ pc[PARENT_ID] = "exited" =>
       \A p \in Worker : pc[p] = "exited" /\ iteration[p] = Iterations[p]

(* Without --mutexl no CS message is sent and no request is ever recorded   *)
(* (README: all counters of the statistics are then zero).                  *)
SilentWithoutMutex ==
  ~MutexEnabled =>
    \A p \in Node :
      /\ outbox[p].type \notin CsType /\ queued[p] = {}
      /\ \A q \in Node : \A i \in DOMAIN channel[p][q] :
           channel[p][q][i].type \notin CsType

(* Every worker gets its turn each time, both barriers fall, and everybody  *)
(* exits with success: also a worker that is done keeps answering, or a     *)
(* longer-lived one would be stranded (protocol.c, README).                 *)
EveryoneExits == <>(\A p \in Node : pc[p] = "exited")

(* The mutex implements the critical section, whoever dies.                 *)
Abstract ==
  INSTANCE CriticalSection WITH
    Number <- Timestamp,
    claim <- [p \in Worker |-> IF Claims(p) THEN Own(p) ELSE -1],
    inside <- {p \in Worker : pc[p] = "inside"}

ImplementsCriticalSection == Abstract!CsSpec

-----------------------------------------------------------------------------
(* The inductive invariant behind GrantsInOrder: where the request of p     *)
(* stands with q, and where q's reply does.  Nothing in it depends on p or q *)
(* being alive.                                                             *)

Sending(p, q, type) == q \in outbox[p].to /\ outbox[p].type = type
InPipe(p, q, type) == \E i \in DOMAIN channel[p][q] : channel[p][q][i].type = type
UnderWay(p, q, type) == Sending(p, q, type) \/ InPipe(p, q, type)

(* q has p's present claim in its table, and nothing coming removes it. *)
Held(p, q) ==
  /\ p \in queued[q] /\ requested_at[q][p] = Own(p)
  /\ Own(p) < clock[q]
  /\ ~InPipe(p, q, "CS_RELEASE")

(* What a claim says of the worker that has it. *)
ClaimOk(p) ==
  /\ Requesting(p) => Claims(p)
  /\ Claims(p) => pc[p] \in {"waiting", "inside", "failed", "killed"}
  /\ Claims(p) /\ Writing(p) => outbox[p].type \in {"CS_REQUEST", "CS_REPLY"}
  /\ pc[p] \in {"unborn", "boot", "inside"} => ~Writing(p)
  /\ Writing(p) /\ outbox[p].type = "CS_REQUEST" => Claims(p) /\ Own(p) = clock[p]
  /\ pc[p] = "inside" => FirstAndConfirmed(p)

(* A claim is with q or still under way to it, once, and then unanswered. *)
RequestOk(p, q) ==
  /\ Claims(p) => UnderWay(p, q, "CS_REQUEST") \/ Held(p, q)
  /\ UnderWay(p, q, "CS_REQUEST") =>
       Claims(p) /\ ~UnderWay(q, p, "CS_REPLY") /\ q \notin replied[p]
  /\ \A i \in DOMAIN channel[p][q] : channel[p][q][i].type = "CS_REQUEST" =>
       /\ channel[p][q][i].time = Own(p)
       /\ ~Sending(p, q, "CS_REQUEST")
       /\ \A j \in DOMAIN channel[p][q] :
            i < j => channel[p][q][j].type \notin {"CS_REQUEST", "CS_RELEASE"}

(* q's reply means that q holds the claim, and whatever q sends after the *)
(* reply is stamped later than the claim.                                 *)
ReplyOk(p, q) ==
  /\ UnderWay(q, p, "CS_REPLY") => Claims(p) /\ q \notin replied[p] /\ Held(p, q)
  /\ \A i \in DOMAIN channel[q][p] : channel[q][p][i].type = "CS_REPLY" =>
       /\ ~Sending(q, p, "CS_REPLY")
       /\ \A j \in DOMAIN channel[q][p] :
            /\ i < j => channel[q][p][j].type # "CS_REPLY"
            /\ i <= j => Own(p) < channel[q][p][j].time
  /\ Claims(p) /\ q \in replied[p] =>
       /\ Held(p, q)
       /\ \A j \in DOMAIN channel[q][p] : Own(p) < channel[q][p][j].time

PairOk(p, q) == RequestOk(p, q) /\ ReplyOk(p, q)

(* The answers a claim has are true, and nothing stale is under way. *)
MutexInv ==
  /\ TypeOK
  /\ \A p \in Worker : ClaimOk(p)
  /\ \A p, q \in Worker : p # q => PairOk(p, q)
=============================================================================
