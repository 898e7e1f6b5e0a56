----------------------------- MODULE Pa1Barrier -----------------------------
(***************************************************************************)
(* Lab 1 (main.c): every worker tells everyone that it has STARTED, waits    *)
(* for the others, tells everyone that it is DONE, waits again and exits;    *)
(* the parent listens.  Pipes block: a write waits for space, a read for a   *)
(* message or for the last writer to close.                                  *)
(*                                                                         *)
(* A message that is cut off by the death of its writer fails the reader    *)
(* exactly as the end of file does, so a pipe carries whole messages, and    *)
(* only their types.                                                         *)
(***************************************************************************)
EXTENDS Integers, Sequences

CONSTANTS
  Children,      \* the number of workers, -p
  Capacity,      \* the messages a pipe holds before write() blocks
  ForkMayFail,   \* whether fork() may be refused
  Mortal         \* the processes the environment may kill at any moment

PARENT_ID == 0
Worker == 1..Children
Node == 0..Children

ASSUME Pa1Assumption ==
  /\ Children \in Nat \ {0} /\ Capacity \in Nat \ {0}
  /\ ForkMayFail \in BOOLEAN /\ Mortal \subseteq Node

VARIABLES
  pc,         \* where main, child_work and parent_work stand
  phase,      \* phase[p]: the type p sends and waits for
  to,         \* to[p]: the processes send_multicast has still to reach
  received,   \* received[p]: the workers whose message of this phase p has
  source,     \* source[p]: the worker p has read last
  channel     \* channel[p][q]: the messages in the pipe from p to q

vars == <<pc, phase, to, received, source, channel>>

MessageType == {"STARTED", "DONE"}

(* boot: before close_unused_descriptors.  barrier: in child_work or         *)
(* parent_work.  The parent waits for its children with a status that is     *)
(* still 0 (reaping) or already 1 (giving_up).  A process ends with 0, with   *)
(* 1, by writing to a pipe nobody reads, or by a signal from outside.         *)
Over == {"exited", "failed", "sigpipe", "killed"}
State == {"unborn", "boot", "barrier", "reaping", "giving_up"} \cup Over

(* Before close_unused_descriptors a process holds the ends of all the others. *)
Inherited == \E r \in Node : pc[r] = "boot"

(* Mutant: nobody closes the ends it does not use. *)
Gone_OthersKeepEnds(p) == \A r \in Node : pc[r] \in Over \cup {"unborn"}

(* A pipe of p has no other end: its own is open until the process ends. *)
Gone(p) == pc[p] \in Over \cup {"unborn"} /\ ~Inherited

Goto(p, state) == pc' = [pc EXCEPT ![p] = state]

Init ==
  /\ pc = [p \in Node |-> IF p = PARENT_ID THEN "boot" ELSE "unborn"]
  /\ phase = [p \in Node |-> "STARTED"]
  /\ to = [p \in Node |-> {}]
  /\ received = [p \in Node |-> {}]
  /\ source = [p \in Node |-> 0]
  /\ channel = [p \in Node |-> [q \in Node |-> <<>>]]

data == <<phase, to, received, source, channel>>

-----------------------------------------------------------------------------
(* main: the fork loop. *)

NextToFork(p) ==
  /\ pc[PARENT_ID] = "boot" /\ pc[p] = "unborn"
  /\ \A q \in Worker : q < p => pc[q] # "unborn"

Fork(p) == NextToFork(p) /\ Goto(p, "boot") /\ UNCHANGED data

(* The loop is left and the parent goes on to wait for those it has. *)
ForkFails(p) ==
  /\ NextToFork(p) /\ ForkMayFail
  /\ Goto(PARENT_ID, "giving_up")
  /\ UNCHANGED data

AllForked ==
  /\ pc[PARENT_ID] = "boot"
  /\ \A p \in Worker : pc[p] # "unborn"
  /\ Goto(PARENT_ID, "barrier")
  /\ UNCHANGED data

(* Mutant: send_multicast does not skip the process itself. *)
StartChild_ToItself(p) ==
  /\ p \in Worker /\ pc[p] = "boot"
  /\ Goto(p, "barrier")
  /\ to' = [to EXCEPT ![p] = Node]
  /\ UNCHANGED <<phase, received, source, channel>>

(* close_unused_descriptors in a child; child_work then starts to send. *)
StartChild(p) ==
  /\ p \in Worker /\ pc[p] = "boot"
  /\ Goto(p, "barrier")
  /\ to' = [to EXCEPT ![p] = Node \ {p}]
  /\ UNCHANGED <<phase, received, source, channel>>

-----------------------------------------------------------------------------
(* send_multicast and send. *)

NextTarget(p, q) ==
  /\ pc[p] = "barrier" /\ q \in to[p]
  /\ \A r \in to[p] : q <= r

Send(p, q) ==
  /\ NextTarget(p, q) /\ ~Gone(q)
  /\ Len(channel[p][q]) < Capacity
  /\ channel' = [channel EXCEPT ![p][q] = Append(@, phase[p])]
  /\ to' = [to EXCEPT ![p] = @ \ {q}]
  /\ UNCHANGED <<pc, phase, received, source>>

(* Lab 1 does not ignore SIGPIPE. *)
BrokenPipe(p, q) ==
  /\ NextTarget(p, q) /\ Gone(q)
  /\ Goto(p, "sigpipe")
  /\ UNCHANGED data

-----------------------------------------------------------------------------
(* receive, wait_for_type and the loops of parent_work. *)

(* Mutant: a worker already heard is read again. *)
Missing_HeardAgain(p) == IF Worker \subseteq received[p] \cup {p} THEN {} ELSE Worker \ {p}

(* The workers p has to hear from in this phase, itself excepted. *)
Missing(p) == Worker \ (received[p] \cup {p})

(* The loop goes on behind the worker it has read last, and starts again. *)
NextSource(p, q) ==
  LET behind == {r \in Missing(p) : r > source[p]}
      ahead == IF behind # {} THEN behind ELSE Missing(p) IN
    q \in ahead /\ \A r \in ahead : q <= r

Waiting(p, q) == pc[p] = "barrier" /\ to[p] = {} /\ NextSource(p, q)

(* A message of the other type is read and dropped by a worker. *)
Receive(p, q) ==
  /\ Waiting(p, q) /\ channel[q][p] # <<>>
  /\ p = PARENT_ID => Head(channel[q][p]) = phase[p]
  /\ received' = [received EXCEPT ![p] =
                    IF Head(channel[q][p]) = phase[p] THEN @ \cup {q} ELSE @]
  /\ channel' = [channel EXCEPT ![q][p] = Tail(@)]
  /\ source' = [source EXCEPT ![p] = q]
  /\ UNCHANGED <<pc, phase, to>>

Fail(p) ==
  /\ Goto(p, IF p = PARENT_ID THEN "giving_up" ELSE "failed")
  /\ UNCHANGED data

(* The last writer is gone, or parent_work, which accepts nothing else, finds *)
(* a message of the other type.                                               *)
ReceiveFails(p, q) ==
  /\ Waiting(p, q)
  /\ IF channel[q][p] = <<>> THEN Gone(q)
     ELSE p = PARENT_ID /\ Head(channel[q][p]) # phase[p]
  /\ Fail(p)

Heard(p, type) == pc[p] = "barrier" /\ to[p] = {} /\ Missing(p) = {} /\ phase[p] = type

(* Mutant: the other workers' STARTED is not waited for. *)
PassStarted_NoWait(p) ==
  /\ pc[p] = "barrier" /\ to[p] = {} /\ phase[p] = "STARTED"
  /\ phase' = [phase EXCEPT ![p] = "DONE"]
  /\ to' = [to EXCEPT ![p] = IF p = PARENT_ID THEN {} ELSE Node \ {p}]
  /\ received' = [received EXCEPT ![p] = {}]
  /\ source' = [source EXCEPT ![p] = 0]
  /\ UNCHANGED <<pc, channel>>

PassStarted(p) ==
  /\ Heard(p, "STARTED")
  /\ phase' = [phase EXCEPT ![p] = "DONE"]
  /\ to' = [to EXCEPT ![p] = IF p = PARENT_ID THEN {} ELSE Node \ {p}]
  /\ received' = [received EXCEPT ![p] = {}]
  /\ source' = [source EXCEPT ![p] = 0]
  /\ UNCHANGED <<pc, channel>>

(* Mutant: a worker exits once it has sent its DONE. *)
PassDone_NoWait(p) ==
  /\ pc[p] = "barrier" /\ to[p] = {} /\ phase[p] = "DONE"
  /\ p = PARENT_ID => Missing(p) = {}
  /\ Goto(p, IF p = PARENT_ID THEN "reaping" ELSE "exited")
  /\ UNCHANGED data

(* A worker closes its pipes and exits, the parent begins to wait. *)
PassDone(p) ==
  /\ Heard(p, "DONE")
  /\ Goto(p, IF p = PARENT_ID THEN "reaping" ELSE "exited")
  /\ UNCHANGED data

-----------------------------------------------------------------------------
(* main: wait, once per child, also for one that was never forked. *)

(* Mutant: a wait that looks at nothing but the exit of parent_work. *)
Reap_IgnoreStatus ==
  /\ pc[PARENT_ID] \in {"reaping", "giving_up"}
  /\ \A p \in Worker : pc[p] \in Over \cup {"unborn"}
  /\ Goto(PARENT_ID, IF pc[PARENT_ID] = "reaping" THEN "exited" ELSE "failed")
  /\ UNCHANGED data

Reap ==
  /\ pc[PARENT_ID] \in {"reaping", "giving_up"}
  /\ \A p \in Worker : pc[p] \in Over \cup {"unborn"}
  /\ Goto(PARENT_ID, IF /\ pc[PARENT_ID] = "reaping"
                        /\ \A p \in Worker : pc[p] = "exited"
                     THEN "exited" ELSE "failed")
  /\ UNCHANGED data

(* A signal from outside. *)
Kill(p) ==
  /\ p \in Mortal /\ pc[p] \notin Over \cup {"unborn"}
  /\ Goto(p, "killed")
  /\ UNCHANGED data

Terminated == \A p \in Node : pc[p] \in Over \cup {"unborn"}

NodeNext(p) ==
  \/ StartChild(p) \/ PassStarted(p) \/ PassDone(p)
  \/ \E q \in Node \ {p} :
       Send(p, q) \/ BrokenPipe(p, q) \/ Receive(p, q) \/ ReceiveFails(p, q)

ParentNext == AllForked \/ Reap \/ \E p \in Worker : Fork(p) \/ ForkFails(p)

Next ==
  \/ \E p \in Node : NodeNext(p)
  \/ ParentNext
  \/ \E p \in Node : Kill(p)
  \/ Terminated /\ UNCHANGED vars

Spec == Init /\ [][Next]_vars

(* The operating system runs every process that is not blocked. *)
Fairness ==
  /\ \A p \in Worker : WF_vars(NodeNext(p))
  /\ WF_vars(NodeNext(PARENT_ID) \/ ParentNext)

FairSpec == Spec /\ Fairness

-----------------------------------------------------------------------------
(* Properties. *)

(* The types of the variables; nobody sends to itself, where send fails. *)
TypeOK ==
  /\ pc \in [Node -> State]
  /\ phase \in [Node -> MessageType]
  /\ to \in [Node -> SUBSET Node] /\ \A p \in Node : p \notin to[p]
  /\ received \in [Node -> SUBSET Worker]
  /\ source \in [Node -> Node]
  /\ channel \in [Node -> [Node -> Seq(MessageType)]]

(* Nobody is DONE before everyone has STARTED, and nobody ends with success  *)
(* before everyone is DONE, whoever dies meanwhile.                          *)
BarriersHold ==
  /\ (\E p \in Node : phase[p] = "DONE") =>
       \A q \in Worker : pc[q] \notin {"unborn", "boot"}
  /\ (\E p \in Node : pc[p] \in {"exited", "reaping"}) =>
       \A q \in Worker : phase[q] = "DONE"

(* wait_for_type drops a message of another type without a word; there never *)
(* is one at the head of a pipe it still reads, so no barrier misses one.     *)
NothingDropped ==
  \A p \in Node : \A q \in Missing(p) :
    channel[q][p] # <<>> => Head(channel[q][p]) = phase[p]

(* Nobody fails, or writes to a process that has closed its pipes, unless    *)
(* someone was killed from outside or a fork was refused.                    *)
FailureHasCause ==
  (\E p \in Node : pc[p] \in {"failed", "giving_up", "sigpipe"}) =>
    \/ \E p \in Node : pc[p] = "killed"
    \/ pc[PARENT_ID] # "boot" /\ \E p \in Worker : pc[p] = "unborn"

(* The parent's exit status is true, and unless it is killed it ends last. *)
ParentReports ==
  /\ pc[PARENT_ID] \in {"exited", "failed"} =>
       \A p \in Worker : pc[p] \in Over \cup {"unborn"}
  /\ pc[PARENT_ID] = "exited" => \A p \in Worker : pc[p] = "exited"

(* Whoever is killed and whichever fork is refused, the death spreads through *)
(* the pipes and every process ends: no read or write blocks for ever        *)
(* (close_unused_descriptors, close_remaining_descriptors).                   *)
EveryoneEnds == <>Terminated
=============================================================================
