----------------------------- MODULE FramePipe ------------------------------
(***************************************************************************)
(* What ipc.c promises the protocols above it, without bytes: the frames of *)
(* each peer arrive whole, in the order they were sent and each once, and   *)
(* the reader gives up only on a peer that has left and whose frames it has *)
(* all received.  Pa2Bank, Pa3Bank and Pa4Mutex are written on top of it.   *)
(***************************************************************************)
EXTENDS Sequences

CONSTANTS
  Peer,    \* the processes that write to the reader
  Frame    \* what they may send

VARIABLES
  queue,      \* queue[q]: the frames of q that are written and not received
  writers,    \* the peers that still may write
  listening,  \* whether the reader still does
  received    \* the last frame and its sender

pipeVars == <<queue, writers, listening, received>>

PipeInit ==
  /\ queue = [q \in Peer |-> <<>>]
  /\ writers = Peer
  /\ listening = TRUE
  /\ received = <<>>

SendFrame(q, f) ==
  /\ q \in writers
  /\ queue' = [queue EXCEPT ![q] = Append(@, f)]
  /\ UNCHANGED <<writers, listening, received>>

ReceiveFrame(q) ==
  /\ listening /\ queue[q] # <<>>
  /\ received' = <<q, Head(queue[q])>>
  /\ queue' = [queue EXCEPT ![q] = Tail(@)]
  /\ UNCHANGED <<writers, listening>>

LeavePipe(q) ==
  /\ q \in writers
  /\ writers' = writers \ {q}
  /\ UNCHANGED <<queue, listening, received>>

GiveUp ==
  /\ listening
  /\ \E q \in Peer \ writers : queue[q] = <<>>
  /\ listening' = FALSE
  /\ UNCHANGED <<queue, writers, received>>

PipeNext ==
  \/ \E q \in Peer :
       \/ \E f \in Frame : SendFrame(q, f)
       \/ ReceiveFrame(q) \/ LeavePipe(q)
  \/ GiveUp

PipeSpec == PipeInit /\ [][PipeNext]_pipeVars
=============================================================================
