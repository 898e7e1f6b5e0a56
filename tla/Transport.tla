----------------------------- MODULE Transport ------------------------------
(***************************************************************************)
(* ipc.c below the frame, the same in lab 3 and lab 4: one worker that      *)
(* receives, and the peers that write to it, each through a pipe of its     *)
(* own.  Every write() and read() is a step.  The worker is one of lab 3;   *)
(* a worker of lab 4 is in await_any from the start.                        *)
(*                                                                         *)
(* A byte is the frame it belongs to and its place there.  That is how the  *)
(* decoder sees it: only HeaderSize bytes that are those of one frame make  *)
(* a header with the right magic number and length.                         *)
(***************************************************************************)
EXTENDS Integers, Sequences, FiniteSets

CONSTANTS
  Children,     \* the number of workers
  Reader,       \* the worker that receives
  Frame,        \* what a peer may send
  PayloadSize,  \* PayloadSize[f]: s_payload_len
  HeaderSize,   \* sizeof(MessageHeader)
  PipeSize,     \* the bytes a pipe holds
  PipeBuf       \* PIPE_BUF: a write of as many bytes is done whole or not at all

Slots == Children + 1
Peer == (0..Children) \ {Reader}

ASSUME TransportAssumption ==
  /\ Children \in Nat \ {0} /\ Reader \in 1..Children
  /\ PayloadSize \in [Frame -> Nat]
  /\ HeaderSize \in Nat \ {0}
  /\ PipeSize \in Nat \ {0} /\ PipeBuf \in 0..PipeSize

Size(f) == HeaderSize + PayloadSize[f]
Byte == [frame : Frame, place : Nat \ {0}]
BytesOf(f) == [i \in 1..Size(f) |-> [frame |-> f, place |-> i]]

VARIABLES
  writers,  \* the peers that have not ended
  rest,     \* rest[q]: what write_frame of q has still to write
  pipe,     \* pipe[q]: the bytes in the pipe from q
  decoder,  \* decoder[q]: what the reader has of q's next frame
  open,     \* the peers whose pipe the reader has not closed
  call,     \* "one" in await_message, "any" in await_any, "over" after fatal
  from,     \* the peer that receive is called for
  scanned,  \* the peers this receive_any has tried in vain
  received  \* the last frame delivered, and node->sender

vars == <<writers, rest, pipe, decoder, open, call, from, scanned, received>>
bytes == <<writers, rest, pipe>>
place == <<call, from, scanned>>

-----------------------------------------------------------------------------
(* Where the reader goes.  It waits for STARTED of every other worker in      *)
(* turn, then it is in await_any.  receive_any moves the cursor before each   *)
(* attempt, so that in await_any the cursor is always the slot after from.    *)

(* Mutant: every receive_any begins with the first slot. *)
AfterSuccess_FirstSlot(q) == 0

NextSlot(q) == LET c == (q + 1) % Slots IN IF c = Reader THEN (c + 1) % Slots ELSE c

AfterSuccess(q) == NextSlot(q)

Awaits(q) == IF q = Reader THEN q + 1 ELSE q

EnterCall(mode, q) == call' = mode /\ from' = q /\ scanned' = 0

NextCall(q) ==
  IF call = "any" THEN EnterCall("any", AfterSuccess(q))
  ELSE IF Awaits(q + 1) <= Children THEN EnterCall("one", Awaits(q + 1))
  ELSE EnterCall("any", 0)

Fails == call' = "over" /\ UNCHANGED <<from, scanned>>

(* receive has returned 1: await_message insists, await_any goes round, *)
(* and both give up when nobody is left to wait for.                    *)
NoFrame(q) ==
  IF call = "one" THEN IF q \in open' THEN UNCHANGED place ELSE Fails
  ELSE IF scanned + 1 < Cardinality(Peer)
    THEN call' = call /\ from' = NextSlot(q) /\ scanned' = scanned + 1
  ELSE IF open' # {} THEN EnterCall("any", NextSlot(q)) ELSE Fails

Init ==
  /\ writers = Peer
  /\ rest = [q \in Peer |-> <<>>]
  /\ pipe = [q \in Peer |-> <<>>]
  /\ decoder = [q \in Peer |-> <<>>]
  /\ open = Peer
  /\ scanned = 0
  /\ received = <<>>
  /\ IF Awaits(1) <= Children THEN call = "one" /\ from = Awaits(1)
     ELSE call = "any" /\ from = 0

-----------------------------------------------------------------------------
(* The peers: write_frame. *)

BeginFrame(q, f) ==
  /\ q \in writers /\ rest[q] = <<>> /\ call # "over"
  /\ rest' = [rest EXCEPT ![q] = BytesOf(f)]
  /\ UNCHANGED <<writers, pipe, decoder, open, place, received>>

(* EAGAIN unless what write() may take at least fits. *)
Writable(q, n) ==
  /\ n \in 1..Len(rest[q]) /\ n <= PipeSize - Len(pipe[q])
  /\ Len(rest[q]) <= PipeBuf => n = Len(rest[q])

(* Mutant: after a short write the frame is begun again. *)
WriteBytes_Again(q, n) ==
  /\ q \in writers /\ call # "over" /\ Writable(q, n)
  /\ pipe' = [pipe EXCEPT ![q] = @ \o SubSeq(rest[q], 1, n)]
  /\ rest' = [rest EXCEPT ![q] = IF n = Len(@) THEN <<>> ELSE @]
  /\ UNCHANGED <<writers, decoder, open, place, received>>

WriteBytes(q, n) ==
  /\ q \in writers /\ call # "over" /\ Writable(q, n)
  /\ pipe' = [pipe EXCEPT ![q] = @ \o SubSeq(rest[q], 1, n)]
  /\ rest' = [rest EXCEPT ![q] = SubSeq(@, n + 1, Len(@))]
  /\ UNCHANGED <<writers, decoder, open, place, received>>

(* A peer exits, is killed between two writes, or gets EPIPE. *)
Leave(q) ==
  /\ q \in writers
  /\ writers' = writers \ {q}
  /\ rest' = [rest EXCEPT ![q] = <<>>]
  /\ UNCHANGED <<pipe, decoder, open, place, received>>

-----------------------------------------------------------------------------
(* The reader: receive for one peer. *)

HasHeader(q) == Len(decoder[q]) >= HeaderSize

ValidHeader(q) ==
  \A i \in 1..HeaderSize :
    decoder[q][i] = [frame |-> decoder[q][1].frame, place |-> i]

Needed(q) == IF HasHeader(q) THEN Size(decoder[q][1].frame) ELSE HeaderSize

(* The header is malformed, or the frame is there. *)
Decodable(q) == HasHeader(q) /\ (ValidHeader(q) => Len(decoder[q]) = Needed(q))

(* Mutant: a read that may take more than the frame needs. *)
Readable_Everything(q, n) == n \in 1..Len(pipe[q])

Readable(q, n) == n \in 1..Len(pipe[q]) /\ n <= Needed(q) - Len(decoder[q])

InReceive(q) == call # "over" /\ q = from

Decode(q) ==
  /\ InReceive(q) /\ Decodable(q)
  /\ IF ValidHeader(q)
     THEN /\ received' = <<q, decoder[q][1].frame>>
          /\ decoder' = [decoder EXCEPT ![q] = <<>>]
          /\ NextCall(q)
     ELSE Fails /\ UNCHANGED <<decoder, received>>
  /\ UNCHANGED <<bytes, open>>

(* The header first, then its payload, in as many reads as it takes. *)
ReadBytes(q, n) ==
  /\ InReceive(q) /\ q \in open /\ ~Decodable(q) /\ Readable(q, n)
  /\ decoder' = [decoder EXCEPT ![q] = @ \o SubSeq(pipe[q], 1, n)]
  /\ pipe' = [pipe EXCEPT ![q] = SubSeq(@, n + 1, Len(@))]
  /\ UNCHANGED <<writers, rest, open, place, received>>

(* An end of file between two frames is a peer that left, else an error. *)
EndOfFile(q) ==
  /\ InReceive(q) /\ q \in open \ writers /\ ~Decodable(q) /\ pipe[q] = <<>>
  /\ open' = open \ {q}
  /\ IF decoder[q] = <<>> THEN NoFrame(q) ELSE Fails
  /\ UNCHANGED <<bytes, decoder, received>>

(* EAGAIN, or a pipe the reader has closed. *)
WouldBlock(q) ==
  /\ InReceive(q)
  /\ q \in open => q \in writers /\ pipe[q] = <<>> /\ ~Decodable(q)
  /\ UNCHANGED <<bytes, decoder, open, received>>
  /\ NoFrame(q)

Receive(q) ==
  \/ Decode(q)
  \/ \E n \in 1..PipeSize : ReadBytes(q, n)
  \/ EndOfFile(q) \/ WouldBlock(q)

Write(q) ==
  \/ \E f \in Frame : BeginFrame(q, f)
  \/ \E n \in 1..PipeSize : WriteBytes(q, n)
  \/ Leave(q)

AllOver == call = "over" /\ writers = {}

Next ==
  \/ \E q \in Peer : Receive(q) \/ Write(q)
  \/ AllOver /\ UNCHANGED vars

Spec == Init /\ [][Next]_vars

(* The reader keeps calling; nothing is assumed about the peers. *)
FairSpec == Spec /\ WF_vars(\E q \in Peer : Receive(q))

-----------------------------------------------------------------------------
(* Properties. *)

(* Whatever the sizes of the reads and writes and however the peers' frames  *)
(* alternate, what the decoder holds is the beginning of one frame: it never *)
(* meets a malformed header and never takes a byte of the next frame.        *)
DecoderInStep ==
  \A q \in Peer :
    /\ Len(decoder[q]) <= Needed(q)
    /\ \A i \in DOMAIN decoder[q] :
         decoder[q][i] = [frame |-> decoder[q][1].frame, place |-> i]

(* A frame is on the way from when its last byte is written: Ended(s)[i] are *)
(* the frames that end in the first i bytes of s.                            *)
WithByte(frames, b) ==
  IF b.place = Size(b.frame) THEN Append(frames, b.frame) ELSE frames

Ended(s) ==
  LET upTo[i \in 0..Len(s)] ==
        IF i = 0 THEN <<>> ELSE WithByte(upTo[i - 1], s[i])
  IN  upTo

Complete(s) == Ended(s)[Len(s)]
OnTheWay(q) == Complete(decoder[q] \o pipe[q])

(* The protocols see a queue of frames per peer: nothing is lost, doubled,   *)
(* mixed up or delivered in part, and the reader fails only when a peer has  *)
(* left and all its complete frames are received, also when it left in the   *)
(* middle of one.                                                            *)
FrameLevel ==
  INSTANCE FramePipe WITH
    queue <- [q \in Peer |-> OnTheWay(q)],
    listening <- call # "over"

ImplementsFramePipe == FrameLevel!PipeSpec

(* receive_any comes round: as long as the reader goes on, no frame of a peer *)
(* it listens to waits for ever, even if another peer always has one ready.   *)
Waiting(q) == (call = "any" \/ (call = "one" /\ from = q)) /\ OnTheWay(q) # <<>>

EveryPeerHeard ==
  \A q \in Peer : []<>(~Waiting(q)) \/ []<><<Decode(q)>>_vars
=============================================================================
