# A TLA+ verification of the distributed computing labs

The repository holds four C programs. In each of them `main` creates a pipe
for every ordered pair of processes, forks the workers 1..N and runs a protocol
between them and the parent 0 over nothing but these pipes:

| Lab | Program | Protocol |
|---|---|---|
| 1 | `src/lab1/main.c` | two barriers, STARTED and DONE, over blocking pipes |
| 2 | `src/lab2/` | a bank: transfers between the workers' accounts, histories in physical time |
| 3 | `src/lab3/pa3/` | the same bank with Lamport's clock and money under way in the histories |
| 4 | `src/lab4/pa4/` | Lamport's mutual exclusion around `print()`, with statistics |

Labs 3 and 4 share their clock, their transport and their process management
almost line by line, and lab 2 most of its fork loop, so they share modules here.

## Inventory

| Component | State | Operations | What makes it correct |
|---|---|---|---|
| Lamport clock (labs 3, 4: `clock.c`) | `logical_time`, 16 bits | `clock_send`, `clock_receive` | a receipt is later than its send; it stops at INT16_MAX rather than wrap |
| Pipes (`ipc.c`) | the bytes in each pipe, one decoder per peer, the cursor of `receive_any`, open descriptors | `send`, `send_multicast`, `receive`, `receive_any`, `await_*`, `channels_*` | complete frames in order, one stamp per multicast, no frame lost at the end, nobody starved, no cycle of full pipes |
| Processes (`main.c`) | pids, exit codes | fork loop, `fatal`, `stop_workers`, `waitpid` | success is reported only when everything succeeded; no child outlives a parent that reports |
| Mutual exclusion (lab 4: `mutex.c`) | per node: request table, replies, own request | `request_cs`, `first_and_confirmed`, `release_cs` | one worker inside, in the order of the claims, nobody passed twice by the same worker, everyone in the end |
| Worker protocol (lab 4: `protocol.c`) | what was received from whom | `dispatch`, `child_run`, `parent_run` | both barriers hold, no frame of the protocol is ever refused |
| Statistics (lab 4: `stats.c`) | counters per worker | `stats_message`, `stats_entry` | the rows agree with the traffic and with each other |
| Bank (lab 3: `bank.c`) | per worker: STOP and DONE received, ledger; parent: the order it is at, the histories | `child_run`, `process_transfer`, `transfer`, `parent_run` | each order is carried out once, one at a time; everybody finishes |
| Histories (lab 3: `history.c`) | a balance and a pending amount per logical time | `ledger_extend`, `ledger_debit`, `ledger_credit`, `history_finish` | every cell is what the transfers say; money is conserved at every time |
| Bank (lab 2: `main.c`, `ipc.c`) | as in lab 3, with a physical clock and no pending money | `child_main`, `apply_transfer`, `transfer`, `parent_main`, `main` | every balance is what the transfers up to its time say, what is missing is under way, each order is carried out once, also when a DONE overtakes a STOP |
| Barriers (lab 1: `main.c`) | what was received from whom | blocking `send`, `receive_any`, `wait_for_type` | both barriers hold, no message of the other phase is lost |

Processes interact through frames only. What is hard about them is interleaving:
frames of different pipes overtake each other, a multicast is written pipe by
pipe and may stop half-way, a process may be killed at any step, `write_frame`
spins on a full pipe without reading its own input, closing a pipe too early is
an error at the other end, and a parent that waits for one worker does not see
another one die.

## Modules

| Module | Models | Built on |
|---|---|---|
| `LamportClock` | `clock.c` of labs 3 and 4 | |
| `Processes` | `main.c` of labs 3 and 4, and of lab 2 what `Pa2Bank` does not say otherwise: where each process stands, fork and its failure, `fatal` and `stop_workers`, `waitpid`, signals, and when a pipe has no reader or writer left | |
| `Pa4Mutex` | `mutex.c`, `protocol.c` and the frame level of `ipc.c` of lab 4 | `Processes`, `LamportClock` |
| `Pa4Stats` | `stats.c`, on top of every step of `Pa4Mutex` | `Pa4Mutex` |
| `CriticalSection` | what `request_cs` and `release_cs` promise: an abstract critical section without messages | |
| `Pa4Turns` | no code of its own: a history variable beside every step of `Pa4Mutex`, which remembers the iterations of the others when a worker asks for its turn | `Pa4Mutex` |
| `Pa4MutexProofs` | theorems | `Pa4Mutex` |
| `Pa4TurnsProofs` | theorems | `Pa4Turns`, `Pa4MutexProofs` |
| `Pa4StatsProofs` | theorems | `Pa4Stats`, `Pa4MutexProofs`, `LedgerProofs` (for its sums) |
| `Ledger` | `history.c` as operators on sequences | |
| `Pa3Bank` | `bank.c`, the frame level of `ipc.c`, and `bank_robbery.c` of lab 3 | `Processes`, `LamportClock`, `Ledger` |
| `Accounts` | what `transfer` promises: accounts on which the orders are carried out one at a time | |
| `Pa2Bank` | `src/lab2/`: the bank, the frame level of its `ipc.c`, its `main` | `Processes`, `Ledger`, `Accounts` |
| `Transport` | `ipc.c` of labs 3 and 4 below the frame: every `write` and `read`, the decoders, the cursor of `receive_any`, end of file in the middle of a frame | |
| `FramePipe` | what `ipc.c` promises to the protocols: a queue of whole frames per peer | |
| `TransportProofs` | theorems | `Transport` |
| `LedgerProofs`, `Pa3BankProofs`, `Pa2BankProofs` | lemmas about histories and sums, theorems | `Ledger`, `Pa3Bank`, `Pa2Bank` |
| `Pa1Barrier` | `src/lab1/main.c`, whose processes and pipes differ from those of labs 3 and 4: pipes block, SIGPIPE kills, nobody stops the children | |
| `Pa1BarrierProofs` | theorems | `Pa1Barrier` |
| `MCPa4Mutex`, `MCPa4Stats`, `MCPa4Turns`, `MCPa3Bank`, `MCPa2Bank`, `MCTransport` | instances for TLC | |

How state and actions correspond to the code:

- `pc[p]` is the place in `main`, `child_run` or `parent_run`; each loop over
  `dispatch`, `await_message` or `await_any` is one of its values.
- `channel[p][q]` is the pipe from p to q as a sequence of frames and
  `outbox[p]` the frame p is writing with the targets it has not reached, in the
  order of the loop in `send_multicast`. Every `write_frame` is a step
  (`WriteFrame`), so a process can be killed, or others can run, between two
  writes. `BrokenPipe` is EPIPE, `PeersClosed` is end of file.
- A step takes at most one frame and does everything the code does before its
  next write or read: a request is entered in the table and the reply is
  stamped; an order is debited and the TRANSFER is stamped.
- `Accepts` collects what `receive` and the code that acts on a frame require;
  when it fails, the process ends (`RejectFrame`). `NoFailure` in lab 4, and
  `EveryoneExits` in labs 2 and 3, say that this never happens to frames the
  program itself sends.
- `outgoing` and `incoming` in `Pa3Bank` are the two kinds of transfer lines of
  `events.log`; the properties compare the histories with them, as the audit of
  `src/lab3/tests/verify.py` does, but in every state and on every schedule.

- In `Transport` a byte is the frame it belongs to and its place there: that is all
  `receive` can tell bytes apart by, since a header has its magic number and
  length in the right places only when its bytes are those of one frame's header.
  The sizes of reads and writes are chosen at every step within what the pipe holds,
  what the decoder asks for and, for a write of at most `PIPE_BUF` bytes, all or
  nothing. `from` is the peer that `receive` is called for; in `await_any` the
  cursor is always the slot after it, and `scanned` counts the attempts of one
  `receive_any` that found nothing.
- The three layers fit together: `Transport` implements `FramePipe`, whose queues are
  the `channel[p][q]` of `Pa2Bank`, `Pa3Bank` and `Pa4Mutex`. Those modules write a
  frame in one step, which is exact: no frame is longer than `MAX_MESSAGE_LEN`, 4096,
  the `PIPE_BUF` of Linux. `Transport` does not rely on that, and with larger
  frames a peer may also leave in the middle of one.
- In `Pa2Bank` `now` is the physical clock of the runtime library. It may move before
  any step; nothing is known of it but its direction.

The operators and actions marked `Mutant` are plausible mistakes in the
definition that follows them. Nothing uses them; replacing the definition by the
mutant breaks the property named with it in `PROJECT.json`.

## Runs

| Run | Instance | Shows |
|---|---|---|
| `pa4_three` | 3 workers with 0, 1 and 2 passes, no faults, after the first barrier | `MutualExclusion`; pipes never hold more than 3 frames (`ChannelsStayShort`); nothing is unread at the end (`NothingUnread`); `CriticalSection` is implemented |
| `pa4_faults` | 3 workers, one pass each, any node killed at any step, clock that overflows | `TypeOK`, `GrantsInOrder`, and the inductive invariant `MutexInv` of the proofs |
| `pa4_stats` | 3 workers with 0, 1 and 1 passes, after the first barrier | the rows (`RowsAddUp`), the traffic (`CountersMatchPipes`) and liveness (`EveryoneExits`) |
| `pa4_start` | 2 workers with 1 and 2 passes, from the fork loop on | requests that cross the first barrier are not refused (`NoFailure`), `WaitsCoverReplies` |
| `pa4_nomutex` | 3 workers without `--mutexl`, failing forks, parent and one worker mortal | `BarriersHold`, `SilentWithoutMutex`, `ParentReports` |
| `pa4_turns` | 3 workers with 2, 1 and 0 passes, no faults, after the first barrier | while one waits, no other is granted two of the claims it makes meanwhile (`NobodyOvertakesTwice`) |
| `pa3_bank` | 3 accounts, 6 orders, from the fork loop on | `HistoriesMatchEvents`, `TransfersInOrder`, `BarriersHold`, `NothingUnread`; `EveryoneExits`, with pipes of only two frames |
| `pa3_faults` | 3 accounts, 2 orders, failing forks, parent and two workers mortal, a history limit that some schedules reach | `TypeOK`, `MoneyConserved`, `ParentReports`; `Accounts` is implemented whoever dies |
| `pa1_barrier` | 3 workers, failing forks, every process mortal | `TypeOK`, `BarriersHold`, `NothingDropped`, `FailureHasCause`, `ParentReports`; every process ends, whatever happens (`EveryoneEnds`) |
| `pa2_bank` | 3 accounts, 2 orders of which one overdraws, refused forks, one worker mortal, a clock that may pass what a history can say | `HistoriesMatchEvents`, `MoneyInTransit`, `BarriersHold`, `ParentReports`; `EveryoneExits` unless disturbed; `Accounts` is implemented whoever dies |
| `transport` | a worker of 2 that receives from the parent and the other, a frame of a header and one longer than the pipe, peers that leave at any byte | `DecoderInStep`; `FramePipe` is implemented; `EveryPeerHeard` |
| `pa3_limit` | 2 accounts, 50 orders, the code's own limits | a counterexample, see below |

Bounds. `Children` is 2 or 3: three workers are the least for which a request
can reach one worker before and another after something else happened, for a
third account to be outside a transfer, and for a multicast to stop half-way.
`Iterations` replaces `5 * p`: what matters is that some worker is done while
others still ask, and that one asks again after its release. In `pa4_turns` the worker
that wins every tie makes two passes, the fewest with which `NobodyOvertakesTwice` could fail.
`Capacity` is the number of frames a pipe holds; a real pipe holds 64 KiB.
`ChannelsStayShort`, proved for every number of workers, says that lab 4 never needs
more than 3 frames, and in
`pa3_bank` two are enough for `EveryoneExits`, so there the bound costs no behaviour. `MaxClock`, `HistoryLimit` and `MaxBalance`
stand for INT16_MAX, 254 and INT16_MAX: large enough never to be reached where a
run asks what happens without overflow, small where a run asks what happens then.
The runs that begin after the first barrier start from `AllStarted`, one of the
states in which it has fallen; the barrier itself, with all its interleavings, is in
`pa4_start`, `pa4_nomutex` and the runs of lab 3.

In `transport` the frames have 2 and 5 bytes, a pipe holds 4 and `PIPE_BUF` is 3: the short
frame is written whole or not at all, the long one never in a single write, a read may
end inside the header, at its end, inside the payload or between two frames, and two
peers suffice for the cursor to prefer one. In `pa2_bank` `LastTime` is one more than a
history can say, so that a refusal is reached at every point that may refuse.

In lab 1 every process writes two messages to every other, so `Capacity = 2` never blocks a
write, as the 64 KiB of a pipe never do.

Deadlock is checked in every run except where processes are killed or refuse to
go on: a worker whose peer is dead may wait for ever, which the README of lab 4
says of its program.

Lab 1 differs: `EveryoneEnds` holds there with every process mortal, because every
wait is a blocking read or write that the death of the other side ends.

Fairness. Every process takes a step if it continuously can: the operating
system runs every process, `sched_yield` gives up the processor only for a
while, and `receive_any` comes round to every peer. `Supervision` (fork,
`waitpid`, the signals of `stop_workers`) is fair too. Nothing is assumed about
kills from outside. In `transport` only the reader is fair: it spins on EAGAIN, and
`EveryPeerHeard` must hold whatever the peers do. The physical clock of `pa2_bank` may
stop or run.

### A divergence

`docs/VALIDATION.md` of lab 3 says that an impossible history length ends with a
nonzero code. A worker does refuse such a history; but when the refusing worker
is the source of a transfer, the parent waits in `await_message` for the ACK of
the target only, and the target waits in `await_any` as long as the parent's pipe
is open: the program never ends. Run `pa3_limit` shows it with the code's own
limits: two accounts, the 43rd order. The model's times are those of the real
program, which hangs at the same transfer. In lab 2 `transfer` waits for the target's
ACK alone in the same way; `pa2_bank` therefore asks for termination only as long as
the clock stays within what a history can say.

## Proofs

For every number of workers, every pipe capacity, every bound of the clock and
whichever processes die:

- `TypeCorrect`: the types of `Pa4Mutex`.
- `InvCorrect`: the inductive invariant `MutexInv`. `GrantsInOrder` and
  `MutualExclusion` are not inductive: that the earliest claimant is alone inside
  depends on what every reply means. `MutexInv` says where the request of p
  stands with q (being written, in the pipe, or in the table with its true
  stamp), that there is at most one request and one reply under way and never a
  stale one, and that everything q sends after its reply is stamped later than
  p's claim (`ClaimOk`, `RequestOk`, `ReplyOk`). Nothing in it needs p or q to be
  alive. The proof has a lemma per action and, under it, one per pair of workers
  and conjunct that the action disturbs.
- `GrantsCorrect` and `MutexCorrect` follow from it: if p and another claimant q
  each had the other's reply, each would hold the other's claim, and the order
  of claims is total.
- `MutexRefines`: the initial states map to initial states of `CriticalSection`,
  and under `MutexInv` every step maps to a step or a stutter.
- `TurnsBounded`: `NobodyOvertakesTwice`, the bound behind the fairness of lab 4. A worker that
  leaves asks again at once, perhaps before it has read an older request, and may pass it
  once. It cannot twice: `TurnsInv` follows the request of the waiting worker w on the way
  to v. As long as v has not read it, it lies ahead of every reply of w in the pipe
  (`AheadOfReplies`), so whoever has w's reply to a claim made meanwhile knows of w's
  request (`Arrived`), and the next claim is stamped later. With `MutexInv` it is inductive.
  Every step is described by what it does to v's claim (`WorkerSteps`) and to the frames
  on the way from w to v (`WaySteps`).
- `BarriersCorrect`, `ReportsCorrect` and `SilenceCorrect` of lab 4, with
  `--mutexl` or without. `Moves` says where a node may go in one step and what it must
  have heard before. No frames are counted: `BarrierInv` says that whoever has left a
  trace with anybody (a frame being written, in a pipe or received) has announced
  itself, and that whoever has left the trace of a DONE is finished. It stays so
  because claims are made only at work, and by the `ClaimOk` of `MutexInv` whoever
  is at work or finishing has none. `ParentReports` follows from `Moves` and `BarrierInv`;
  `SilentInv` adds to `SilentWithoutMutex` that nobody is waiting or inside.
- `PipesStayShort`, `PipesLeftEmpty` and `NobodyFails` of lab 4 follow from `WaysInv`. It
  speaks of the way from one node to another, the pipe and the frame being written to
  it. A way has three places: what begins (STARTED, later RELEASE), what goes on
  (REQUEST, later DONE) and an answer (REPLY), each taken at most once (`WayOk`), so it
  never holds more than three frames, which `ChannelsStayShort` says; what the receiver
  has heard and whether it claims say which places can still be taken; the stamps are
  in the sender's past (`Stamped`), and the parent sends nothing (`Routes`). At
  the end all that could be on the way has been heard (`EndInv`). `NobodyFails` has a
  hypothesis, `Undisturbed`: nobody may be killed, no fork be refused, and the clocks
  have not come to their limit. These are the only causes of `fatal` in lab 4: without
  them no frame is refused, no pipe is written after its reader has closed it, no pipe
  ends while somebody waits for it (`SoundInv`). The run `pa4_start` is such an instance.
- `Pa4Stats`: `StatsRunMutex`, a run with `--stats` is a run of `Pa4Mutex`, so all of the
  above holds of it. `RowsCorrect`, `CountersCorrect` and `WaitsCorrect` are its safety
  properties, for any number of workers and entries, whoever dies. `RowsAddUp` speaks
  of workers that have exited and says nothing of a moment before. `CountInv` says what
  each counter is at every moment: the entries a worker has claimed (`Claimed`) say how
  many frames of each type it has put on the way to each other worker (`Issued`); less the
  one it is still writing it is what it has written, less the one under way what the other
  has heard (`Written`, `Heard`). That it is one frame at most is `WaysInv`. The counters
  are the sums of these over the other workers. When a worker exits `EndInv` leaves
  nothing under way, and what is left are the claims, that is the iterations
  (`RowOfExited`). `WaitInv` says that the clock has ticked since the request once for
  every answer heard. `CountersMatchPipes` is inductive beside these: a frame written
  is one more sent and one more in a pipe, a frame read one less in the pipe and one more
  received (`MatchWritten`, `MatchRead`); that STARTED and DONE are all the parent
  gets is `WaysInv` again. It has a hypothesis, that no worker has failed:
  `receive` counts a frame before `dispatch` may refuse it, and whoever refuses a frame
  fails. By `NobodyFails` that does not happen in an undisturbed run.
- `Pa3Bank`'s `TypeCorrect`: for all initial balances, all orders (valid or not) and
  all limits, the checks the code makes before it computes keep every clock, cell
  and history length within its C type. It rests on the lemmas of `LedgerProofs`:
  `ExtendType`, `DebitType` and `CreditType` say that a history which passes the check
  of an operation is a history after it. The invariant `TypeInv` adds to the types
  that an ACK is awaited only for an order that exists.
- `Pa3Bank`'s protocol: `BarriersKept`, `PipesEmpty` and `ParentIsRight` follow from
  `BankInv`. None of them is inductive: that nothing is unread when the parent closes
  its pipes depends on what each worker has sent since the start. `BankInv` counts no
  frames either. It speaks of the way from one node to another, the pipe and the frame
  being written to it: on a way STARTED comes before the frame about money, that before
  STOP or DONE, that before the history, each at most once (`OrderInv`); a frame says
  where its sender stands (`SenderInv`: a DONE, that it has stopped; a history, that it
  is final); what a node has heard says what can still be on the way to it
  (`ReceiverInv`, `PhaseInv`); and at most one frame about money exists anywhere, an
  order, a TRANSFER or an ACK, whose place says how far the order at hand has come
  (`MoneyInv`).
- `Pa3Bank`'s money. `TransfersKeepOrder`: by `MoneyInv` the next order leaves after the
  ACK of the one before, so every booking at a target is stamped before the next booking
  at a source (`LogInv`). `HistoriesAreRight`: every cell of every history agrees with the
  bookings up to its time (`AccountInv`), for the code writes a whole stretch of cells
  at once and corrects the ones a TRANSFER was under way. `MoneyIsConserved`: at every
  logical time the balances and what is pending add up to the initial total
  (`TotalInv`), and at the end the parent's own histories do. `HistoriesAreAccepted`:
  whenever the parent has gathered the histories, the check of
  `history_finish` succeeds, so its failure path is dead. `BankImplementsAccounts`:
  the bank implements `Accounts`, whoever dies; `CarryInv` says that a booking
  without its counterpart has its TRANSFER on the way, so that it is the money of the
  order at hand. The sums are folds over sets of workers and of transfers; `LedgerProofs`
  proves what they need, that the order of adding does not matter, by well-founded
  induction on the subsets of a finite set (`SubsetInduction`, `SumInsert`, `SumChange`).
- `Pa2Bank`'s `TypeCorrect`, `BarriersKept`, `ParentIsRight`, `HistoriesAgree`,
  `MoneyIsSomewhere` and `BankImplementsAccounts`: all the safety properties of lab 2.
  `BankInv` is that of lab 3 without stamps; it lets the parent's copies differ from
  the workers' histories once they are brought to one length. `LogInv` says that every
  transfer is booked at its source no later than at its target and never ahead of the
  clock; several transfers may fall on one time.
  `TidyInv` says that no history is ahead of the clock, so a booking at a time never
  changes what an account held before it (`AtBook`), also when it finds the cell of its
  time already made; from it follows `AccountInv`, every cell of every history
  is what the lines say, for all times and not only those of the cells. That the
  table which is printed agrees needs `TableInv`: once the parent is past the last history
  the workers' own do not change any more, and bringing them to the longest changes
  no state (`MaxExists`: there is a longest). `MoneyIsSomewhere` is the sum over the
  workers of such states and what `Due` at the source is not `Due` at the target
  (`TotalInv`); `CarryInv` is as in lab 3.
- `Pa1Barrier`'s `TypeCorrect`, `BarriersCorrect`, `NoMessageDropped`, `FailuresCorrect`
  and `ReportsCorrect`: all the safety properties of lab 1. That a barrier holds is not
  inductive, nor is the absence of a cause-less failure: both follow from counting.
  `BarrierInv` says that what p has taken from q's pipe plus what is in it is what q
  has written, 0, 1 or 2 messages, STARTED before DONE (`PipeOk`), and that a process
  that is through with the second barrier misses nobody (`NodeOk`). So the pipe of a
  worker that has exited holds whatever its reader still waits for, and nobody has
  still to write to it.

- `Transport`'s `DecoderCorrect`, `HeadersValid` and `FailsForCause`: for all header and
  payload sizes, pipe capacities, numbers of peers, and sizes of reads and writes, what
  a decoder holds is the beginning of one frame, the branch for a malformed header is
  never taken, and the reader fails only when some peer has ended and left nothing in
  its pipe. A decoder alone says too little to be inductive. `TransportInv` speaks of everything under way from a
  peer as one sequence, decoder, pipe and unwritten rest (`Stream`): around every byte
  lies its frame as far as the sequence goes (`Framed`), and while the peer lives the
  sequence ends with the end of a frame (`Whole`). Reads and writes only move the
  seams; `FrameBegun`, `FramedPrefix` and `FramedSuffix` say what a new frame, a death
  in the middle of one and a delivery do.
- `Transport`'s `PipesImplemented`: it implements `FramePipe`, the queues of whole frames
  that the protocols are written on. The frames on the way from a peer are those whose
  last byte is in its decoder or pipe (`Complete`); a recursive function collects
  them (`Ended`). `EndedRecursion` says that there is such a function, and `CompleteConcat`
  that the frames of two pieces put together are those of the one and then
  those of the other; both are inductions over the bytes (`UpTo`, for a set instead
  of a predicate). So a read, which only moves bytes, changes no queue, a write
  that takes the last byte of a frame sends it and any other sends nothing
  (`WriteSends`), and a decoded frame is the head of its queue (`DecodeReceives`).
  `FrameInv` adds to `TransportInv` that what a peer has still to write ends one frame
  with its last byte, and that the reader closes a pipe only between two frames; with
  it, the reader gives up only on a peer whose queue is empty (`FailsEmpty`).

Assumptions are those named in the modules: the number of workers is positive,
limits are natural numbers, orders and initial balances have their types.
`Pa4MutexProofs`, `Pa4TurnsProofs` and `Pa4StatsProofs` need no assumption on `Iterations`, `Capacity` or
`Mortal` beyond their types.

Only model-checked: liveness (`EveryoneExits`, `EveryoneEnds`, `EveryPeerHeard`), for
liveness under fairness is out of the prover's reach. Every other property of the
passing runs is a theorem.

## Not modelled

- `receive_any` of lab 1, which nothing calls.
- `ipc.c` of lab 2 below the frame: it differs from that of labs 3 and 4 in details
  that `Transport` abstracts from.
- Opening the pipes, `pipes.log` and the closing of descriptors other than by what it
  makes of the other ends.
- In lab 1, messages cut short by the death of their writer: the reader fails on
  them as it does on the end of file.
- Arguments, logs, the texts of messages, payload lengths and magic numbers: no
  process receives anything but frames of its own program.
- `libruntime.so` (`print`, `print_history`, the physical clock).

## Plan

What may be added is breadth, `receive_any` and the bytes of lab 2's `ipc.c`, and a
theorem that joins the layers: the protocols run on queues that `Transport` is proved
to implement, one reader at a time, and not yet on the bytes themselves.
