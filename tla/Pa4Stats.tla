------------------------------ MODULE Pa4Stats ------------------------------
(***************************************************************************)
(* The counters of stats.c (--stats), on top of Pa4Mutex: every step of the *)
(* mutual exclusion is taken with what it adds to the statistics.  A worker *)
(* writes its row after the DONE barrier (stats_finish), so the row of a    *)
(* worker is its counters once it has exited.                               *)
(***************************************************************************)
EXTENDS Pa4Mutex, FiniteSetsExt, Functions

VARIABLE stats   \* stats[p]: the Statistics of worker p

statsVars == <<vars, stats>>

Statistics == [sent : [CsType -> Nat], received : [CsType -> Nat],
               entries : Nat, wait_ticks : Nat, longest_wait : Nat]

NoStatistics ==
  [sent |-> [t \in CsType |-> 0], received |-> [t \in CsType |-> 0],
   entries |-> 0, wait_ticks |-> 0, longest_wait |-> 0]

StatsInit == Init /\ stats = [p \in Worker |-> NoStatistics]

(* Mutant: one count for a whole multicast. *)
CountSent_PerMulticast(p, type) ==
  stats' = IF type \in CsType /\ ~Writing(p)'
           THEN [stats EXCEPT ![p].sent[type] = @ + 1] ELSE stats

(* stats_message: only the three CS types have counters. *)
CountSent(p, type) ==
  stats' = IF type \in CsType THEN [stats EXCEPT ![p].sent[type] = @ + 1] ELSE stats
CountReceived(p, type) ==
  stats' = IF type \in CsType THEN [stats EXCEPT ![p].received[type] = @ + 1] ELSE stats

(* Mutant: the last wait kept as the longest. *)
CountEntry_LastWait(p) ==
  LET elapsed == clock[p] - requested_at[p][p] IN
    stats' = [stats EXCEPT ![p].entries = @ + 1,
                           ![p].wait_ticks = @ + elapsed,
                           ![p].longest_wait = elapsed]

(* stats_entry, called when request_cs has its turn. *)
CountEntry(p) ==
  LET elapsed == clock[p] - requested_at[p][p] IN
    stats' = [stats EXCEPT ![p].entries = @ + 1,
                           ![p].wait_ticks = @ + elapsed,
                           ![p].longest_wait = Max({@, elapsed})]

(* A frame is counted once it is written completely. *)
CountedWrite(p, q) == WriteFrame(p, q) /\ CountSent(p, outbox[p].type)

(* A frame is counted once it is read completely, even if it is then refused. *)
CountedDispatch(p, q) == Dispatch(p, q) /\ CountReceived(p, Head(channel[q][p]).type)

CountedEntry(p) == EnterCs(p) /\ CountEntry(p)

Uncounted ==
  /\ \/ \E p \in Node :
          \/ AnnounceStarted(p) \/ PassStarted(p) \/ RequestCs(p) \/ ReleaseCs(p)
          \/ PrintOnly(p) \/ AnnounceDone(p) \/ PassDone(p)
          \/ SendOverflow(p) \/ PeersClosed(p)
          \/ \E q \in Node \ {p} : BrokenPipe(p, q)
     \/ Supervision \/ Signals
     \/ Terminated /\ UNCHANGED vars
  /\ UNCHANGED stats

StatsNext ==
  \/ \E p \in Node : \E q \in Node \ {p} : CountedWrite(p, q) \/ CountedDispatch(p, q)
  \/ \E p \in Node : CountedEntry(p)
  \/ Uncounted

StatsSpec == StatsInit /\ [][StatsNext]_statsVars

-----------------------------------------------------------------------------
(* Properties. *)

(* The passes of these workers through the critical section, all in all. *)
Entries(workers) ==
  SumFunctionOnSet([w \in Worker |-> IF MutexEnabled THEN Iterations[w] ELSE 0], workers)

(* The row of a worker that exits: it entered once per iteration, asked and *)
(* released each time at every other worker and was answered by it, and it  *)
(* answered every request of the others and heard of every release (README: *)
(* 3 * (P - 1) messages per entry, and zero counters without --mutexl).     *)
RowsAddUp ==
  \A p \in Worker : pc[p] = "exited" =>
    LET own == (Children - 1) * Entries({p})
        others == Entries(Peers(p)) IN
      /\ stats[p].entries = Entries({p})
      /\ stats[p].sent = [t \in CsType |-> IF t = "CS_REPLY" THEN others ELSE own]
      /\ stats[p].received = [t \in CsType |-> IF t = "CS_REPLY" THEN own ELSE others]

(* The frames of a type that q has still to read from p. *)
Pending(p, q, type) ==
  Cardinality({i \in DOMAIN channel[p][q] : channel[p][q][i].type = type})

(* What was sent and not yet received is in the pipes: the counters agree   *)
(* with the traffic at every moment, not only in the final rows (README:    *)
(* as many messages of each type are received as are sent).  A worker that  *)
(* failed may have counted the frame it refused.                            *)
CountersMatchPipes ==
  (\A p \in Worker : pc[p] # "failed") =>
    \A t \in CsType :
      SumFunction([p \in Worker |-> stats[p].sent[t]])
        = SumFunction([p \in Worker |-> stats[p].received[t]])
          + SumFunction([e \in Worker \X Worker |-> Pending(e[1], e[2], t)])

(* A wait takes at least one tick for every reply it needs, and the longest *)
(* is no shorter than the mean (stats_entry; README: wait_ticks / entries). *)
WaitsCoverReplies ==
  \A p \in Worker :
    LET s == stats[p] IN
      /\ s.wait_ticks >= (Children - 1) * s.entries
      /\ s.wait_ticks <= s.entries * s.longest_wait
=============================================================================
