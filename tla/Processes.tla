----------------------------- MODULE Processes ------------------------------
(***************************************************************************)
(* The processes of main.c, the same in lab 3 and lab 4: the fork loop, the *)
(* pipe ends a process holds, fatal() and stop_workers(), waitpid, and the  *)
(* signals of the environment.  Lab 2 differs where Pa2Bank says so.  Every *)
(* action moves pc and nothing else; a module that extends this one says    *)
(* what its own variables do.                                               *)
(***************************************************************************)
EXTENDS Integers

CONSTANTS
  Children,      \* the number of workers, -p
  ForkMayFail,   \* whether fork() may be refused
  Mortal         \* the nodes the environment may kill at any moment

PARENT_ID == 0
Worker == 1..Children
Node == 0..Children

ASSUME ProcessesAssumption ==
  /\ Children \in Nat \ {0}
  /\ ForkMayFail \in BOOLEAN
  /\ Mortal \subseteq Node

VARIABLE pc   \* where main, child_run and parent_run stand

(* The states every program has.  A child is unborn until it is forked and    *)
(* boots until it announces itself; the parent boots until all are forked.    *)
(* At its end the parent waits for its children: for them to exit, its pipes  *)
(* closed (reaping), or in fatal for the ones it has signalled, its pipes     *)
(* open (stopping) or, when a fork failed, closed (aborting).  A node ends by *)
(* exiting with success, by a failure the code reports (fatal, or main's      *)
(* EXIT_FAILURE), or by a signal.                                             *)
Over == {"exited", "failed", "killed"}
Lifecycle == {"unborn", "boot", "reaping", "stopping", "aborting"} \cup Over

(* A node has its own pipe ends from fork to channels_close or the end of the *)
(* process.  Until channels_keep_local a process has everybody's as well, so  *)
(* a pipe is broken, and an empty one at its end, only when nobody boots.     *)
Closed(p) == pc[p] \in Over \cup {"unborn", "aborting", "reaping"}
Inherited == \E r \in Node : pc[r] = "boot"
Gone(p) == Closed(p) /\ ~Inherited

NothingForked == [p \in Node |-> IF p = PARENT_ID THEN "boot" ELSE "unborn"]
Goto(p, state) == pc' = [pc EXCEPT ![p] = state]

-----------------------------------------------------------------------------
(* main's fork loop.  Child p runs child_run as soon as it is born. *)

NextToFork(p) ==
  /\ pc[PARENT_ID] = "boot" /\ pc[p] = "unborn"
  /\ \A q \in Worker : q < p => pc[q] # "unborn"

Fork(p) == NextToFork(p) /\ Goto(p, "boot")

(* Mutant: fork's failure ends the parent at once. *)
ForkFails_NoStopWorkers(p) ==
  NextToFork(p) /\ ForkMayFail /\ Goto(PARENT_ID, "failed")

(* channels_close, then fatal: only the children born so far are stopped. *)
ForkFails(p) == NextToFork(p) /\ ForkMayFail /\ Goto(PARENT_ID, "aborting")

AllForked ==
  /\ pc[PARENT_ID] = "boot"
  /\ \A p \in Worker : pc[p] # "unborn"
  /\ Goto(PARENT_ID, "starting")

-----------------------------------------------------------------------------
(* The end of a process. *)

(* Mutant: a parent that leaves its children behind. *)
Fail_NoStopWorkers(p) == Goto(p, "failed")

(* fatal() ends a child; a parent first stops its children (StopWorker). *)
Fail(p) == Goto(p, IF p = PARENT_ID THEN "stopping" ELSE "failed")

(* stop_workers sends SIGTERM to every child that was forked. *)
StopWorker(p) ==
  /\ pc[PARENT_ID] \in {"stopping", "aborting"}
  /\ pc[p] \notin Over \cup {"unborn"}
  /\ Goto(p, "killed")

(* waitpid for every child, in main or in stop_workers. *)
Reap ==
  /\ pc[PARENT_ID] \in {"reaping", "stopping", "aborting"}
  /\ \A p \in Worker : pc[p] \in Over \cup {"unborn"}
  /\ Goto(PARENT_ID, IF /\ pc[PARENT_ID] = "reaping"
                        /\ \A p \in Worker : pc[p] = "exited"
                     THEN "exited" ELSE "failed")

Supervise ==
  \/ AllForked \/ Reap
  \/ \E p \in Worker : Fork(p) \/ ForkFails(p) \/ StopWorker(p)

(* A signal from outside. *)
Kill(p) ==
  /\ p \in Mortal /\ pc[p] \notin Over \cup {"unborn"}
  /\ Goto(p, "killed")

Terminated == \A p \in Node : pc[p] \in Over \cup {"unborn"}
=============================================================================
