------------------------------ MODULE Pa4Turns ------------------------------
(***************************************************************************)
(* How often a worker of lab 4 can be passed while it waits for its turn.   *)
(* A history variable is added to Pa4Mutex; it restricts no step.           *)
(***************************************************************************)
EXTENDS Pa4Mutex

VARIABLE began   \* began[w][v]: the iteration v was in when w last called request_cs

turnsVars == <<vars, began>>

NothingBegan == began = [w \in Worker |-> [v \in Worker |-> 0]]

AsksForTurn(w) == pc[w] = "work" /\ pc'[w] = "waiting"

Remember ==
  began' = [w \in Worker |->
              IF AsksForTurn(w) THEN [v \in Worker |-> iteration[v]] ELSE began[w]]

TurnsInit == Init /\ NothingBegan
TurnsNext == Next /\ Remember
TurnsSpec == TurnsInit /\ [][TurnsNext]_turnsVars

(* The claims of v that have been granted; the one that a dead worker left  *)
(* does not count.                                                          *)
Granted(v) == iteration[v] - IF Claims(v) /\ pc[v] # "inside" THEN 1 ELSE 0

(* While a worker waits for its turn, no other is granted more than one of  *)
(* the claims it makes meanwhile.  One may be: its request may be stamped   *)
(* earlier, or wins the tie.  But the reply that confirms it comes behind   *)
(* the request of the one that waits, so the next claim knows of that       *)
(* request and is later (request_cs, dispatch, the order within a pipe).    *)
NobodyOvertakesTwice ==
  \A v, w \in Worker :
    pc[w] = "waiting" /\ v # w => Granted(v) <= began[w][v] + 1

-----------------------------------------------------------------------------
(* The inductive invariant behind it, beside MutexInv. *)

(* The claims v has made while w waits. *)
Meanwhile(w, v) == iteration[v] - began[w][v]

(* v has read the request of w, or it will before any reply of w. *)
Arrived(w, v) == ~UnderWay(w, v, "CS_REQUEST")
AheadOfReplies(w, v) ==
  \/ Arrived(w, v)
  \/ \E i \in DOMAIN channel[w][v] :
       /\ channel[w][v][i].type = "CS_REQUEST"
       /\ \A j \in DOMAIN channel[w][v] : channel[w][v][j].type = "CS_REPLY" => i < j

TurnOk(w, v) ==
  /\ Meanwhile(w, v) \in 0..2
  /\ Meanwhile(w, v) = 2 => Claims(v) /\ pc[v] # "inside" /\ Own(w) < Own(v)
  /\ Meanwhile(w, v) = 2 \/ (Meanwhile(w, v) = 1 /\ ~Claims(v)) => Arrived(w, v)
  /\ Meanwhile(w, v) = 1 /\ Claims(v) =>
       /\ w \in replied[v] => Arrived(w, v)
       /\ UnderWay(w, v, "CS_REPLY") => AheadOfReplies(w, v)

TurnsInv ==
  /\ began \in [Worker -> [Worker -> Nat]]
  /\ \A w \in Worker : pc[w] = "waiting" =>
       MutexEnabled /\ \A v \in Peers(w) : TurnOk(w, v)
=============================================================================
