----------------------------- MODULE MCPa4Mutex -----------------------------
(* Instances of Pa4Mutex for TLC; a cfg picks one definition per constant. *)
EXTENDS Pa4Mutex

(* child_run gives worker p 5 * p iterations; what matters is that workers *)
(* differ, so that one is done while another still asks for its turn.      *)
OneEach == [p \in Worker |-> 1]
Growing == [p \in Worker |-> p]
IdleFirst == [p \in Worker |-> IF p = 1 THEN 0 ELSE 1]
FewerFirst == [p \in Worker |-> p - 1]

(* The first barrier has fallen for everybody and every pipe is empty: with *)
(* each STARTED stamped 1, a node that has read all of them and nothing     *)
(* else has ticked once for each.                                           *)
AllStarted ==
  /\ pc = [p \in Node |-> IF p = PARENT_ID THEN "finishing" ELSE "work"]
  /\ clock = [p \in Node |-> Children + IF p = PARENT_ID THEN 1 ELSE 0]
  /\ channel = [p \in Node |-> [q \in Node |-> <<>>]]
  /\ outbox = [p \in Node |-> Idle]
  /\ started = [p \in Node |-> Peers(p)]
  /\ done = [p \in Node |-> {}]
  /\ queued = [p \in Node |-> {}]
  /\ replied = [p \in Node |-> {}]
  /\ requested_at = [p \in Node |-> [q \in Node |-> 0]]
  /\ iteration = [p \in Node |-> 0]

SpecAfterStart == AllStarted /\ [][Next]_vars
=============================================================================
