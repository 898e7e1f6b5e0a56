----------------------------- MODULE MCPa4Turns -----------------------------
(* An instance of Pa4Turns for TLC, from the first barrier on. *)
EXTENDS MCPa4Mutex, Pa4Turns

(* Who is first in a tie also asks most often. *)
MoreFirst == [p \in Worker |-> Children - p]

TurnsAfterStart == AllStarted /\ NothingBegan /\ [][TurnsNext]_turnsVars
=============================================================================
