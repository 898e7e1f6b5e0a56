----------------------------- MODULE MCPa4Stats -----------------------------
(* Instances of Pa4Stats for TLC, with the definitions of MCPa4Mutex. *)
EXTENDS MCPa4Mutex, Pa4Stats

StatsAfterStart == AllStarted /\ stats = [p \in Worker |-> NoStatistics]
FairStatsSpecAfterStart == StatsAfterStart /\ [][StatsNext]_statsVars /\ Fairness
=============================================================================
