------------------------------ MODULE MCPa2Bank ------------------------------
(* Instances of Pa2Bank for TLC; a cfg picks one definition per constant. *)
EXTENDS Pa2Bank

Tens == [p \in Worker |-> 10 * p]

(* A transfer that overdraws its account, and one that goes on from the *)
(* target (bank_robbery calls transfer the same way).                   *)
Onwards == <<[src |-> 1, dst |-> 2, amount |-> 25],
             [src |-> 2, dst |-> Children, amount |-> 3]>>
=============================================================================
