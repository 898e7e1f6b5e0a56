------------------------------ MODULE MCPa3Bank ------------------------------
(* Instances of Pa3Bank for TLC; a cfg picks one definition per constant. *)
EXTENDS Pa3Bank

Tens == [p \in Worker |-> 10 * p]

(* The robbery of the repository, then what a replacement may ask for: more *)
(* than the account holds, the way back at once, and nothing.               *)
Forth == [src |-> 1, dst |-> 2, amount |-> 25]
Back == [src |-> 2, dst |-> 1, amount |-> 3]
RobberyAndMore == Robbery \o <<Forth, Back, [Forth EXCEPT !.amount = 0]>>

ThereAndBack == <<Forth, Back>>

(* More orders than a history has room for. *)
LongRobbery == [i \in 1..50 |-> IF i % 2 = 1 THEN [Forth EXCEPT !.amount = 1]
                                ELSE [Back EXCEPT !.amount = 1]]
=============================================================================
