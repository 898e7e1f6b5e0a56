------------------------------ MODULE Accounts ------------------------------
(***************************************************************************)
(* What transfer() promises, without processes, messages or clocks: the     *)
(* orders are carried out one at a time, in their order and each once; the  *)
(* money leaves one account and then reaches the other, and is nowhere else *)
(* in between.  Nothing says that an order is ever finished: a process that *)
(* dies may take the money under way with it.                               *)
(***************************************************************************)
EXTENDS Integers, Sequences

CONSTANTS
  Account,   \* the accounts
  Initial,   \* Initial[a]: what a holds at the start
  Orders     \* the transfers, records with src, dst and amount

VARIABLES
  balance,    \* balance[a]: what a holds
  moved,      \* how many orders are carried out
  under_way   \* whether the money of the next one has left its source

accVars == <<balance, moved, under_way>>

AccInit ==
  /\ balance = Initial
  /\ moved = 0
  /\ under_way = FALSE

Withdraw ==
  /\ ~under_way /\ moved < Len(Orders)
  /\ LET order == Orders[moved + 1] IN
       balance' = [balance EXCEPT ![order.src] = @ - order.amount]
  /\ under_way' = TRUE
  /\ moved' = moved

Deposit ==
  /\ under_way
  /\ LET order == Orders[moved + 1] IN
       balance' = [balance EXCEPT ![order.dst] = @ + order.amount]
  /\ under_way' = FALSE
  /\ moved' = moved + 1

AccSpec == AccInit /\ [][Withdraw \/ Deposit]_accVars
=============================================================================
