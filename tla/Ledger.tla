------------------------------- MODULE Ledger -------------------------------
(***************************************************************************)
(* The account histories of lab 3 (history.c) as operators on sequences: a  *)
(* ledger holds one state per logical time from 0 on, so the state at time  *)
(* t is ledger[t + 1].  The check an operation makes before it is fatal is  *)
(* an operator of its own, the operation assumes it.                        *)
(***************************************************************************)
EXTENDS Integers, Sequences, FiniteSetsExt

CONSTANTS
  HistoryLimit,  \* 254: the length of a history is a uint8_t
  MaxBalance     \* INT16_MAX

ASSUME LedgerAssumption == HistoryLimit \in Nat /\ MaxBalance \in Nat

BalanceT == (-MaxBalance - 1)..MaxBalance
BalanceState == [balance : BalanceT, pending_in : BalanceT]

(* The length of a history is never 0, and a uint8_t. *)
History == {h \in Seq(BalanceState) : Len(h) \in 1..(HistoryLimit + 1)}

Opening(balance) == <<[balance |-> balance, pending_in |-> 0]>>
Closing(ledger) == ledger[Len(ledger)]

(* Mutant: the limit is that of time, MAX_T. *)
FitsHistory_OffByOne(time) == time <= HistoryLimit + 1

FitsHistory(time) == time <= HistoryLimit
FitsBalance(value) == value \in BalanceT

(* The last balance holds until something happens, and nothing is pending. *)
Extend(ledger, time) ==
  [i \in 1..Max({Len(ledger), time + 1}) |->
     IF i <= Len(ledger) THEN ledger[i]
     ELSE [balance |-> Closing(ledger).balance, pending_in |-> 0]]

CanDebit(ledger, time, amount) ==
  /\ FitsHistory(time)
  /\ FitsBalance(Extend(ledger, time)[time + 1].balance - amount)

Debit(ledger, time, amount) ==
  [Extend(ledger, time) EXCEPT ![time + 1].balance = @ - amount]

CanCredit(ledger, sent, received, amount) ==
  /\ sent < received /\ FitsHistory(received)
  /\ LET extended == Extend(ledger, received) IN
       /\ \A time \in sent..(received - 1) :
            FitsBalance(extended[time + 1].pending_in + amount)
       /\ FitsBalance(extended[received + 1].balance + amount)

(* Mutant: pending also at the time of the receipt. *)
Credit_ClosedInterval(ledger, sent, received, amount) ==
  LET extended == Extend(ledger, received) IN
    [i \in DOMAIN extended |->
       [balance |-> extended[i].balance + (IF i = received + 1 THEN amount ELSE 0),
        pending_in |-> extended[i].pending_in
                         + (IF i \in (sent + 1)..(received + 1) THEN amount ELSE 0)]]

(* The money was under way in [sent, received): entered with hindsight. *)
Credit(ledger, sent, received, amount) ==
  LET extended == Extend(ledger, received) IN
    [i \in DOMAIN extended |->
       [balance |-> extended[i].balance + (IF i = received + 1 THEN amount ELSE 0),
        pending_in |-> extended[i].pending_in
                         + (IF i \in (sent + 1)..received THEN amount ELSE 0)]]

(* history_finish: an account keeps its last state up to the common horizon, *)
(* and at every time the accounts and what is under way add up to what there *)
(* was at the start.                                                         *)
At(ledger, time) == IF time < Len(ledger) THEN ledger[time + 1] ELSE Closing(ledger)
Horizon(histories, accounts) == Max({Len(histories[a]) : a \in accounts}) - 1

AddsUp(histories, initial, accounts) ==
  /\ \A a \in accounts :
       /\ histories[a] # <<>>
       /\ histories[a][1].balance = initial[a]
       /\ Closing(histories[a]).pending_in = 0
       /\ \A i \in DOMAIN histories[a] : histories[a][i].pending_in >= 0
  /\ \A time \in 0..Horizon(histories, accounts) :
       SumFunction([a \in accounts |->
                      At(histories[a], time).balance + At(histories[a], time).pending_in])
         = SumFunction([a \in accounts |-> initial[a]])
=============================================================================
