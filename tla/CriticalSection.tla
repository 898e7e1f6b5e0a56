-------------------------- MODULE CriticalSection ---------------------------
(***************************************************************************)
(* What request_cs and release_cs promise, without messages or clocks: the *)
(* workers enter one at a time, in the order of their claims.  A claim is  *)
(* a number, and two equal claims are ordered by the workers' ids.         *)
(* Pa4Mutex is shown to implement it (ImplementsCriticalSection).          *)
(*                                                                         *)
(* A worker that stops inside, or while it waits, never withdraws its      *)
(* claim, so nobody with a later claim enters after it.                    *)
(***************************************************************************)
EXTENDS Integers

CONSTANTS
  Worker,   \* the workers, by their ids (natural numbers)
  Number    \* what a claim can be (natural numbers)

VARIABLES
  claim,   \* claim[w]: the number w wants to enter with, or NoClaim
  inside   \* the workers in the critical section

csVars == <<claim, inside>>

NoClaim == -1
Claiming(w) == claim[w] # NoClaim

Before(v, w) ==
  \/ claim[v] < claim[w]
  \/ claim[v] = claim[w] /\ v < w

CsInit ==
  /\ claim = [w \in Worker |-> NoClaim]
  /\ inside = {}

(* A claim that comes after every claim already honoured. *)
Claim(w) ==
  /\ ~Claiming(w)
  /\ \E number \in Number : claim' = [claim EXCEPT ![w] = number]
  /\ \A v \in inside : Before(v, w)'
  /\ inside' = inside

Enter(w) ==
  /\ Claiming(w)
  /\ \A v \in Worker \ {w} : Claiming(v) => Before(w, v)
  /\ inside' = inside \cup {w}
  /\ claim' = claim

Leave(w) ==
  /\ w \in inside
  /\ inside' = inside \ {w}
  /\ claim' = [claim EXCEPT ![w] = NoClaim]

Stop(w) ==
  /\ w \in inside
  /\ inside' = inside \ {w}
  /\ claim' = claim

CsNext == \E w \in Worker : Claim(w) \/ Enter(w) \/ Leave(w) \/ Stop(w)

CsSpec == CsInit /\ [][CsNext]_csVars
=============================================================================
