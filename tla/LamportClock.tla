---------------------------- MODULE LamportClock ----------------------------
(***************************************************************************)
(* The scalar clock of clock.c, the same file in lab 3 and lab 4.  A node   *)
(* keeps one logical_time; reading it (get_lamport_time) is no event, and   *)
(* only a send and the receipt of a complete frame move it.  The variable   *)
(* itself belongs to the module of the node that owns the clock.            *)
(***************************************************************************)
EXTENDS Integers

CONSTANT MaxClock   \* INT16_MAX, the largest timestamp_t

ASSUME MaxClockAssumption == MaxClock \in Nat \ {0}

Timestamp == 0..MaxClock

(* Mutant: a clock that is not checked before a send. *)
CanSend_Always(time) == TRUE

(* clock_send is fatal at the maximum, otherwise it returns the next tick. *)
CanSend(time) == time < MaxClock
ClockSend(time) == time + 1

(* clock_receive refuses a frame when either clock is at the maximum, and *)
(* otherwise moves past both.                                             *)
CanReceive(time, remote) == time < MaxClock /\ remote < MaxClock
ClockReceive(time, remote) == (IF remote > time THEN remote ELSE time) + 1
=============================================================================
