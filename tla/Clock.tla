------------------------------- MODULE Clock -------------------------------
(***************************************************************************)
(* The time that stored events are given and that expiry is judged by, in  *)
(* the ticks that tell two of them apart.                                  *)
(***************************************************************************)
EXTENDS Naturals

CONSTANT MaxTime   \* bound: the last tick

ASSUME ClockAssumption == MaxTime \in Nat \ {0}

VARIABLE now

ClockInit == now = 1

Tick == now < MaxTime /\ now' = now + 1
=============================================================================
