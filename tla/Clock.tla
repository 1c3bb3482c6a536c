------------------------------- MODULE Clock -------------------------------
(* Whole seconds up to a bound, for the components that read a clock. *)
EXTENDS Naturals

CONSTANT MaxTime  \* bound

ASSUME TimeAssumption == MaxTime \in Nat

VARIABLE now

Tick == now < MaxTime /\ now' = now + 1
=============================================================================
