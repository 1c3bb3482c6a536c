---------------------------- MODULE MCProxyCall ----------------------------
(***************************************************************************)
(* Two calls of one user or of the operator in flight together, one retry, *)
(* a fallback model, usage of up to two units, charging switched on and    *)
(* off, and a balance that is unlimited, empty or smaller than an answer.  *)
(***************************************************************************)
EXTENDS ProxyCall, TLC

MCBalances == {-1, 1}

Symmetry == Permutations(Calls)
=============================================================================
