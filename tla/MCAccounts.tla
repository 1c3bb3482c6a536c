----------------------------- MODULE MCAccounts -----------------------------
(***************************************************************************)
(* Two users, a key, two sessions (one that acts and one that should go),  *)
(* two passwords and two portal requests in flight.                        *)
(***************************************************************************)
EXTENDS Accounts, TLC

Symmetry ==
    Permutations(Users) \cup Permutations(Tokens) \cup Permutations(Passwords)
        \cup Permutations(Requests)
=============================================================================
