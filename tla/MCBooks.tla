------------------------------ MODULE MCBooks ------------------------------
(***************************************************************************)
(* The two books the gateway keeps, one at a time: `job` is drawn at the   *)
(* start, and the variables of the other one stay as they are.             *)
(*                                                                         *)
(* The monitor has three requests on two providers, a history of two       *)
(* entries so that it overflows, and one restart, orderly or not.  The     *)
(* points have two users and five movements: amounts below, at and above   *)
(* the balances and the adjustments, so that every floor at zero is        *)
(* reached.                                                                *)
(***************************************************************************)
EXTENDS Monitor, Points, TLC

VARIABLE job

Symmetry == Permutations(Rows) \cup Permutations(Providers)

MCBalances == {-1, 0, 2}
MCDeltas == {-3, 1, 2}

BooksInit == job \in {"monitor", "points"} /\ Init /\ PointsInit

BooksNext ==
    /\ UNCHANGED job
    /\ \/ job = "monitor" /\ Next /\ UNCHANGED pointsVars
       \/ job = "points" /\ PointsNext /\ UNCHANGED vars

BooksSpec == BooksInit /\ [][BooksNext]_<<job, vars, pointsVars>>
=============================================================================
