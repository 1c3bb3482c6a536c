------------------------------- MODULE Points -------------------------------
(***************************************************************************)
(* Points of the users (UserStore in users.py): a balance that a           *)
(* successful call lowers, the points spent over the account's life, and   *)
(* the ledger (points_log) with one row for each movement.                 *)
(*                                                                         *)
(* The ledger is kept as two sums for each user: what its "adjust" rows    *)
(* added and what its "deduct" rows removed.  set_points_balance writes no *)
(* row, so the ledger explains a balance from the last value set on.       *)
(*                                                                         *)
(* deduct_points changes the account and its ledger in one transaction,    *)
(* and does not roll back when the row cannot be written: the next commit  *)
(* of any operation makes the change of the account permanent.  add_points *)
(* uses two transactions, and the process may die between them.            *)
(***************************************************************************)
EXTENDS Integers

CONSTANTS
    Users,
    Balances,   \* what an operator sets
    Deltas,     \* what an operator adds or takes
    Amounts,    \* what a call costs
    MaxMoves    \* bound: movements in a behaviour

Unlimited == -1

ASSUME AmountsTyped ==
    /\ Balances \subseteq Nat \cup {Unlimited}
    /\ Deltas \subseteq Int /\ Amounts \subseteq Nat /\ MaxMoves \in Nat

VARIABLES
    known,      \* the users that exist
    balance,    \* points_balance
    spent,      \* points_spent
    adjusted,   \* sum of the deltas of the adjust rows
    deducted,   \* sum of what the deduct rows removed
    basis,      \* ghost: the balance set last, less the ledger at that moment
    torn,       \* ghost: users with a movement since then that has no row
    moves       \* counts up to MaxMoves

account == <<balance, spent, adjusted, deducted, basis, torn>>
pointsVars == <<known, account, moves>>

AtLeastZero(n) == IF n > 0 THEN n ELSE 0

-----------------------------------------------------------------------------
SetBalance(u, b) ==
    /\ u \in known
    /\ balance' = [balance EXCEPT ![u] = b]
    /\ basis' = [basis EXCEPT ![u] = b - (adjusted[u] - deducted[u])]
    /\ torn' = torn \ {u}
    /\ UNCHANGED <<known, spent, adjusted, deducted>>

\* An unlimited balance stays as it is and nothing is logged.
AddToUnlimited(u) == u \in known /\ balance[u] = Unlimited /\ UNCHANGED <<known, account>>

\* The row records what was really added: the balance stops at zero.
AddPoints(u, d) ==
    LET new == AtLeastZero(balance[u] + d)
    IN  /\ u \in known /\ balance[u] # Unlimited
        /\ balance' = [balance EXCEPT ![u] = new]
        /\ adjusted' = [adjusted EXCEPT ![u] = @ + new - balance[u]]
        /\ UNCHANGED <<known, spent, deducted, basis, torn>>

\* The process dies after the first commit of add_points.
AddPointsCut(u, d) ==
    /\ u \in known /\ balance[u] # Unlimited
    /\ balance' = [balance EXCEPT ![u] = AtLeastZero(@ + d)]
    /\ torn' = torn \cup {u}
    /\ UNCHANGED <<known, spent, adjusted, deducted, basis>>

DeductFromUnlimited(u, amount) ==
    /\ u \in known /\ balance[u] = Unlimited /\ amount > 0
    /\ spent' = [spent EXCEPT ![u] = @ + amount]
    /\ deducted' = [deducted EXCEPT ![u] = @ + amount]
    /\ UNCHANGED <<known, balance, adjusted, basis, torn>>

Removed_Whole(u, amount) == amount

\* What a deduction takes off a balance that is not unlimited.
Removed(u, amount) == IF amount <= balance[u] THEN amount ELSE AtLeastZero(balance[u])

DeductFromBalance_NotSpent(u, amount) ==
    /\ u \in known /\ balance[u] # Unlimited /\ amount > 0
    /\ balance' = [balance EXCEPT ![u] = AtLeastZero(@ - amount)]
    /\ deducted' = [deducted EXCEPT ![u] = @ + Removed(u, amount)]
    /\ UNCHANGED <<known, spent, adjusted, basis, torn>>

DeductFromBalance_NoFloor(u, amount) ==
    /\ u \in known /\ balance[u] # Unlimited /\ amount > 0
    /\ balance' = [balance EXCEPT ![u] = @ - amount]
    /\ spent' = [spent EXCEPT ![u] = @ + amount]
    /\ deducted' = [deducted EXCEPT ![u] = @ + Removed(u, amount)]
    /\ UNCHANGED <<known, adjusted, basis, torn>>

DeductFromBalance_RefusesOverdraft(u, amount) ==
    /\ u \in known /\ balance[u] # Unlimited /\ amount > 0
    /\ balance' = [balance EXCEPT ![u] = IF amount <= @ THEN @ - amount ELSE @]
    /\ spent' = [spent EXCEPT ![u] = @ + amount]
    /\ deducted' = [deducted EXCEPT ![u] = @ + IF amount <= balance[u] THEN amount ELSE 0]
    /\ UNCHANGED <<known, adjusted, basis, torn>>

DeductFromBalance(u, amount) ==
    /\ u \in known /\ balance[u] # Unlimited /\ amount > 0
    /\ balance' = [balance EXCEPT ![u] = AtLeastZero(@ - amount)]
    /\ spent' = [spent EXCEPT ![u] = @ + amount]
    /\ deducted' = [deducted EXCEPT ![u] = @ + Removed(u, amount)]
    /\ UNCHANGED <<known, adjusted, basis, torn>>

\* The INSERT of deduct_points fails: the UPDATE stays, without a row.  (A stop
\* before the next commit undoes it, and the call was not made.)
DeductUnlogged(u, amount) ==
    /\ u \in known /\ amount > 0
    /\ balance' = IF balance[u] = Unlimited THEN balance
                  ELSE [balance EXCEPT ![u] = AtLeastZero(@ - amount)]
    /\ spent' = [spent EXCEPT ![u] = @ + amount]
    /\ torn' = torn \cup {u}
    /\ UNCHANGED <<known, adjusted, deducted, basis>>

\* deduct_points: nothing is deducted from an unknown user or for no tokens.
Deduct(u, amount) ==
    \/ DeductFromUnlimited(u, amount)
    \/ DeductFromBalance(u, amount)
    \/ DeductUnlogged(u, amount)
    \/ (u \notin known \/ amount = 0) /\ UNCHANGED <<known, account>>

\* delete_user: the ledger goes with the user, and no id is given twice.
DeleteUser(u) ==
    /\ u \in known
    /\ known' = known \ {u}
    /\ UNCHANGED account

-----------------------------------------------------------------------------
PointsInit ==
    /\ known = Users
    /\ balance = [u \in Users |-> 0] /\ spent = [u \in Users |-> 0]
    /\ adjusted = [u \in Users |-> 0] /\ deducted = [u \in Users |-> 0]
    /\ basis = [u \in Users |-> 0] /\ torn = {}
    /\ moves = 0

\* What an operator does to the users.
Administer(u) ==
    \/ \E b \in Balances : SetBalance(u, b)
    \/ AddToUnlimited(u)
    \/ \E d \in Deltas : AddPoints(u, d)
    \/ DeleteUser(u)

PointsNext ==
    /\ moves < MaxMoves /\ moves' = moves + 1
    /\ \E u \in Users :
        \/ Administer(u)
        \/ \E d \in Deltas : AddPointsCut(u, d)
        \/ \E a \in Amounts : Deduct(u, a)

PointsSpec == PointsInit /\ [][PointsNext]_pointsVars

-----------------------------------------------------------------------------
PointsTypeOK ==
    /\ known \subseteq Users /\ torn \subseteq Users
    /\ balance \in [Users -> Nat \cup {Unlimited}]
    /\ spent \in [Users -> Nat] /\ deducted \in [Users -> Nat]
    /\ adjusted \in [Users -> Int] /\ basis \in [Users -> Int]
    /\ moves \in 0..MaxMoves

\* From the last value an operator set, the rows of the ledger add up to the
\* balance: adjustments cut off at zero and deductions larger than the balance
\* included.  A movement whose row a stop or a failed INSERT lost is excepted.
LedgerExplainsBalance ==
    \A u \in Users :
        balance[u] = Unlimited \/ u \in torn
            \/ balance[u] = basis[u] + adjusted[u] - deducted[u]

\* No deduction is in the ledger that was not counted as spent.
SpentCoversLedger == \A u \in Users : deducted[u] <= spent[u]

\* Points are spent without being paid for only by the call that empties the
\* balance: the difference between spent and the ledger grows in no other step,
\* except the one whose row could not be written, which touches no row at all.
ForgivenOnlyAtZero ==
    [][ \A u \in Users :
            spent'[u] - deducted'[u] > spent[u] - deducted[u] =>
                \/ balance'[u] = 0
                \/ u \in torn' /\ UNCHANGED <<adjusted, deducted>> ]_pointsVars
=============================================================================
