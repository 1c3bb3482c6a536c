---------------------------- MODULE PointsProofs ----------------------------
(***************************************************************************)
(* For every set of users, amounts and any number of movements: balances   *)
(* stay at or above zero (or unlimited), the ledger explains them, and     *)
(* what the ledger deducted was spent.                                     *)
(*                                                                         *)
(* The inductive invariant is the conjunction of the three.  Each movement *)
(* touches one user; the other users' accounts are unchanged.              *)
(***************************************************************************)
EXTENDS Points, TLAPS

PointsIInv == PointsTypeOK /\ LedgerExplainsBalance /\ SpentCoversLedger

-----------------------------------------------------------------------------
(* The helpers. *)

\* The floor at zero is a natural number, and changes nothing above zero.
LEMMA Floor ==
    ASSUME NEW n \in Int
    PROVE  AtLeastZero(n) \in Nat /\ (n >= 0 => AtLeastZero(n) = n)
  BY DEF AtLeastZero

\* What a deduction removes is part of the amount, and is what the balance
\* loses when it stops at zero.
LEMMA RemovedIsTaken ==
    ASSUME NEW u \in Users, NEW amount \in Nat, balance[u] \in Nat
    PROVE  /\ Removed(u, amount) \in Nat /\ Removed(u, amount) <= amount
           /\ AtLeastZero(balance[u] - amount) = balance[u] - Removed(u, amount)
           /\ Removed(u, amount) < amount => AtLeastZero(balance[u] - amount) = 0
  BY DEF Removed, AtLeastZero

-----------------------------------------------------------------------------
(* One lemma for each kind of movement. *)

\* An operator sets a balance: the ledger explains it from here on.
LEMMA SetBalanceIInv ==
    ASSUME PointsIInv, NEW u \in Users, NEW b \in Nat \cup {Unlimited}, SetBalance(u, b),
           moves' \in 0..MaxMoves
    PROVE  PointsIInv'
  <1>1. PointsTypeOK'
    BY DEF PointsIInv, PointsTypeOK, SetBalance, Unlimited
  <1>2. LedgerExplainsBalance'
    BY DEF PointsIInv, PointsTypeOK, SetBalance, LedgerExplainsBalance, Unlimited
  <1>3. SpentCoversLedger'
    BY DEF PointsIInv, SetBalance, SpentCoversLedger
  <1>4. QED
    BY <1>1, <1>2, <1>3 DEF PointsIInv

\* An adjustment and its row.
LEMMA AddPointsIInv ==
    ASSUME PointsIInv, NEW u \in Users, NEW d \in Int, AddPoints(u, d), moves' \in 0..MaxMoves
    PROVE  PointsIInv'
  <1> DEFINE new == AtLeastZero(balance[u] + d)
  <1>1. balance[u] \in Nat /\ adjusted[u] \in Int /\ deducted[u] \in Int /\ basis[u] \in Int
    BY DEF PointsIInv, PointsTypeOK, AddPoints
  <1>2. new \in Nat
    BY <1>1, Floor
  <1>3. /\ balance' = [balance EXCEPT ![u] = new]
        /\ adjusted' = [adjusted EXCEPT ![u] = adjusted[u] + new - balance[u]]
        /\ UNCHANGED <<known, spent, deducted, basis, torn>>
    BY DEF AddPoints
  <1> HIDE DEF new
  <1>4. PointsTypeOK'
    BY <1>1, <1>2, <1>3 DEF PointsIInv, PointsTypeOK
  <1>5. LedgerExplainsBalance'
    BY <1>1, <1>2, <1>3 DEF PointsIInv, PointsTypeOK, LedgerExplainsBalance, Unlimited
  <1>6. SpentCoversLedger'
    BY <1>3 DEF PointsIInv, SpentCoversLedger
  <1>7. QED
    BY <1>4, <1>5, <1>6 DEF PointsIInv

\* An adjustment whose row was lost: the user's balance is no longer explained.
LEMMA AddPointsCutIInv ==
    ASSUME PointsIInv, NEW u \in Users, NEW d \in Int, AddPointsCut(u, d), moves' \in 0..MaxMoves
    PROVE  PointsIInv'
  <1> DEFINE new == AtLeastZero(balance[u] + d)
  <1>1. new \in Nat
    <2>1. balance[u] + d \in Int
      BY DEF PointsIInv, PointsTypeOK, AddPointsCut
    <2>2. QED
      BY <2>1, Floor
  <1>2. /\ balance' = [balance EXCEPT ![u] = new] /\ torn' = torn \cup {u}
        /\ UNCHANGED <<known, spent, adjusted, deducted, basis>>
    BY DEF AddPointsCut
  <1> HIDE DEF new
  <1>3. PointsTypeOK'
    BY <1>1, <1>2 DEF PointsIInv, PointsTypeOK
  <1>4. LedgerExplainsBalance'
    BY <1>2 DEF PointsIInv, PointsTypeOK, LedgerExplainsBalance
  <1>5. SpentCoversLedger'
    BY <1>2 DEF PointsIInv, SpentCoversLedger
  <1>6. QED
    BY <1>3, <1>4, <1>5 DEF PointsIInv

\* A deduction, whatever the balance.
LEMMA DeductIInv ==
    ASSUME PointsIInv, NEW u \in Users, NEW amount \in Nat, Deduct(u, amount), moves' \in 0..MaxMoves
    PROVE  PointsIInv'
  <1>1. CASE DeductFromUnlimited(u, amount)
    <2>1. PointsTypeOK'
      BY <1>1 DEF PointsIInv, PointsTypeOK, DeductFromUnlimited
    <2>2. LedgerExplainsBalance'
      BY <1>1 DEF PointsIInv, PointsTypeOK, LedgerExplainsBalance, DeductFromUnlimited
    <2>3. SpentCoversLedger'
      BY <1>1 DEF PointsIInv, PointsTypeOK, SpentCoversLedger, DeductFromUnlimited
    <2>4. QED
      BY <2>1, <2>2, <2>3 DEF PointsIInv
  <1>2. CASE DeductFromBalance(u, amount)
    <2> DEFINE part == Removed(u, amount)
    <2>1. /\ balance[u] \in Nat /\ deducted[u] \in Nat /\ spent[u] \in Nat
          /\ adjusted[u] \in Int /\ basis[u] \in Int
      BY <1>2 DEF PointsIInv, PointsTypeOK, DeductFromBalance
    <2>2. /\ part \in Nat /\ part <= amount
          /\ AtLeastZero(balance[u] - amount) = balance[u] - part
      BY <2>1, RemovedIsTaken
    <2>3. balance[u] - part \in Nat
      BY <2>1, <2>2, Floor
    <2>4. /\ balance' = [balance EXCEPT ![u] = balance[u] - part]
          /\ spent' = [spent EXCEPT ![u] = spent[u] + amount]
          /\ deducted' = [deducted EXCEPT ![u] = deducted[u] + part]
          /\ UNCHANGED <<known, adjusted, basis, torn>>
      BY <1>2, <2>2 DEF DeductFromBalance
    <2> HIDE DEF part
    <2>5. PointsTypeOK'
      BY <2>1, <2>2, <2>3, <2>4 DEF PointsIInv, PointsTypeOK
    <2>6. LedgerExplainsBalance'
      BY <2>1, <2>2, <2>3, <2>4 DEF PointsIInv, PointsTypeOK, LedgerExplainsBalance, Unlimited
    <2>7. SpentCoversLedger'
      BY <2>1, <2>2, <2>4 DEF PointsIInv, PointsTypeOK, SpentCoversLedger
    <2>8. QED
      BY <2>5, <2>6, <2>7 DEF PointsIInv
  <1>3. CASE DeductUnlogged(u, amount)
    <2>1. balance' \in [Users -> Nat \cup {Unlimited}]
      <3>1. CASE balance[u] = Unlimited
        BY <1>3, <3>1 DEF PointsIInv, PointsTypeOK, DeductUnlogged
      <3>2. CASE balance[u] # Unlimited
        <4>1. AtLeastZero(balance[u] - amount) \in Nat
          BY <1>3, <3>2, Floor DEF PointsIInv, PointsTypeOK
        <4>2. balance' = [balance EXCEPT ![u] = AtLeastZero(balance[u] - amount)]
          BY <1>3, <3>2 DEF DeductUnlogged
        <4>3. QED
          BY <4>1, <4>2 DEF PointsIInv, PointsTypeOK
      <3>3. QED
        BY <3>1, <3>2
    <2>2. \A v \in Users : v # u => balance'[v] = balance[v]
      BY <1>3 DEF PointsIInv, PointsTypeOK, DeductUnlogged
    <2>3. /\ spent' = [spent EXCEPT ![u] = spent[u] + amount] /\ torn' = torn \cup {u}
          /\ UNCHANGED <<known, adjusted, deducted, basis>>
      BY <1>3 DEF DeductUnlogged
    <2>4. PointsTypeOK'
      BY <2>1, <2>3 DEF PointsIInv, PointsTypeOK
    <2>5. LedgerExplainsBalance'
      BY <2>2, <2>3 DEF PointsIInv, LedgerExplainsBalance
    <2>6. SpentCoversLedger'
      BY <2>3 DEF PointsIInv, PointsTypeOK, SpentCoversLedger
    <2>7. QED
      BY <2>4, <2>5, <2>6 DEF PointsIInv
  <1>4. CASE UNCHANGED <<known, account>>
    BY <1>4 DEF PointsIInv, PointsTypeOK, LedgerExplainsBalance, SpentCoversLedger, account
  <1>5. QED
    BY <1>1, <1>2, <1>3, <1>4 DEF Deduct

\* The invariant when no account changes.
LEMMA QuietIInv ==
    ASSUME PointsIInv, known' \subseteq known, UNCHANGED account, moves' \in 0..MaxMoves
    PROVE  PointsIInv'
  BY DEF PointsIInv, PointsTypeOK, LedgerExplainsBalance, SpentCoversLedger, account

\* Every movement keeps the invariant.
LEMMA PointsNextIInv == PointsIInv /\ [PointsNext]_pointsVars => PointsIInv'
  <1> SUFFICES ASSUME PointsIInv, [PointsNext]_pointsVars PROVE PointsIInv'
    OBVIOUS
  <1>1. CASE PointsNext
    <2>1. moves' \in 0..MaxMoves
      BY <1>1, AmountsTyped DEF PointsNext, PointsIInv, PointsTypeOK
    <2>2. ASSUME NEW u \in Users, NEW b \in Balances, SetBalance(u, b) PROVE PointsIInv'
      BY <2>1, <2>2, SetBalanceIInv, AmountsTyped
    <2>3. ASSUME NEW u \in Users, AddToUnlimited(u) \/ DeleteUser(u) PROVE PointsIInv'
      BY <2>1, <2>3, QuietIInv DEF AddToUnlimited, DeleteUser
    <2>4. ASSUME NEW u \in Users, NEW d \in Deltas, AddPoints(u, d) PROVE PointsIInv'
      BY <2>1, <2>4, AddPointsIInv, AmountsTyped
    <2>5. ASSUME NEW u \in Users, NEW d \in Deltas, AddPointsCut(u, d) PROVE PointsIInv'
      BY <2>1, <2>5, AddPointsCutIInv, AmountsTyped
    <2>6. ASSUME NEW u \in Users, NEW a \in Amounts, Deduct(u, a) PROVE PointsIInv'
      BY <2>1, <2>6, DeductIInv, AmountsTyped
    <2>7. QED
      BY <1>1, <2>2, <2>3, <2>4, <2>5, <2>6 DEF PointsNext, Administer
  <1>2. CASE UNCHANGED pointsVars
    BY <1>2 DEF pointsVars, account, PointsIInv, PointsTypeOK, LedgerExplainsBalance, SpentCoversLedger
  <1>3. QED
    BY <1>1, <1>2

-----------------------------------------------------------------------------
\* The inductive invariant holds in every behaviour.
THEOREM PointsInvariant == PointsSpec => []PointsIInv
  <1>1. PointsInit => PointsIInv
    BY AmountsTyped DEF PointsInit, PointsIInv, PointsTypeOK, LedgerExplainsBalance, SpentCoversLedger, Unlimited
  <1>2. QED
    BY <1>1, PointsNextIInv, PTL DEF PointsSpec

\* No balance is ever negative, except the one that means unlimited.
THEOREM PointsTyped == PointsSpec => []PointsTypeOK
  <1>1. PointsIInv => PointsTypeOK
    BY DEF PointsIInv
  <1>2. QED
    BY <1>1, PointsInvariant, PTL

\* The rows since the last set balance add up to the balance.
THEOREM LedgerExact == PointsSpec => []LedgerExplainsBalance
  <1>1. PointsIInv => LedgerExplainsBalance
    BY DEF PointsIInv
  <1>2. QED
    BY <1>1, PointsInvariant, PTL

\* Whatever the ledger deducted was counted as spent.
THEOREM SpentCovers == PointsSpec => []SpentCoversLedger
  <1>1. PointsIInv => SpentCoversLedger
    BY DEF PointsIInv
  <1>2. QED
    BY <1>1, PointsInvariant, PTL

-----------------------------------------------------------------------------
Forgives ==
    \A u \in Users :
        spent'[u] - deducted'[u] > spent[u] - deducted[u] =>
            \/ balance'[u] = 0
            \/ u \in torn' /\ UNCHANGED <<adjusted, deducted>>

\* Steps that leave the spent and deducted points alone forgive nothing.
LEMMA NothingSpent ==
    ASSUME PointsIInv, UNCHANGED <<spent, deducted>>
    PROVE  Forgives
  BY DEF Forgives, PointsIInv, PointsTypeOK

\* A deduction forgives only what an emptied balance could not pay.
LEMMA DeductForgives ==
    ASSUME PointsIInv, NEW u \in Users, NEW amount \in Nat, Deduct(u, amount)
    PROVE  Forgives
  <1>1. CASE DeductFromUnlimited(u, amount)
    BY <1>1 DEF DeductFromUnlimited, Forgives, PointsIInv, PointsTypeOK
  <1>2. CASE DeductFromBalance(u, amount)
    <2> DEFINE part == Removed(u, amount)
               left == AtLeastZero(balance[u] - amount)
    <2>1. balance[u] \in Nat
      BY <1>2 DEF PointsIInv, PointsTypeOK, DeductFromBalance
    <2>2. part \in Nat /\ part <= amount /\ (part < amount => left = 0)
      BY <2>1, RemovedIsTaken
    <2>3. /\ balance' = [balance EXCEPT ![u] = left]
          /\ spent' = [spent EXCEPT ![u] = spent[u] + amount]
          /\ deducted' = [deducted EXCEPT ![u] = deducted[u] + part]
      BY <1>2 DEF DeductFromBalance
    <2> HIDE DEF part, left
    <2>4. QED
      BY <2>2, <2>3 DEF Forgives, PointsIInv, PointsTypeOK
  <1>3. CASE DeductUnlogged(u, amount)
    <2>1. \A v \in Users : v # u => spent'[v] = spent[v]
      BY <1>3 DEF DeductUnlogged, PointsIInv, PointsTypeOK
    <2>2. u \in torn' /\ UNCHANGED <<adjusted, deducted>>
      BY <1>3 DEF DeductUnlogged
    <2>3. QED
      BY <2>1, <2>2 DEF Forgives, PointsIInv, PointsTypeOK
  <1>4. CASE UNCHANGED <<known, account>>
    BY <1>4, NothingSpent DEF account
  <1>5. QED
    BY <1>1, <1>2, <1>3, <1>4 DEF Deduct

\* Points go unpaid only in the step that empties the balance.
THEOREM ForgivenAtZero == PointsSpec => ForgivenOnlyAtZero
  <1>1. ASSUME PointsIInv, [PointsNext]_pointsVars PROVE Forgives
    <2>1. ASSUME NEW u \in Users, Administer(u) PROVE Forgives
      BY <1>1, <2>1, NothingSpent
         DEF Administer, SetBalance, AddToUnlimited, AddPoints, DeleteUser, account
    <2>2. ASSUME NEW u \in Users, NEW d \in Deltas, AddPointsCut(u, d) PROVE Forgives
      BY <1>1, <2>2, NothingSpent DEF AddPointsCut
    <2>3. ASSUME NEW u \in Users, NEW a \in Amounts, Deduct(u, a) PROVE Forgives
      BY <1>1, <2>3, DeductForgives, AmountsTyped
    <2>4. CASE UNCHANGED pointsVars
      BY <1>1, <2>4, NothingSpent DEF pointsVars, account
    <2>5. QED
      BY <1>1, <2>1, <2>2, <2>3, <2>4 DEF PointsNext
  <1>2. PointsIInv /\ [PointsNext]_pointsVars => [Forgives]_pointsVars
    BY <1>1
  <1>3. QED
    BY <1>2, PointsInvariant, PTL DEF PointsSpec, ForgivenOnlyAtZero, Forgives
=============================================================================
