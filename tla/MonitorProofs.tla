--------------------------- MODULE MonitorProofs ---------------------------
(***************************************************************************)
(* For every number of requests, providers and restarts: the active        *)
(* counters are the sizes of the in-flight tables, and the totals in the   *)
(* database are never ahead of memory and complete whenever nothing is     *)
(* marked dirty, unless a clear or a load went wrong.                      *)
(*                                                                         *)
(* The inductive invariant is the conjunction of TypeOK, ActiveAccounting  *)
(* and SavedTracksMemory.  Less, the max(0, n - 1) of the code, is the     *)
(* subtraction only where the counter is known to be positive, which is    *)
(* what ActiveAccounting says whenever a row is found open.                *)
(***************************************************************************)
EXTENDS Monitor, FoldTheorems, SequenceTheorems

IInv == TypeOK /\ ActiveAccounting /\ SavedTracksMemory

-----------------------------------------------------------------------------
(* The sets the counters stand for. *)

\* Every set of rows is finite and its size is a natural number.
LEMMA RowSets ==
    ASSUME NEW S \in SUBSET Rows
    PROVE  IsFiniteSet(S) /\ Cardinality(S) \in Nat
  BY RowsFinite, FS_Subset, FS_CardinalityType

\* Counting a row that joins.
LEMMA RowAdded ==
    ASSUME NEW S \in SUBSET Rows, NEW x, x \notin S
    PROVE  Cardinality(S \cup {x}) = Cardinality(S) + 1
  BY RowSets, FS_AddElement

\* Counting a row that leaves: it was counted, so the counter is positive and
\* Less is the subtraction of one.
LEMMA RowRemoved ==
    ASSUME NEW S \in SUBSET Rows, NEW x \in S
    PROVE  Cardinality(S \ {x}) = Less(Cardinality(S))
  <1>1. IsFiniteSet(S) /\ Cardinality(S) \in Nat
    BY RowSets
  <1>2. Cardinality(S) # 0
    BY <1>1, FS_EmptySet
  <1>3. Cardinality(S \ {x}) = Cardinality(S) - 1
    BY <1>1, FS_RemoveElement
  <1>4. QED
    BY <1>1, <1>2, <1>3 DEF Less

\* No row, nothing counted.
LEMMA NoRows == Cardinality({}) = 0
  BY FS_EmptySet

\* Appending an outcome to the bounded history yields a history again.
LEMMA HistoryTyped ==
    ASSUME NEW h \in Seq(Outcomes), NEW o \in Outcomes
    PROVE  LastOf(Append(h, o)) \in Seq(Outcomes)
  <1> DEFINE s == Append(h, o)
  <1>1. s \in Seq(Outcomes) /\ Len(s) \in Nat
    OBVIOUS
  <1>2. CASE Len(s) <= HistorySize
    BY <1>1, <1>2 DEF LastOf
  <1>3. CASE ~(Len(s) <= HistorySize)
    <2>1. Len(s) - HistorySize + 1 \in 1..(Len(s) + 1)
      BY <1>1, <1>3, NumbersTyped
    <2>2. SubSeq(s, Len(s) - HistorySize + 1, Len(s)) \in Seq(Outcomes)
      BY <1>1, <2>1, NumbersTyped, SubSeqProperties
    <2>3. QED
      BY <1>3, <2>2 DEF LastOf
  <1>4. QED
    BY <1>2, <1>3

-----------------------------------------------------------------------------
(* The store.  TypeOK in two parts: the Booleans of the store go to Zenon,   *)
(* the numbers to the SMT solver.                                           *)

StoreTyped == saved \in Totals /\ dirty \in BOOLEAN /\ throttled \in BOOLEAN /\ rewritten \in BOOLEAN

CountsTyped ==
    /\ open \subseteq Rows \ fresh /\ fresh \subseteq Rows
    /\ callers \subseteq Rows \ fresh
    /\ stale \subseteq open
    /\ victims \subseteq Rows \ fresh
    /\ provider \in [Rows -> Providers]
    /\ stats \in [Providers -> [active : Nat, total : Nat, errors : Nat, tokens : Nat]]
    /\ active \in Nat
    /\ all \in Totals /\ base \in Totals
    /\ history \in Seq(Outcomes)
    /\ restarts \in 0..MaxRestarts /\ carried \in Nat

\* The two parts are the type invariant.
LEMMA TypeParts == TypeOK <=> StoreTyped /\ CountsTyped
  BY Zenon DEF TypeOK, StoreTyped, CountsTyped


\* A debounced write of totals that grew keeps the database behind memory, and
\* marks the totals dirty unless it wrote them.
LEMMA PersistTracks ==
    ASSUME StoreTyped, all \in Totals, SavedTracksMemory,
           NEW totals \in Totals,
           totals.requests = all.requests,
           totals.errors >= all.errors, totals.tokens >= all.tokens,
           Persist(totals), all' = totals
    PROVE  StoreTyped' /\ SavedTracksMemory'
  <1>1. CASE throttled
    BY <1>1 DEF Persist, StoreTyped, SavedTracksMemory, Totals
  <1>2. CASE ~throttled
    <2>1. Write(totals, rewritten)
      BY <1>2 DEF Persist
    <2>2. CASE /\ saved' = totals
               /\ dirty' = FALSE /\ throttled' = TRUE /\ rewritten' = FALSE
      <3>1. StoreTyped'
        BY <2>2, Zenon DEF StoreTyped
      <3>2. totals.requests <= totals.requests
        BY DEF Totals
      <3>3. QED
        BY <2>2, <3>1, <3>2 DEF SavedTracksMemory, Totals
    <2>3. CASE dirty' = TRUE /\ rewritten' = rewritten /\ UNCHANGED <<saved, throttled>>
      <3>1. StoreTyped'
        BY <2>3, Zenon DEF StoreTyped
      <3>2. QED
        BY <2>3, <3>1 DEF SavedTracksMemory, StoreTyped, Totals
    <2>4. QED
      BY <2>1, <2>2, <2>3 DEF Write
  <1>3. QED
    BY <1>1, <1>2

-----------------------------------------------------------------------------
(* One lemma for each kind of step. *)

\* Everything the invariant says when no counter and no row changes.
LEMMA QuietStep ==
    ASSUME IInv, UNCHANGED <<fresh, open, provider, countVars>>,
           callers' \subseteq callers, stale' \subseteq open,
           victims' \subseteq victims \cup stale,
           StoreTyped', SavedTracksMemory', UNCHANGED ghostVars
    PROVE  IInv'
  BY DEF IInv, TypeOK, ActiveAccounting, RowsOf, StoreTyped, countVars, ghostVars

\* begin opens a row that was not used before.
LEMMA BeginIInv ==
    ASSUME IInv, NEW x \in Rows, NEW p \in Providers, Begin(x, p)
    PROVE  IInv'
  <1> USE DEF IInv
  <1>0. /\ x \in fresh /\ x \notin open /\ open \in SUBSET Rows
        /\ open' = open \cup {x} /\ fresh' = fresh \ {x}
        /\ provider' = [provider EXCEPT ![x] = p]
    BY DEF Begin, TypeOK
  <1>1. TypeOK'
    <2>1. StoreTyped'
      BY TypeParts, Zenon DEF Begin, storeVars, StoreTyped
    <2>2. CountsTyped
      BY TypeParts
    <2>3. all' \in Totals
      <3>1. all \in Totals /\ all' = [all EXCEPT !.requests = all.requests + 1]
        BY <2>2, Zenon DEF Begin, CountsTyped
      <3>2. QED
        BY <3>1 DEF Totals
    <2>4. stats' \in [Providers -> [active : Nat, total : Nat, errors : Nat, tokens : Nat]]
      <3>1. stats \in [Providers -> [active : Nat, total : Nat, errors : Nat, tokens : Nat]]
        BY <2>2, Zenon DEF CountsTyped
      <3>2. stats' = [stats EXCEPT ![p] = [stats[p] EXCEPT !.active = stats[p].active + 1]]
        BY DEF Begin
      <3>3. [stats[p] EXCEPT !.active = stats[p].active + 1]
                \in [active : Nat, total : Nat, errors : Nat, tokens : Nat]
        BY <3>1
      <3>4. QED
        BY <3>1, <3>2, <3>3
    <2>5. CountsTyped'
      <3>1. active' \in Nat /\ open' \subseteq Rows \ fresh' /\ callers' \subseteq Rows \ fresh'
        BY <2>2 DEF Begin, CountsTyped
      <3>2. provider' \in [Rows -> Providers]
        BY <2>2 DEF Begin, CountsTyped
      <3>3. stale' \subseteq open' /\ victims' \subseteq Rows \ fresh' /\ fresh' \subseteq Rows
        BY <2>2 DEF Begin, CountsTyped
      <3>4. QED
        BY <2>2, <2>3, <2>4, <3>1, <3>2, <3>3, Zenon DEF Begin, CountsTyped, ghostVars
    <2>6. QED
      BY <2>1, <2>5, Zenon DEF TypeOK, StoreTyped, CountsTyped
  <1>2. active' = Cardinality(open')
    BY <1>0, RowAdded DEF Begin, ActiveAccounting
  <1>3. ASSUME NEW q \in Providers
        PROVE  stats'[q].active = Cardinality(RowsOf(q)')
    <2>1. x \notin RowsOf(q) /\ RowsOf(q) \in SUBSET Rows
      BY <1>0 DEF RowsOf
    <2>2. CASE q = p
      <3>1. RowsOf(q)' = RowsOf(q) \cup {x}
        BY <1>0, <2>2 DEF RowsOf, TypeOK
      <3>2. stats'[q].active = stats[q].active + 1
        BY <2>2 DEF Begin, TypeOK
      <3>3. QED
        BY <2>1, <3>1, <3>2, RowAdded DEF ActiveAccounting
    <2>3. CASE q # p
      <3>1. RowsOf(q)' = RowsOf(q)
        BY <1>0, <2>3 DEF RowsOf, TypeOK
      <3>2. stats'[q] = stats[q]
        BY <2>3 DEF Begin, TypeOK
      <3>3. QED
        BY <3>1, <3>2 DEF ActiveAccounting
    <2>4. QED
      BY <2>2, <2>3
  <1>4. SavedTracksMemory'
    BY DEF Begin, SavedTracksMemory, TypeOK, Totals, storeVars
  <1>5. QED
    BY <1>1, <1>2, <1>3, <1>4 DEF ActiveAccounting

\* Completing an open row keeps the invariant, whoever ends it.
LEMMA CompleteIInv ==
    ASSUME IInv, NEW x \in open, NEW o \in Outcomes, NEW t \in Nat, Complete(x, o, t),
           callers' \subseteq callers, victims' \subseteq victims,
           UNCHANGED <<fresh, provider, ghostVars>>
    PROVE  IInv'
  <1> USE DEF IInv
  <1> DEFINE pr == provider[x]
             totals == [all EXCEPT !.errors = @ + ErrorsIn(o), !.tokens = @ + t]
  <1>0. /\ x \in Rows /\ pr \in Providers /\ open \in SUBSET Rows
        /\ open' = open \ {x} /\ stale' = stale \ {x}
        /\ ErrorsIn(o) \in Nat /\ all \in Totals
    BY DEF TypeOK, Complete, ErrorsIn
  <1>1. /\ totals \in Totals /\ all' = totals /\ Persist(totals)
        /\ totals.requests = all.requests
        /\ totals.errors >= all.errors /\ totals.tokens >= all.tokens
    <2> HIDE DEF totals
    <2>1. totals = [all EXCEPT !.errors = all.errors + ErrorsIn(o), !.tokens = all.tokens + t]
      BY DEF totals
    <2>2. /\ totals \in Totals /\ totals.requests = all.requests
          /\ totals.errors >= all.errors /\ totals.tokens >= all.tokens
      <3>1. all.errors \in Nat /\ all.tokens \in Nat /\ ErrorsIn(o) \in Nat
        BY <1>0 DEF Totals
      <3>2. /\ totals.requests = all.requests
            /\ totals.errors = all.errors + ErrorsIn(o) /\ totals.tokens = all.tokens + t
        BY <1>0, <2>1 DEF Totals
      <3>3. totals \in Totals
        <4>1. all.errors + ErrorsIn(o) \in Nat /\ all.tokens + t \in Nat
          BY <3>1
        <4>2. QED
          BY <1>0, <2>1, <4>1 DEF Totals
      <3>4. QED
        BY <3>1, <3>2, <3>3
    <2>3. all' = totals /\ Persist(totals)
      BY Zenon DEF Complete, totals
    <2>4. QED
      BY <2>2, <2>3
  <1>2. StoreTyped' /\ SavedTracksMemory'
    <2> HIDE DEF totals
    <2>1. StoreTyped
      BY DEF StoreTyped, TypeOK
    <2>2. QED
      BY <1>0, <1>1, <2>1, PersistTracks
  <1>3. /\ stats' \in [Providers -> [active : Nat, total : Nat, errors : Nat, tokens : Nat]]
        /\ stats'[pr].active = Less(stats[pr].active)
        /\ \A q \in Providers : q # pr => stats'[q] = stats[q]
    <2>1. \A n \in Nat : Less(n) \in Nat
      BY DEF Less
    <2>2. stats' = [stats EXCEPT ![pr] =
              [active |-> Less(stats[pr].active), total |-> stats[pr].total + 1,
               errors |-> stats[pr].errors + ErrorsIn(o), tokens |-> stats[pr].tokens + t]]
      BY Zenon DEF Complete
    <2>3. stats \in [Providers -> [active : Nat, total : Nat, errors : Nat, tokens : Nat]]
      BY DEF TypeOK
    <2>4. QED
      BY <1>0, <2>1, <2>2, <2>3
  <1>4. active' = Cardinality(open')
    BY <1>0, RowRemoved DEF Complete, ActiveAccounting
  <1>5. ASSUME NEW q \in Providers
        PROVE  stats'[q].active = Cardinality(RowsOf(q)')
    <2>1. RowsOf(q) \in SUBSET Rows
      BY <1>0 DEF RowsOf
    <2>2. CASE q = pr
      <3>1. x \in RowsOf(q) /\ RowsOf(q)' = RowsOf(q) \ {x}
        BY <1>0, <2>2 DEF RowsOf
      <3>2. QED
        BY <1>3, <2>1, <2>2, <3>1, RowRemoved DEF ActiveAccounting
    <2>3. CASE q # pr
      <3>1. RowsOf(q)' = RowsOf(q)
        BY <1>0, <2>3 DEF RowsOf
      <3>2. QED
        BY <1>3, <2>3, <3>1 DEF ActiveAccounting
    <2>4. QED
      BY <2>2, <2>3
  <1>6. active' \in Nat
    <2>1. open' \in SUBSET Rows
      BY <1>0
    <2>2. QED
      BY <1>4, <2>1, RowSets
  <1>7. history' \in Seq(Outcomes)
    BY HistoryTyped DEF Complete, TypeOK
  <1>8. TypeOK'
    BY <1>0, <1>1, <1>2, <1>3, <1>6, <1>7 DEF TypeOK, StoreTyped, ghostVars
  <1>9. QED
    BY <1>2, <1>4, <1>5, <1>8 DEF ActiveAccounting

\* Ending a row that is gone changes nothing the invariant speaks of.
LEMMA AlreadyEndedIInv ==
    ASSUME IInv, NEW x, AlreadyEnded(x),
           callers' \subseteq callers, victims' \subseteq victims,
           UNCHANGED <<fresh, provider, ghostVars>>
    PROVE  IInv'
  <1>1. StoreTyped' /\ SavedTracksMemory'
    BY DEF IInv, TypeOK, AlreadyEnded, StoreTyped, SavedTracksMemory, storeVars, countVars
  <1>2. QED
    BY <1>1, QuietStep DEF AlreadyEnded, IInv, TypeOK

\* clear_stats zeroes the totals but leaves the open rows counted as active.
LEMMA ClearIInv ==
    ASSUME IInv, ClearStats
    PROVE  IInv'
  <1> USE DEF IInv
  <1>1. open' = open /\ provider' = provider /\ active' = active /\ open \in SUBSET Rows
    BY DEF ClearStats, rowVars, TypeOK
  <1>2. \A p \in Providers : stats'[p].active = stats[p].active
    BY DEF ClearStats, Cleared, TypeOK
  <1>3. ActiveAccounting'
    BY <1>1, <1>2 DEF ActiveAccounting, RowsOf
  <1>4. SavedTracksMemory' /\ StoreTyped'
    <2>1. Zero \in Totals /\ all' = Zero /\ StoreTyped
      BY TypeParts DEF ClearStats, Totals, Zero
    <2>2. CASE /\ saved' = Zero
               /\ dirty' = FALSE /\ throttled' = TRUE /\ rewritten' = FALSE
      <3>1. StoreTyped'
        BY <2>1, <2>2, Zenon DEF StoreTyped
      <3>2. QED
        BY <2>1, <2>2, <3>1 DEF SavedTracksMemory, Totals
    <2>3. CASE dirty' = TRUE /\ rewritten' = TRUE /\ UNCHANGED <<saved, throttled>>
      BY <2>1, <2>3, Zenon DEF StoreTyped, SavedTracksMemory
    <2>4. QED
      BY <2>2, <2>3 DEF ClearStats, Write
  <1>5. stats' \in [Providers -> [active : Nat, total : Nat, errors : Nat, tokens : Nat]]
    BY DEF ClearStats, Cleared, TypeOK
  <1>6. TypeOK'
    <2>1. CountsTyped /\ Zero \in Totals
      BY TypeParts DEF Zero, Totals
    <2>2. all' = Zero /\ base' = Zero /\ history' = <<>> /\ carried' \in Nat
      BY <1>1, RowSets DEF ClearStats
    <2>3. CountsTyped'
      BY <1>5, <2>1, <2>2 DEF ClearStats, CountsTyped, rowVars
    <2>4. QED
      BY <1>4, <2>3, Zenon DEF TypeOK, StoreTyped, CountsTyped
  <1>7. QED
    BY <1>3, <1>4, <1>6

\* A new process starts with nothing open and with totals that are the
\* database's, unless the load failed.
LEMMA StartIInv ==
    ASSUME IInv, NEW found \in Totals, NEW loaded \in BOOLEAN, Start(found, loaded),
           saved' = found
    PROVE  IInv'
  <1> USE DEF IInv
  <1>1. all' \in Totals /\ all' = IF loaded THEN found ELSE Zero
    BY DEF Start, Totals, Zero
  <1>2. TypeOK'
    <2>1. dirty' = FALSE /\ throttled' = TRUE /\ rewritten' = ~loaded
      BY DEF Start
    <2>2. StoreTyped'
      BY <2>1, Zenon DEF StoreTyped
    <2>3. CountsTyped'
      <3>1. CountsTyped
        BY TypeParts
      <3>2. restarts' \in 0..MaxRestarts /\ active' \in Nat /\ carried' \in Nat
        BY <3>1, NumbersTyped DEF Start, CountsTyped
      <3>3. stats' \in [Providers -> [active : Nat, total : Nat, errors : Nat, tokens : Nat]]
        BY DEF Start
      <3>4. history' \in Seq(Outcomes)
        BY DEF Start
      <3>5. base' \in Totals /\ all' \in Totals
        BY <1>1, Zenon DEF Start
      <3>6. /\ open' = {} /\ callers' = {} /\ stale' = {} /\ victims' = {}
            /\ fresh' = fresh /\ provider' = provider
        BY DEF Start
      <3>7. QED
        BY <3>1, <3>2, <3>3, <3>4, <3>5, <3>6 DEF CountsTyped
    <2>4. QED
      BY <2>2, <2>3, Zenon DEF TypeOK, StoreTyped, CountsTyped
  <1>3. ActiveAccounting'
    <2>1. active' = 0 /\ open' = {} /\ \A p \in Providers : stats'[p].active = 0
      BY DEF Start
    <2>2. \A p \in Providers : RowsOf(p)' = {}
      BY <2>1 DEF RowsOf
    <2>3. QED
      BY <2>1, <2>2, NoRows DEF ActiveAccounting
  <1>4. SavedTracksMemory'
    <2>1. CASE loaded
      <3>1. all' = found /\ saved' = found
        BY <1>1, <2>1
      <3>2. QED
        BY <3>1 DEF SavedTracksMemory, Totals
    <2>2. CASE ~loaded
      <3>1. rewritten'
        BY <2>2 DEF Start
      <3>2. QED
        BY <3>1 DEF SavedTracksMemory
    <2>3. QED
      BY <2>1, <2>2
  <1>5. QED
    BY <1>2, <1>3, <1>4

\* The invariant holds when the process first starts.
LEMMA InitIInv == Init => IInv
  <1> SUFFICES ASSUME Init PROVE IInv
    OBVIOUS
  <1>1. TypeOK
    <2>1. Zero \in Totals
      BY DEF Zero, Totals
    <2>2. StoreTyped
      BY <2>1, Zenon DEF Init, StoreTyped
    <2>3. CountsTyped
      BY <2>1, NumbersTyped DEF Init, CountsTyped
    <2>4. QED
      BY <2>2, <2>3, Zenon DEF TypeOK, StoreTyped, CountsTyped
  <1>2. ActiveAccounting
    <2>1. open = {} /\ \A p \in Providers : RowsOf(p) = {}
      BY DEF Init, RowsOf
    <2>2. QED
      BY <2>1, NoRows DEF Init, ActiveAccounting
  <1>3. SavedTracksMemory
    BY DEF Init, SavedTracksMemory, Zero
  <1>4. QED
    BY <1>1, <1>2, <1>3 DEF IInv

\* Every step keeps the invariant.
LEMMA NextIInv == IInv /\ [Next]_vars => IInv'
  <1> SUFFICES ASSUME IInv, [Next]_vars PROVE IInv'
    OBVIOUS
  <1>0. SavedTracksMemory /\ StoreTyped /\ all \in Totals /\ saved \in Totals
    BY DEF IInv, TypeOK, StoreTyped
  <1>1. ASSUME NEW x \in Rows, NEW p \in Providers, Begin(x, p)
        PROVE  IInv'
    BY <1>1, BeginIInv
  <1>2. ASSUME NEW x \in Rows, NEW o \in Outcomes, NEW t \in TokenCounts, End(x, o, t)
        PROVE  IInv'
    <2>1. CASE x \in open /\ Complete(x, o, t)
      BY <1>2, <2>1, CompleteIInv, NumbersTyped DEF End
    <2>2. CASE AlreadyEnded(x)
      BY <1>2, <2>2, AlreadyEndedIInv DEF End
    <2>3. QED
      BY <1>2, <2>1, <2>2 DEF End
  <1>3. ASSUME NEW x \in Rows, GrowsOld(x)
        PROVE  IInv'
    <2>1. StoreTyped' /\ SavedTracksMemory'
      BY <1>0, <1>3 DEF GrowsOld, StoreTyped, SavedTracksMemory, storeVars, countVars
    <2>2. QED
      BY <1>3, <2>1, QuietStep DEF GrowsOld, IInv, TypeOK
  <1>4. ASSUME NEW x \in Rows, SweepEnd(x)
        PROVE  IInv'
    <2>1. CASE x \in open /\ Complete(x, "cancelled", 0)
      BY <1>4, <2>1, CompleteIInv DEF SweepEnd, Outcomes
    <2>2. CASE AlreadyEnded(x)
      BY <1>4, <2>2, AlreadyEndedIInv DEF SweepEnd
    <2>3. QED
      BY <1>4, <2>1, <2>2 DEF SweepEnd
  <1>5. CASE SweepCollect
    <2>1. StoreTyped' /\ SavedTracksMemory'
      BY <1>0, <1>5 DEF SweepCollect, StoreTyped, SavedTracksMemory, storeVars, countVars
    <2>2. QED
      BY <1>5, <2>1, QuietStep DEF SweepCollect, IInv, TypeOK
  <1>6. CASE IntervalPasses
    <2>1. StoreTyped' /\ SavedTracksMemory'
      BY <1>0, <1>6 DEF IntervalPasses, StoreTyped, SavedTracksMemory, countVars
    <2>2. QED
      BY <1>6, <2>1, QuietStep DEF IntervalPasses, rowVars, IInv, TypeOK
  <1>7. CASE ClearStats
    BY <1>7, ClearIInv
  <1>8. ASSUME NEW loaded \in BOOLEAN, Crash(loaded) \/ Shutdown(loaded)
        PROVE  IInv'
    BY <1>0, <1>8, StartIInv DEF Crash, Shutdown
  <1>9. CASE UNCHANGED vars
    BY <1>9 DEF vars, rowVars, countVars, storeVars, ghostVars, IInv, TypeOK,
                ActiveAccounting, RowsOf, SavedTracksMemory
  <1>10. QED
    BY <1>1, <1>2, <1>3, <1>4, <1>5, <1>6, <1>7, <1>8, <1>9 DEF Next, Step

-----------------------------------------------------------------------------
\* The inductive invariant holds in every behaviour of the monitor.
THEOREM InvariantHolds == SafeSpec => []IInv
  BY InitIInv, NextIInv, PTL DEF SafeSpec

\* Type correctness.
THEOREM TypeCorrect == SafeSpec => []TypeOK
  <1>1. IInv => TypeOK
    BY DEF IInv
  <1>2. QED
    BY <1>1, InvariantHolds, PTL

\* The active counters are the in-flight rows, whatever callers, sweeps, clears
\* and restarts do: no row is released twice, none is forgotten.
THEOREM ActiveExact == SafeSpec => []ActiveAccounting
  <1>1. IInv => ActiveAccounting
    BY DEF IInv
  <1>2. QED
    BY <1>1, InvariantHolds, PTL

\* The database is never ahead of memory and is complete when nothing is dirty,
\* unless a clear could not be written or the totals could not be read.
THEOREM SavedTracks == SafeSpec => []SavedTracksMemory
  <1>1. IInv => SavedTracksMemory
    BY DEF IInv
  <1>2. QED
    BY <1>1, InvariantHolds, PTL
-----------------------------------------------------------------------------
(* What a write may do to the database. *)

Kept == rewritten \/ saved' = Zero \/ \A k \in DOMAIN saved : saved'[k] >= saved[k]

\* Writing totals that are no smaller than those in memory loses nothing.
LEMMA WriteKeeps ==
    ASSUME IInv, NEW totals \in Totals,
           totals.requests >= all.requests,
           totals.errors >= all.errors, totals.tokens >= all.tokens,
           saved' \in {saved, totals}
    PROVE  Kept
  <1>1. saved \in Totals /\ all \in Totals
    BY DEF IInv, TypeOK
  <1>2. CASE saved' = saved
    <2>1. DOMAIN saved = {"requests", "errors", "tokens"}
      BY <1>1 DEF Totals
    <2>2. /\ saved.requests >= saved.requests
          /\ saved.errors >= saved.errors /\ saved.tokens >= saved.tokens
      BY <1>1 DEF Totals
    <2>3. QED
      BY <1>2, <2>1, <2>2 DEF Kept
  <1>3. CASE saved' = totals /\ ~rewritten
    <2>1. DOMAIN saved = {"requests", "errors", "tokens"}
      BY <1>1 DEF Totals
    <2>2. /\ saved.requests <= all.requests
          /\ saved.errors <= all.errors /\ saved.tokens <= all.tokens
      BY <1>3 DEF IInv, SavedTracksMemory
    <2>3. /\ totals.requests >= saved.requests
          /\ totals.errors >= saved.errors /\ totals.tokens >= saved.tokens
      BY <1>1, <2>2 DEF Totals
    <2>4. QED
      BY <1>3, <2>1, <2>3 DEF Kept
  <1>4. CASE rewritten
    BY <1>4 DEF Kept
  <1>5. QED
    BY <1>2, <1>3, <1>4

\* Ending a row writes the totals it added to, or nothing.
LEMMA CompleteKeeps ==
    ASSUME IInv, NEW x, NEW o \in Outcomes, NEW t \in Nat, Complete(x, o, t)
    PROVE  Kept
  <1> DEFINE totals == [all EXCEPT !.errors = @ + ErrorsIn(o), !.tokens = @ + t]
  <1>0. all \in Totals
    BY DEF IInv, TypeOK
  <1>1. all.errors \in Nat /\ all.tokens \in Nat /\ all.requests \in Nat /\ ErrorsIn(o) \in Nat
    BY <1>0 DEF Totals, ErrorsIn
  <1>2. all.errors + ErrorsIn(o) \in Nat /\ all.tokens + t \in Nat
    BY <1>1
  <1>3. Persist(totals)
    BY Zenon DEF Complete
  <1>4. /\ totals \in Totals /\ totals.requests = all.requests
        /\ totals.errors = all.errors + ErrorsIn(o) /\ totals.tokens = all.tokens + t
    BY <1>0, <1>2 DEF Totals
  <1> HIDE DEF totals
  <1>5. saved' \in {saved, totals}
    BY <1>3 DEF Persist, Write
  <1>6. /\ totals.requests >= all.requests
        /\ totals.errors >= all.errors /\ totals.tokens >= all.tokens
    BY <1>1, <1>4
  <1>7. QED
    BY <1>4, <1>5, <1>6, WriteKeeps

\* Every step, a restart with or without a flush included, keeps what is in the
\* database, zeroes it, or happens while the database is known to be ahead.
LEMMA NextKeeps == IInv /\ [Next]_vars => Kept
  <1> SUFFICES ASSUME IInv, [Next]_vars PROVE Kept
    OBVIOUS
  <1>0. all \in Totals /\ all.requests \in Nat /\ all.errors \in Nat /\ all.tokens \in Nat
    BY DEF IInv, TypeOK, Totals
  <1>1. ASSUME saved' \in {saved, all} PROVE Kept
    BY <1>0, <1>1, WriteKeeps
  <1>2. ASSUME NEW x \in Rows, NEW p \in Providers, Begin(x, p) PROVE Kept
    BY <1>1, <1>2 DEF Begin, storeVars
  <1>3. ASSUME NEW x \in Rows, NEW o \in Outcomes, NEW t \in TokenCounts, End(x, o, t)
        PROVE  Kept
    BY <1>1, <1>3, CompleteKeeps, NumbersTyped DEF End, AlreadyEnded, storeVars
  <1>4. ASSUME NEW x \in Rows, GrowsOld(x) PROVE Kept
    BY <1>1, <1>4 DEF GrowsOld, storeVars
  <1>5. ASSUME NEW x \in Rows, SweepEnd(x) PROVE Kept
    BY <1>1, <1>5, CompleteKeeps DEF SweepEnd, AlreadyEnded, storeVars, Outcomes
  <1>6. CASE SweepCollect \/ IntervalPasses
    BY <1>1, <1>6 DEF SweepCollect, IntervalPasses, storeVars
  <1>7. CASE ClearStats
    BY <1>1, <1>7 DEF ClearStats, Write, Kept
  <1>8. ASSUME NEW loaded \in BOOLEAN, Crash(loaded) \/ Shutdown(loaded) PROVE Kept
    BY <1>1, <1>8 DEF Crash, Shutdown
  <1>9. CASE UNCHANGED vars
    BY <1>1, <1>9 DEF vars, storeVars
  <1>10. QED
    BY <1>2, <1>3, <1>4, <1>5, <1>6, <1>7, <1>8, <1>9 DEF Next, Step

\* Lifetime totals survive stops and failed writes: only a clear, or a write
\* that follows a failed load or a failed clear, makes the database lose counts.
THEOREM PersistedGrows == SafeSpec => PersistedOnlyGrows
  <1>1. IInv /\ [Next]_vars => [Kept]_vars
    BY NextKeeps
  <1>2. Kept <=> (\/ rewritten \/ saved' = Zero
                  \/ \A k \in DOMAIN saved : saved'[k] >= saved[k])
    BY DEF Kept
  <1>3. QED
    BY <1>1, <1>2, InvariantHolds, PTL DEF SafeSpec, PersistedOnlyGrows
-----------------------------------------------------------------------------
(* The sums over the providers. *)

Counters == {"total", "errors", "tokens"}

LEMMA CountedNat ==
    ASSUME TypeOK, NEW k \in Counters
    PROVE  Counted(k) \in Nat
  <1> DEFINE f == [p \in Providers |-> stats[p][k]]
  <1>1. \A p \in Providers : f[p] \in Nat
    BY DEF TypeOK, Counters
  <1>2. Counted(k) = SumFunctionOnSet(f, Providers)
    BY DEF Counted, SumFunction
  <1> HIDE DEF f
  <1>3. QED
    BY <1>1, <1>2, ProvidersFinite, SumNat

\* A counter goes up at one provider: so does the sum.
LEMMA CountedAdds ==
    ASSUME TypeOK, TypeOK', NEW k \in Counters, NEW e \in Providers, NEW d \in Nat,
           stats'[e][k] = stats[e][k] + d,
           \A q \in Providers : q # e => stats'[q][k] = stats[q][k]
    PROVE  Counted(k)' = Counted(k) + d
  <1> DEFINE f == [p \in Providers |-> stats[p][k]]
             g == [p \in Providers |-> stats'[p][k]]
  <1>1. \A p \in Providers : f[p] \in Nat /\ g[p] \in Nat
    BY DEF TypeOK, Counters
  <1>2. /\ Counted(k) = SumFunctionOnSet(f, Providers)
        /\ Counted(k)' = SumFunctionOnSet(g, Providers)
    BY DEF Counted, SumFunction
  <1>3. g[e] = f[e] + d /\ \A q \in Providers : q # e => g[q] = f[q]
    OBVIOUS
  <1>4. Counted(k) \in Nat
    BY CountedNat
  <1> HIDE DEF f, g
  <1>5. SumFunctionOnSet(g, Providers) = SumFunctionOnSet(f, Providers) - f[e] + g[e]
    <2>1. \A p \in Providers : f[p] \in Int /\ g[p] \in Int
      BY <1>1
    <2>2. QED
      BY <1>3, <2>1, ProvidersFinite, SumChange
  <1>6. QED
    BY <1>1, <1>2, <1>3, <1>4, <1>5

LEMMA CountedSame ==
    ASSUME NEW k \in Counters, \A p \in Providers : stats'[p][k] = stats[p][k]
    PROVE  Counted(k)' = Counted(k)
  <1>1. [p \in Providers |-> stats'[p][k]] = [p \in Providers |-> stats[p][k]]
    OBVIOUS
  <1>2. QED
    BY <1>1 DEF Counted

LEMMA CountedZero ==
    ASSUME NEW st, NEW k, \A p \in Providers : st[p][k] = 0
    PROVE  SumFunction([p \in Providers |-> st[p][k]]) = 0
  <1> DEFINE f == [p \in Providers |-> st[p][k]]
  <1>1. \A p \in Providers : f[p] = 0
    OBVIOUS
  <1>2. SumFunction(f) = SumFunctionOnSet(f, Providers)
    BY DEF SumFunction
  <1> HIDE DEF f
  <1>3. SumFunction(f) = 0
    BY <1>1, <1>2, ProvidersFinite, SumOfZeros
  <1>4. QED
    BY <1>3 DEF f

\* What ending an open row adds to the sums.
LEMMA CompleteCounts ==
    ASSUME IInv, IInv', NEW x \in open, NEW o \in Outcomes, NEW t \in Nat, Complete(x, o, t)
    PROVE  /\ Counted("total")' = Counted("total") + 1
           /\ Counted("errors")' = Counted("errors") + ErrorsIn(o)
           /\ Counted("tokens")' = Counted("tokens") + t
  <1> DEFINE e == provider[x]
  <1>1. TypeOK /\ TypeOK' /\ e \in Providers /\ ErrorsIn(o) \in Nat
    BY DEF IInv, TypeOK, ErrorsIn
  <1>2. stats' = [stats EXCEPT ![e] =
            [active |-> Less(stats[e].active), total |-> stats[e].total + 1,
             errors |-> stats[e].errors + ErrorsIn(o), tokens |-> stats[e].tokens + t]]
    BY Zenon DEF Complete
  <1>3. stats \in [Providers -> [active : Nat, total : Nat, errors : Nat, tokens : Nat]]
    BY <1>1 DEF TypeOK
  <1> HIDE DEF e
  <1>4. /\ stats'[e]["total"] = stats[e]["total"] + 1
        /\ stats'[e]["errors"] = stats[e]["errors"] + ErrorsIn(o)
        /\ stats'[e]["tokens"] = stats[e]["tokens"] + t
        /\ \A q \in Providers : q # e => stats'[q] = stats[q]
    BY <1>1, <1>2, <1>3
  <1>5. QED
    BY <1>1, <1>4, CountedAdds DEF Counters

-----------------------------------------------------------------------------
(* The history. *)

ErrorsAt(h) == {i \in DOMAIN h : h[i] = "error"}

LEMMA ErrorsFinite ==
    ASSUME NEW h \in Seq(Outcomes)
    PROVE  IsFiniteSet(ErrorsAt(h)) /\ Cardinality(ErrorsAt(h)) \in Nat
  <1>1. Len(h) \in Nat /\ ErrorsAt(h) \in SUBSET (1 .. Len(h))
    BY DEF ErrorsAt
  <1>2. IsFiniteSet(1 .. Len(h))
    BY <1>1, FS_Interval
  <1>3. QED
    BY <1>1, <1>2, FS_Subset, FS_CardinalityType

LEMMA ErrorsAppend ==
    ASSUME NEW h \in Seq(Outcomes), NEW o \in Outcomes
    PROVE  Cardinality(ErrorsAt(Append(h, o))) = Cardinality(ErrorsAt(h)) + ErrorsIn(o)
  <1>1. Len(h) + 1 \notin ErrorsAt(h)
    BY DEF ErrorsAt
  <1>2. ErrorsAt(Append(h, o)) = IF o = "error" THEN ErrorsAt(h) \cup {Len(h) + 1}
                                                ELSE ErrorsAt(h)
    BY DEF ErrorsAt
  <1>3. IsFiniteSet(ErrorsAt(h)) /\ Cardinality(ErrorsAt(h)) \in Nat
    BY ErrorsFinite
  <1>4. CASE o = "error"
    BY <1>1, <1>2, <1>3, <1>4, FS_AddElement DEF ErrorsIn
  <1>5. CASE o # "error"
    BY <1>2, <1>3, <1>5 DEF ErrorsIn
  <1>6. QED
    BY <1>4, <1>5

\* What falls out of the history takes its error with it.
LEMMA ErrorsDrop ==
    ASSUME NEW h \in Seq(Outcomes), NEW n \in Nat \ {0}, Len(h) = n
    PROVE  Cardinality(ErrorsAt(h)) =
               Cardinality(ErrorsAt(SubSeq(h, 2, n))) + ErrorsIn(h[1])
  <1> DEFINE u == SubSeq(h, 2, n)
             S == ErrorsAt(h)
             T == ErrorsAt(u)
             f == [i \in T |-> i + 1]
  <1>1. /\ u \in Seq(Outcomes) /\ DOMAIN u = 1 .. n - 1
        /\ \A i \in 1 .. n - 1 : u[i] = h[i + 1]
    BY SubSeqProperties
  <1>2. T = {i \in 1 .. n - 1 : h[i + 1] = "error"} /\ S = {i \in 1 .. n : h[i] = "error"}
    BY <1>1 DEF ErrorsAt
  <1>3. 1 \in S <=> h[1] = "error"
    BY <1>2
  <1>4. \A i \in T : i \in Nat /\ i + 1 \in S \ {1}
    BY <1>2
  <1>5. \A j \in S \ {1} : j - 1 \in T /\ j = (j - 1) + 1
    BY <1>2
  <1>6. /\ IsFiniteSet(S) /\ Cardinality(S) \in Nat
        /\ IsFiniteSet(T) /\ Cardinality(T) \in Nat
    BY <1>1, ErrorsFinite
  <1> HIDE DEF S, T
  <1>7. f \in Bijection(T, S \ {1})
    <2>1. f \in [T -> S \ {1}]
      BY <1>4
    <2>2. \A a, b \in T : f[a] = f[b] => a = b
      BY <1>4
    <2>3. \A j \in S \ {1} : \E i \in T : f[i] = j
      BY <1>5
    <2>4. QED
      BY <2>1, <2>2, <2>3 DEF Bijection, Injection, Surjection, IsInjective
  <1>8. Cardinality(S \ {1}) = Cardinality(T)
    <2>1. ExistsBijection(T, S \ {1})
      BY <1>7 DEF ExistsBijection
    <2>2. QED
      BY <1>6, <2>1, FS_Bijection
  <1>9. Cardinality(S \ {1}) = IF 1 \in S THEN Cardinality(S) - 1 ELSE Cardinality(S)
    BY <1>6, FS_RemoveElement
  <1>10. Cardinality(S) = Cardinality(T) + ErrorsIn(h[1])
    BY <1>3, <1>6, <1>8, <1>9 DEF ErrorsIn
  <1>11. QED
    BY <1>10 DEF S, T

\* A completed request joins a history that is full or not.
LEMMA HistoryJoined ==
    ASSUME NEW h \in Seq(Outcomes), Len(h) <= HistorySize, NEW o \in Outcomes
    PROVE  LET u == LastOf(Append(h, o))
           IN IF Len(h) < HistorySize
              THEN /\ Len(u) = Len(h) + 1
                   /\ Cardinality(ErrorsAt(u)) = Cardinality(ErrorsAt(h)) + ErrorsIn(o)
              ELSE /\ Len(u) = HistorySize
                   /\ \E d \in {0, 1} : Cardinality(ErrorsAt(u)) + d
                                          = Cardinality(ErrorsAt(h)) + ErrorsIn(o)
  <1> DEFINE s == Append(h, o)
             u == LastOf(s)
  <1>1. /\ s \in Seq(Outcomes) /\ Len(s) = Len(h) + 1
        /\ HistorySize \in Nat \ {0} /\ Len(h) \in Nat
    BY NumbersTyped
  <1>2. Cardinality(ErrorsAt(s)) = Cardinality(ErrorsAt(h)) + ErrorsIn(o)
    BY ErrorsAppend
  <1>3. CASE Len(h) < HistorySize
    <2>1. u = s
      BY <1>1, <1>3 DEF LastOf
    <2>2. QED
      BY <1>1, <1>2, <1>3, <2>1
  <1>4. CASE ~ (Len(h) < HistorySize)
    <2>1. Len(s) = HistorySize + 1
      BY <1>1, <1>4
    <2>2. u = SubSeq(s, 2, HistorySize + 1)
      BY <1>1, <2>1 DEF LastOf
    <2>3. Len(u) = HistorySize
      <3>1. \A i \in 2 .. HistorySize + 1 : s[i] \in Outcomes
        BY <1>1, <2>1
      <3>2. QED
        BY <1>1, <2>2, <3>1, SubSeqProperties
    <2>4. Cardinality(ErrorsAt(s)) = Cardinality(ErrorsAt(u)) + ErrorsIn(s[1])
      <3>1. HistorySize + 1 \in Nat \ {0}
        BY <1>1
      <3>2. QED
        BY <1>1, <2>1, <2>2, <3>1, ErrorsDrop
    <2>5. ErrorsIn(s[1]) \in {0, 1}
      BY DEF ErrorsIn
    <2>6. Cardinality(ErrorsAt(u)) + ErrorsIn(s[1]) = Cardinality(ErrorsAt(h)) + ErrorsIn(o)
      BY <1>2, <2>4
    <2>7. QED
      BY <1>4, <2>3, <2>5, <2>6
  <1>5. QED
    BY <1>3, <1>4

-----------------------------------------------------------------------------
(* Both are kept by every step. *)

\* HistoryAgrees, with the smaller of the two written out.
LEMMA HistoryLength ==
    ASSUME NEW n \in Nat
    PROVE  Min({n, HistorySize}) = IF n <= HistorySize THEN n ELSE HistorySize
  <1> DEFINE m == IF n <= HistorySize THEN n ELSE HistorySize
  <1>1. /\ m \in {n, HistorySize} /\ \A y \in {n, HistorySize} : m <= y
        /\ \A x \in {n, HistorySize} : (\A y \in {n, HistorySize} : x <= y) => x = m
    BY NumbersTyped
  <1> HIDE DEF m
  <1>2. Min({n, HistorySize}) = m
    BY <1>1 DEF Min
  <1>3. QED
    BY <1>2 DEF m

CountsInv == TotalsConserved /\ HistoryAgrees

\* An entry more, and perhaps an error less at the other end: of n requests
\* with c errors, l are in the history, a of them errors before and b after.
LEMMA OneOut ==
    ASSUME NEW a \in Nat, NEW b \in Nat, NEW c \in Nat, NEW n \in Nat, NEW l \in Nat,
           NEW e \in {0, 1}, NEW d \in {0, 1},
           a <= c, c <= a + (n - l), b + d = a + e
    PROVE  b <= c + e /\ c + e <= b + ((n + 1) - l)
  OBVIOUS

LEMMA CompleteCountsInv ==
    ASSUME IInv, IInv', CountsInv, NEW x \in open, NEW o \in Outcomes, NEW t \in Nat,
           Complete(x, o, t), UNCHANGED ghostVars
    PROVE  CountsInv'
  <1>1. /\ Counted("total")' = Counted("total") + 1
        /\ Counted("errors")' = Counted("errors") + ErrorsIn(o)
        /\ Counted("tokens")' = Counted("tokens") + t
    BY CompleteCounts
  <1>2. /\ Counted("total") \in Nat /\ Counted("errors") \in Nat /\ Counted("tokens") \in Nat
        /\ ErrorsIn(o) \in {0, 1}
    BY CountedNat DEF IInv, Counters, ErrorsIn
  <1>3. TotalsConserved'
    <2>1. /\ all \in Totals /\ base \in Totals /\ carried \in Nat /\ open \in SUBSET Rows
          /\ base' = base /\ carried' = carried
      BY DEF IInv, TypeOK, ghostVars
    <2>2. open' = open \ {x} /\ Cardinality(open \ {x}) = Cardinality(open) - 1
          /\ Cardinality(open) \in Nat
      BY <2>1, RowSets, FS_RemoveElement DEF Complete
    <2>3. /\ all'.requests = all.requests /\ all'.errors = all.errors + ErrorsIn(o)
          /\ all'.tokens = all.tokens + t
      <3>1. all' = [all EXCEPT !.errors = all.errors + ErrorsIn(o), !.tokens = all.tokens + t]
        BY DEF Complete
      <3>2. QED
        BY <2>1, <3>1 DEF Totals
    <2>4. /\ all.requests \in Nat /\ all.errors \in Nat /\ all.tokens \in Nat
          /\ base.requests \in Nat /\ base.errors \in Nat /\ base.tokens \in Nat
      BY <2>1 DEF Totals
    <2>5. QED
      BY <1>1, <1>2, <2>1, <2>2, <2>3, <2>4 DEF CountsInv, TotalsConserved
  <1>4. HistoryAgrees'
    <2>1. /\ history \in Seq(Outcomes) /\ history' = LastOf(Append(history, o))
          /\ history' \in Seq(Outcomes) /\ Len(history) \in Nat
          /\ HistorySize \in Nat \ {0}
      BY NumbersTyped DEF Complete, IInv, TypeOK
    <2>2. /\ ShownErrors = Cardinality(ErrorsAt(history)) /\ ShownErrors \in Nat
          /\ ShownErrors' = Cardinality(ErrorsAt(history')) /\ ShownErrors' \in Nat
      BY <2>1, ErrorsFinite DEF ShownErrors, ErrorsAt
    <2>3. /\ Len(history) = IF Counted("total") <= HistorySize THEN Counted("total")
                                                              ELSE HistorySize
          /\ ShownErrors <= Counted("errors")
          /\ Counted("errors") <= ShownErrors + (Counted("total") - Len(history))
      BY <1>2, HistoryLength DEF CountsInv, HistoryAgrees
    <2>4. Len(history) <= HistorySize
      BY <1>2, <2>1, <2>3
    <2>5. IF Len(history) < HistorySize
          THEN Len(history') = Len(history) + 1 /\ ShownErrors' = ShownErrors + ErrorsIn(o)
          ELSE /\ Len(history') = HistorySize
               /\ \E d \in {0, 1} : ShownErrors' + d = ShownErrors + ErrorsIn(o)
      BY <2>1, <2>2, <2>4, HistoryJoined, Zenon
    <2>6. Len(history') = IF Counted("total")' <= HistorySize THEN Counted("total")'
                                                              ELSE HistorySize
      BY <1>1, <1>2, <2>1, <2>3, <2>5
    <2>7. /\ ShownErrors' <= Counted("errors")'
          /\ Counted("errors")' <= ShownErrors' + (Counted("total")' - Len(history'))
      <3>1. CASE Len(history) < HistorySize
        BY <1>1, <1>2, <2>1, <2>2, <2>3, <2>5, <3>1
      <3>2. CASE ~ (Len(history) < HistorySize)
        <4>1. PICK d \in {0, 1} : ShownErrors' + d = ShownErrors + ErrorsIn(o)
          BY <2>5, <3>2
        <4>2. Len(history') = Len(history)
          BY <2>1, <2>4, <2>5, <3>2
        <4>3. /\ ShownErrors' <= Counted("errors") + ErrorsIn(o)
              /\ Counted("errors") + ErrorsIn(o)
                   <= ShownErrors' + ((Counted("total") + 1) - Len(history))
          BY <1>2, <2>1, <2>2, <2>3, <4>1, OneOut, SMTT(20)
        <4>4. QED
          BY <1>1, <4>2, <4>3
      <3>3. QED
        BY <3>1, <3>2
    <2>8. Counted("total")' \in Nat
      BY <1>1, <1>2
    <2>9. QED
      BY <2>6, <2>7, <2>8, HistoryLength DEF HistoryAgrees
  <1>5. QED
    BY <1>3, <1>4 DEF CountsInv

\* An empty history agrees with counters at zero.
LEMMA EmptyHistory ==
    ASSUME NEW h, h = <<>>, NEW n, n = 0
    PROVE  Len(h) = Min({n, HistorySize}) /\ Cardinality({i \in DOMAIN h : h[i] = "error"}) = 0
  <1>1. Len(h) = 0 /\ {i \in DOMAIN h : h[i] = "error"} = {}
    OBVIOUS
  <1>2. Min({n, HistorySize}) = 0
    BY NumbersTyped, HistoryLength
  <1>3. QED
    BY <1>1, <1>2, FS_EmptySet

\* Steps that count nothing.
LEMMA QuietCounts ==
    ASSUME CountsInv, UNCHANGED <<stats, history, open, all, base, carried>>
    PROVE  CountsInv'
  BY DEF CountsInv, TotalsConserved, HistoryAgrees, Counted, ShownErrors

LEMMA ClearCounts ==
    ASSUME IInv, IInv', ClearStats
    PROVE  CountsInv'
  <1>1. \A k \in Counters : \A p \in Providers : stats'[p][k] = 0
    BY DEF ClearStats, Cleared, IInv, TypeOK, Counters
  <1>2. \A k \in Counters : Counted(k)' = 0
    BY <1>1, CountedZero DEF Counted
  <1>3. /\ all' = Zero /\ base' = Zero /\ history' = <<>>
        /\ open' = open /\ carried' = Cardinality(open) /\ Cardinality(open) \in Nat
    BY RowSets DEF ClearStats, rowVars, IInv, TypeOK
  <1>4. TotalsConserved'
    BY <1>2, <1>3 DEF TotalsConserved, Zero, Counters
  <1>5. HistoryAgrees'
    <2>1. Len(history') = Min({Counted("total")', HistorySize}) /\ ShownErrors' = 0
      BY <1>2, <1>3, EmptyHistory DEF Counters, ShownErrors
    <2>2. QED
      BY <1>2, <1>3, <2>1 DEF HistoryAgrees, Counters
  <1>6. QED
    BY <1>4, <1>5 DEF CountsInv

LEMMA StartCounts ==
    ASSUME IInv, IInv', NEW found, NEW loaded, Start(found, loaded)
    PROVE  CountsInv'
  <1>1. \A k \in Counters : \A p \in Providers : stats'[p][k] = 0
    BY DEF Start, Counters
  <1>2. \A k \in Counters : Counted(k)' = 0
    BY <1>1, CountedZero DEF Counted
  <1>3. /\ base' = all' /\ all' \in Totals /\ history' = <<>>
        /\ open' = {} /\ carried' = 0
    BY DEF Start, IInv, TypeOK
  <1>4. TotalsConserved'
    BY <1>2, <1>3, NoRows DEF TotalsConserved, Totals, Counters
  <1>5. HistoryAgrees'
    <2>1. Len(history') = Min({Counted("total")', HistorySize}) /\ ShownErrors' = 0
      BY <1>2, <1>3, EmptyHistory DEF Counters, ShownErrors
    <2>2. QED
      BY <1>2, <1>3, <2>1 DEF HistoryAgrees, Counters
  <1>6. QED
    BY <1>4, <1>5 DEF CountsInv

LEMMA InitCounts == Init => CountsInv
  <1> SUFFICES ASSUME Init PROVE CountsInv
    OBVIOUS
  <1>1. \A k \in Counters : Counted(k) = 0
    <2>1. \A k \in Counters : \A p \in Providers : stats[p][k] = 0
      BY DEF Init, Counters
    <2>2. QED
      BY <2>1, CountedZero DEF Counted
  <1>2. TotalsConserved
    BY <1>1, NoRows DEF Init, TotalsConserved, Zero, Counters
  <1>3. HistoryAgrees
    <2>1. Len(history) = Min({Counted("total"), HistorySize}) /\ ShownErrors = 0
      BY <1>1, EmptyHistory DEF Init, Counters, ShownErrors
    <2>2. QED
      BY <1>1, <2>1 DEF Init, HistoryAgrees, Counters
  <1>4. QED
    BY <1>2, <1>3 DEF CountsInv

LEMMA NextCounts == IInv /\ IInv' /\ CountsInv /\ [Next]_vars => CountsInv'
  <1> SUFFICES ASSUME IInv, IInv', CountsInv, [Next]_vars PROVE CountsInv'
    OBVIOUS
  <1>1. ASSUME NEW x \in Rows, NEW p \in Providers, Begin(x, p)
        PROVE  CountsInv'
    <2>1. /\ open' = open \cup {x} /\ x \notin open /\ open \in SUBSET Rows
          /\ all' = [all EXCEPT !.requests = all.requests + 1] /\ all \in Totals
          /\ base \in Totals /\ carried \in Nat
          /\ UNCHANGED <<history, base, carried>>
      BY <1>1 DEF Begin, IInv, TypeOK, ghostVars
    <2>2. \A k \in Counters : \A q \in Providers : stats'[q][k] = stats[q][k]
      <3>1. stats' = [stats EXCEPT ![p].active = stats[p].active + 1]
        BY <1>1 DEF Begin
      <3>2. stats \in [Providers -> [active : Nat, total : Nat, errors : Nat, tokens : Nat]]
        BY DEF IInv, TypeOK
      <3>3. QED
        BY <3>1, <3>2 DEF Counters
    <2>3. \A k \in Counters : Counted(k)' = Counted(k) /\ Counted(k) \in Nat
      BY <2>2, CountedSame, CountedNat DEF IInv
    <2>4. Cardinality(open') = Cardinality(open) + 1 /\ Cardinality(open) \in Nat
      BY <2>1, RowAdded, RowSets
    <2>5. /\ all.requests \in Nat /\ base.requests \in Nat
          /\ all'.requests = all.requests + 1 /\ all'.errors = all.errors
          /\ all'.tokens = all.tokens
      BY <2>1 DEF Totals
    <2>6. TotalsConserved'
      BY <2>1, <2>3, <2>4, <2>5 DEF CountsInv, TotalsConserved, Counters
    <2>7. HistoryAgrees'
      BY <2>1, <2>3 DEF CountsInv, HistoryAgrees, ShownErrors, Counters
    <2>8. QED
      BY <2>6, <2>7 DEF CountsInv
  <1>2. ASSUME NEW x \in Rows, NEW o \in Outcomes, NEW t \in TokenCounts, End(x, o, t)
        PROVE  CountsInv'
    BY <1>2, CompleteCountsInv, QuietCounts, NumbersTyped
       DEF End, AlreadyEnded, countVars, ghostVars
  <1>3. ASSUME NEW x \in Rows, GrowsOld(x)
        PROVE  CountsInv'
    BY <1>3, QuietCounts DEF GrowsOld, countVars, ghostVars
  <1>4. ASSUME NEW x \in Rows, SweepEnd(x)
        PROVE  CountsInv'
    BY <1>4, CompleteCountsInv, QuietCounts
       DEF SweepEnd, AlreadyEnded, countVars, ghostVars, Outcomes
  <1>5. CASE SweepCollect \/ IntervalPasses \/ UNCHANGED vars
    BY <1>5, QuietCounts DEF SweepCollect, IntervalPasses, vars, rowVars, countVars, ghostVars
  <1>6. CASE ClearStats
    BY <1>6, ClearCounts
  <1>7. ASSUME NEW loaded \in BOOLEAN, Crash(loaded) \/ Shutdown(loaded)
        PROVE  CountsInv'
    BY <1>7, StartCounts DEF Crash, Shutdown
  <1>8. QED
    BY <1>1, <1>2, <1>3, <1>4, <1>5, <1>6, <1>7 DEF Next, Step

\* Both stories of what was done agree with the counters.
THEOREM CountsHold == SafeSpec => []CountsInv
  BY InvariantHolds, InitCounts, NextCounts, PTL DEF SafeSpec

\* No request is lost or counted twice between the process and its providers,
\* whatever callers, sweeps, clears and restarts do.
THEOREM TotalsAddUp == SafeSpec => []TotalsConserved
  <1>1. CountsInv => TotalsConserved
    BY DEF CountsInv
  <1>2. QED
    BY <1>1, CountsHold, PTL

\* The history has what the counters say, as far as it reaches back.
THEOREM HistoryTells == SafeSpec => []HistoryAgrees
  <1>1. CountsInv => HistoryAgrees
    BY DEF CountsInv
  <1>2. QED
    BY <1>1, CountsHold, PTL
=============================================================================
