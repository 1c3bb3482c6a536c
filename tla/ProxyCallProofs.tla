-------------------------- MODULE ProxyCallProofs --------------------------
(***************************************************************************)
(* For any number of calls, users, retries and operator moves: rows have   *)
(* owners and tell how their call ended, the points stay explained by      *)
(* their ledger, and the calls implement MeteredCall.                      *)
(*                                                                         *)
(* A step of a call is, to the rest of the system, one of eight effects on *)
(* its place, its rows and what it paid (Effects).  Each action is shown   *)
(* to have one of them; the inductive invariant (CallInv, for each call    *)
(* alone) and the refinement are then shown for the effects.  The points   *)
(* move only by the movements of Points, whose invariant is inductive.     *)
(***************************************************************************)
EXTENDS ProxyCall, PointsProofs, FoldTheorems

Working == {"sending", "backoff", "errorbody", "opened", "streaming"}
Places == Working \cup {"new", "done"}
Results == {"none", "refused", "ok", "error", "cancelled"} \cup Unfinished

PlaceTyped ==
    /\ pc \in [Calls -> Places] /\ result \in [Calls -> Results]
    /\ at \in [Calls -> 1..2] /\ row \in [Calls -> [1..2 -> RowStates]]
    /\ paid \in [Calls -> Nat]

LocalsTyped ==
    /\ owner \in [Calls -> Users \cup {Operator}]
    /\ stream \in [Calls -> BOOLEAN] /\ fallback \in [Calls -> BOOLEAN]
    /\ tries \in [Calls -> 0..MaxRetries]
    /\ usage \in [Calls -> Usages \cup {0}] /\ rate \in Rates
    /\ failure \in [Calls -> Classes \cup {"none"}]

\* Where a call is, what its rows are and what it has paid.
CallInv(c) ==
    /\ pc[c] = "new" => at[c] = 1 /\ row[c][1] = "none" /\ result[c] = "none"
    /\ pc[c] \in Working => result[c] = "none" /\ row[c][at[c]] \in {"open", "cancelled"}
    /\ pc[c] = "done" =>
        /\ result[c] # "none"
        /\ result[c] = "refused" => at[c] = 1 /\ row[c][1] = "none"
        /\ result[c] \in {"ok", "error", "cancelled"} => row[c][at[c]] \in {result[c], "cancelled"}
        /\ result[c] \in Unfinished => row[c][at[c]] \in {"open", "cancelled"}
    /\ at[c] = 1 => row[c][2] = "none"
    /\ at[c] = 2 => row[c][1] \in {"error", "cancelled"}
    /\ pc[c] # "done" => paid[c] = 0

CallsInv == \A c \in Calls : CallInv(c)

IInv == PlaceTyped /\ LocalsTyped /\ CallsInv /\ PointsIInv

-----------------------------------------------------------------------------
(* Effects: what a step of c may do to places, rows and payments. *)

Same(d) ==
    /\ pc'[d] = pc[d] /\ result'[d] = result[d] /\ at'[d] = at[d]
    /\ row'[d] = row[d] /\ paid'[d] = paid[d]

Ended(c, outcome) ==
    row'[c] = IF row[c][at[c]] = "open" THEN [row[c] EXCEPT ![at[c]] = outcome] ELSE row[c]

Refused(c) ==
    /\ pc[c] = "new" /\ pc'[c] = "done" /\ result'[c] = "refused"
    /\ at'[c] = at[c] /\ row'[c] = row[c] /\ paid'[c] = paid[c]

Begun(c) ==
    /\ pc[c] = "new" /\ pc'[c] = "sending" /\ row'[c] = [row[c] EXCEPT ![1] = "open"]
    /\ at'[c] = at[c] /\ result'[c] = result[c] /\ paid'[c] = paid[c]

BegunBadly(c) ==
    /\ pc[c] = "new" /\ pc'[c] = "done" /\ result'[c] = "crashed"
    /\ row'[c] = [row[c] EXCEPT ![1] = "open"] /\ at'[c] = at[c] /\ paid'[c] = paid[c]

Moved(c) ==
    /\ pc[c] \in Working /\ pc'[c] \in Working
    /\ at'[c] = at[c] /\ result'[c] = result[c] /\ row'[c] = row[c] /\ paid'[c] = paid[c]

Rerouted(c) ==
    /\ pc[c] \in Working /\ pc'[c] = "sending" /\ at[c] = 1 /\ at'[c] = 2
    /\ row'[c][1] = (IF row[c][1] = "open" THEN "error" ELSE row[c][1]) /\ row'[c][2] = "open"
    /\ result'[c] = result[c] /\ paid'[c] = paid[c]

Failed(c) ==
    /\ pc[c] \in Working /\ pc'[c] = "done" /\ at'[c] = at[c] /\ paid'[c] = paid[c]
    /\ \/ result'[c] \in {"error", "cancelled"} /\ Ended(c, result'[c])
       \/ result'[c] \in Unfinished /\ row'[c] = row[c]

Answered(c) ==
    /\ pc[c] \in Working /\ pc'[c] = "done" /\ at'[c] = at[c]
    /\ result'[c] = "ok" /\ Ended(c, "ok")
    /\ \E price \in Amounts : paid'[c] = paid[c] + price

Swept(c) ==
    /\ \E i \in 1..2 : row[c][i] = "open" /\ row'[c] = [row[c] EXCEPT ![i] = "cancelled"]
    /\ pc'[c] = pc[c] /\ result'[c] = result[c] /\ at'[c] = at[c] /\ paid'[c] = paid[c]

Effect(c) ==
    /\ \/ Refused(c) \/ Begun(c) \/ BegunBadly(c) \/ Moved(c) \/ Rerouted(c)
       \/ Failed(c) \/ Answered(c) \/ Swept(c)
    /\ \A d \in Calls \ {c} : Same(d)

-----------------------------------------------------------------------------
(* What the effects preserve. *)

\* A call that no step touches keeps what is said of it.
LEMMA SameKeeps ==
    ASSUME NEW d \in Calls, CallInv(d), Same(d)
    PROVE  CallInv(d)'
  BY DEF CallInv, Same

\* Every effect keeps what is said of its call.
LEMMA EffectKeeps ==
    ASSUME PlaceTyped, PlaceTyped', CallsInv, NEW c \in Calls, Effect(c)
    PROVE  CallsInv'
  <1>1. CallInv(c)
    BY DEF CallsInv
  <1>2. /\ at[c] \in 1..2 /\ row[c] \in [1..2 -> RowStates] /\ row'[c] \in [1..2 -> RowStates]
        /\ "open" \notin {"none", "error", "cancelled", "ok"}
    BY DEF PlaceTyped
  <1>3. SUFFICES CallInv(c)'
    BY SameKeeps DEF CallsInv, Effect
  <1>4. CASE Refused(c)
    BY <1>1, <1>2, <1>4 DEF CallInv, Refused, Working, Unfinished
  <1>5. CASE Begun(c)
    BY <1>1, <1>2, <1>5 DEF CallInv, Begun, Working
  <1>6. CASE Moved(c)
    BY <1>1, <1>2, <1>6 DEF CallInv, Moved, Working
  <1>7. CASE Rerouted(c)
    BY <1>1, <1>2, <1>7 DEF CallInv, Rerouted, Working
  <1>8. CASE Failed(c)
    BY <1>1, <1>2, <1>8 DEF CallInv, Failed, Ended, Working, Unfinished
  <1>9. CASE Answered(c)
    BY <1>1, <1>2, <1>9 DEF CallInv, Answered, Ended, Working, Unfinished
  <1>10. CASE Swept(c)
    BY <1>1, <1>2, <1>10 DEF CallInv, Swept, Working
  <1>11. CASE BegunBadly(c)
    BY <1>1, <1>2, <1>11 DEF CallInv, BegunBadly, Working, Unfinished
  <1>12. QED
    BY <1>4, <1>5, <1>6, <1>7, <1>8, <1>9, <1>10, <1>11 DEF Effect

\* Every effect is a step of the contract, or none.
LEMMA EffectContract ==
    ASSUME PlaceTyped, PlaceTyped', CallsInv, NEW c \in Calls, Effect(c)
    PROVE  [Contract!Next]_(Contract!vars)
  <1> DEFINE st == [x \in Calls |-> StateOf(x)]
  <1>1. \A d \in Calls \ {c} : StateOf(d)' = StateOf(d) /\ paid'[d] = paid[d]
    BY DEF Effect, Same, StateOf
  <1>2. st' = [st EXCEPT ![c] = StateOf(c)'] /\ st[c] = StateOf(c)
    BY <1>1
  <1>3. paid' = [paid EXCEPT ![c] = paid'[c]]
    BY <1>1 DEF PlaceTyped
  <1>4. pc[c] # "done" => paid[c] = 0
    BY DEF CallsInv, CallInv
  <1>5. pc[c] = "new" => StateOf(c) = "new"
    BY DEF StateOf
  <1>6. pc[c] \in Working => StateOf(c) = "working"
    BY DEF StateOf, Working
  <1>7. pc'[c] \in Working => StateOf(c)' = "working"
    BY DEF StateOf, Working
  <1>8. pc'[c] = "done" => /\ result'[c] = "refused" => StateOf(c)' = "refused"
                           /\ result'[c] = "ok" => StateOf(c)' = "answered"
                           /\ result'[c] \notin {"refused", "ok"} => StateOf(c)' = "failed"
    BY DEF StateOf
  <1> HIDE DEF st
  <1>9. ASSUME paid'[c] = paid[c] PROVE paid' = paid
    BY <1>3, <1>9 DEF PlaceTyped
  <1>10. ASSUME paid'[c] = paid[c], st'[c] = st[c] PROVE UNCHANGED <<st, paid>>
    <2>1. st' = st
      BY <1>2, <1>10 DEF st
    <2>2. QED
      BY <1>9, <1>10, <2>1
  <1>11. CASE Refused(c)
    <2>1. st[c] = "new" /\ st' = [st EXCEPT ![c] = "refused"] /\ paid' = paid
      BY <1>2, <1>5, <1>8, <1>9, <1>11 DEF Refused
    <2>2. Contract!Refuse(c)
      BY <2>1 DEF Contract!Refuse, st
    <2>3. QED
      BY <2>2 DEF Contract!Next
  <1>12. CASE Begun(c)
    <2>1. st[c] = "new" /\ st' = [st EXCEPT ![c] = "working"] /\ paid' = paid
      BY <1>2, <1>5, <1>7, <1>9, <1>12 DEF Begun, Working
    <2>2. Contract!Admit(c)
      BY <2>1 DEF Contract!Admit, st
    <2>3. QED
      BY <2>2 DEF Contract!Next
  <1>13. CASE Failed(c) \/ BegunBadly(c)
    <2>1. result'[c] \notin {"refused", "ok"}
      BY <1>13 DEF Failed, BegunBadly, Unfinished
    <2>2. st[c] \in {"new", "working"} /\ st' = [st EXCEPT ![c] = "failed"] /\ paid' = paid
      BY <1>2, <1>5, <1>6, <1>8, <1>9, <1>13, <2>1 DEF Failed, BegunBadly
    <2>3. Contract!Fail(c)
      BY <2>2 DEF Contract!Fail, st
    <2>4. QED
      BY <2>3 DEF Contract!Next
  <1>14. CASE Answered(c)
    <2>1. PICK price \in Amounts : paid'[c] = paid[c] + price
      BY <1>14 DEF Answered
    <2>2. paid[c] = 0 /\ price \in Nat
      BY <1>4, <1>14, AmountsTyped DEF Answered, Working
    <2>3. st[c] = "working" /\ st' = [st EXCEPT ![c] = "answered"]
      BY <1>2, <1>6, <1>8, <1>14 DEF Answered
    <2>4. paid' = [paid EXCEPT ![c] = price]
      BY <1>3, <2>1, <2>2
    <2>5. Contract!Answer(c, price)
      BY <2>3, <2>4 DEF Contract!Answer, st
    <2>6. QED
      BY <2>5 DEF Contract!Next
  <1>15. CASE Moved(c) \/ Rerouted(c)
    <2>1. st'[c] = st[c] /\ paid'[c] = paid[c]
      BY <1>2, <1>6, <1>7, <1>15 DEF Moved, Rerouted, Working, st
    <2>2. QED
      BY <1>10, <2>1 DEF Contract!vars, st
  <1>16. CASE Swept(c)
    <2>1. StateOf(c)' = StateOf(c)
      BY <1>16 DEF Swept, StateOf
    <2>2. st'[c] = st[c] /\ paid'[c] = paid[c]
      BY <1>2, <1>16, <2>1 DEF Swept, st
    <2>3. QED
      BY <1>10, <2>2 DEF Contract!vars, st
  <1>17. QED
    BY <1>11, <1>12, <1>13, <1>14, <1>15, <1>16 DEF Effect

-----------------------------------------------------------------------------
(* Parts of the actions. *)

\* Closing a row touches that row of that call, and only if it is open.
LEMMA EndRowTyped ==
    ASSUME PlaceTyped, NEW c \in Calls, NEW outcome \in RowStates, EndRow(c, outcome)
    PROVE  /\ row' \in [Calls -> [1..2 -> RowStates]] /\ Ended(c, outcome)
           /\ \A d \in Calls \ {c} : row'[d] = row[d]
  <1> DEFINE new == [row[c] EXCEPT ![at[c]] = outcome]
  <1>1. row \in [Calls -> [1..2 -> RowStates]] /\ at[c] \in 1..2
    BY DEF PlaceTyped
  <1>2. new \in [1..2 -> RowStates]
    BY <1>1
  <1>3. row' = IF row[c][at[c]] = "open" THEN [row EXCEPT ![c] = new] ELSE row
    BY DEF EndRow
  <1>4. CASE row[c][at[c]] = "open"
    <2> HIDE DEF new
    <2>1. row' = [row EXCEPT ![c] = new]
      BY <1>3, <1>4
    <2>2. row'[c] = new
      BY <1>1, <2>1
    <2>3. QED
      BY <1>1, <1>2, <1>4, <2>1, <2>2 DEF Ended, new
  <1>5. CASE row[c][at[c]] # "open"
    <2>1. row' = row
      BY <1>3, <1>5
    <2>2. QED
      BY <1>1, <1>5, <2>1 DEF Ended
  <1>6. QED
    BY <1>4, <1>5

\* A handler that is done has a result, and its locals are reset.
LEMMA FinishTyped ==
    ASSUME PlaceTyped, LocalsTyped, NEW c \in Calls, NEW how \in Results, Finish(c, how)
    PROVE  /\ pc' \in [Calls -> Places] /\ result' \in [Calls -> Results]
           /\ pc'[c] = "done" /\ result'[c] = how
           /\ \A d \in Calls \ {c} : pc'[d] = pc[d] /\ result'[d] = result[d]
           /\ UNCHANGED <<owner, rate>> => LocalsTyped'
  <1>1. /\ pc' \in [Calls -> Places] /\ result' \in [Calls -> Results]
        /\ pc'[c] = "done" /\ result'[c] = how
        /\ \A d \in Calls \ {c} : pc'[d] = pc[d] /\ result'[d] = result[d]
    BY DEF Finish, PlaceTyped, Places
  <1>2. stream' \in [Calls -> BOOLEAN] /\ fallback' \in [Calls -> BOOLEAN]
    BY DEF Finish, LocalsTyped
  <1>3. tries' \in [Calls -> 0..MaxRetries] /\ usage' \in [Calls -> Usages \cup {0}]
    BY CallAssumption DEF Finish, LocalsTyped
  <1>4. failure' \in [Calls -> Classes \cup {"none"}]
    BY DEF Finish, LocalsTyped
  <1>5. UNCHANGED <<owner, rate>> => LocalsTyped'
    BY <1>2, <1>3, <1>4 DEF LocalsTyped
  <1>6. QED
    BY <1>1, <1>5

\* A handler that ends with an error or an abort has the effect Failed.
LEMMA EndsBadly ==
    ASSUME PlaceTyped, LocalsTyped, NEW c \in Calls, NEW how \in {"error", "cancelled"},
           pc[c] \in Working, EndRow(c, how), Finish(c, how), UNCHANGED <<owner, at, accounts>>
    PROVE  PlaceTyped' /\ LocalsTyped' /\ Effect(c)
  <1>1. how \in RowStates /\ how \in Results
    BY DEF RowStates, Results
  <1>2. /\ at' = at /\ paid' = paid /\ owner' = owner /\ rate' = rate
    BY DEF accounts
  <1>3. PlaceTyped'
    BY <1>1, <1>2, EndRowTyped, FinishTyped DEF PlaceTyped
  <1>4. LocalsTyped'
    BY <1>1, <1>2, FinishTyped
  <1>5. Failed(c)
    BY <1>1, <1>2, EndRowTyped, FinishTyped DEF Failed
  <1>6. \A d \in Calls \ {c} : Same(d)
    BY <1>1, <1>2, EndRowTyped, FinishTyped DEF Same
  <1>7. QED
    BY <1>3, <1>4, <1>5, <1>6 DEF Effect

\* A handler that ends and leaves its row as it is has the effect Failed.
LEMMA EndsUnfinished ==
    ASSUME PlaceTyped, LocalsTyped, NEW c \in Calls, NEW how \in Unfinished,
           pc[c] \in Working, Finish(c, how), UNCHANGED <<owner, at, row, accounts>>
    PROVE  PlaceTyped' /\ LocalsTyped' /\ Effect(c)
  <1>1. how \in Results /\ at' = at /\ row' = row /\ paid' = paid /\ UNCHANGED <<owner, rate>>
    BY DEF Results, accounts
  <1>2. PlaceTyped' /\ LocalsTyped'
    BY <1>1, FinishTyped DEF PlaceTyped
  <1>3. Failed(c) /\ \A d \in Calls \ {c} : Same(d)
    BY <1>1, FinishTyped DEF Failed, Same
  <1>4. QED
    BY <1>2, <1>3 DEF Effect

\* A failed attempt goes on to the second route, or the call fails.
LEMMA NextRouteEffect ==
    ASSUME PlaceTyped, LocalsTyped, NEW c \in Calls, NEW class \in Classes,
           pc[c] \in Working, NextRoute(c, class), UNCHANGED <<owner, accounts>>
    PROVE  PlaceTyped' /\ LocalsTyped' /\ Effect(c)
  <1>1. CASE fallback[c] /\ at[c] = 1
    <2> DEFINE new == [i \in 1..2 |->
                  IF i = 2 THEN "open" ELSE IF row[c][1] = "open" THEN "error" ELSE row[c][1]]
    <2>1. /\ row' = [row EXCEPT ![c] = new] /\ at' = [at EXCEPT ![c] = 2]
          /\ tries' = [tries EXCEPT ![c] = 0] /\ pc' = [pc EXCEPT ![c] = "sending"]
          /\ failure' = [failure EXCEPT ![c] = class]
          /\ UNCHANGED <<result, stream, fallback, usage, owner, paid, rate>>
      BY <1>1 DEF NextRoute, accounts
    <2>2. new \in [1..2 -> RowStates] /\ new[2] = "open"
          /\ new[1] = IF row[c][1] = "open" THEN "error" ELSE row[c][1]
      BY DEF PlaceTyped, RowStates
    <2> HIDE DEF new
    <2>3. PlaceTyped'
      BY <2>1, <2>2 DEF PlaceTyped, Places, Working
    <2>4. LocalsTyped'
      <3>1. failure' \in [Calls -> Classes \cup {"none"}] /\ tries' \in [Calls -> 0..MaxRetries]
        BY <2>1, CallAssumption DEF LocalsTyped
      <3>2. QED
        BY <2>1, <3>1 DEF LocalsTyped
    <2>5. Rerouted(c)
      BY <1>1, <2>1, <2>2 DEF Rerouted, PlaceTyped
    <2>6. \A d \in Calls \ {c} : Same(d)
      BY <2>1 DEF Same, PlaceTyped
    <2>7. QED
      BY <2>3, <2>4, <2>5, <2>6 DEF Effect
  <1>2. CASE ~(fallback[c] /\ at[c] = 1)
    <2>1. EndRow(c, "error") /\ Finish(c, "error") /\ UNCHANGED at
      BY <1>2 DEF NextRoute
    <2>2. QED
      BY <2>1, EndsBadly
  <1>3. QED
    BY <1>1, <1>2

\* An answer, streamed or not, has the effect Answered.
LEMMA AnswerEffect ==
    ASSUME PlaceTyped, LocalsTyped, NEW c \in Calls, NEW used \in Usages \cup {0},
           pc[c] \in Working, EndRow(c, "ok"), Finish(c, "ok"), Charge(c, used),
           UNCHANGED <<owner, at, rate, moves>>
    PROVE  PlaceTyped' /\ LocalsTyped' /\ Effect(c)
  <1> DEFINE due == IF owner[c] \in known THEN used * rate ELSE 0
  <1>0. due \in Amounts /\ 0 \in Amounts
    <2>1. used * rate \in Amounts
      <3>1. CASE used \in Usages
        BY <3>1, CallAssumption DEF LocalsTyped
      <3>2. CASE used = 0
        <4>1. rate \in Nat
          BY CallAssumption DEF LocalsTyped
        <4>2. used * rate = 0
          BY <3>2, <4>1
        <4>3. QED
          BY <4>2, CallAssumption
      <3>3. QED
        BY <3>1, <3>2
    <2>2. QED
      BY <2>1, CallAssumption
  <1>1. PICK price \in Amounts : paid' = [paid EXCEPT ![c] = paid[c] + price]
    <2>1. CASE paid' = [paid EXCEPT ![c] = paid[c] + due]
      BY <1>0, <2>1
    <2>2. CASE paid' = paid
      <3>1. paid[c] = paid[c] + 0 /\ paid = [paid EXCEPT ![c] = paid[c]]
        BY DEF PlaceTyped
      <3>2. QED
        BY <1>0, <2>2, <3>1
    <2>3. QED
      BY <2>1, <2>2 DEF Charge
  <1>2. price \in Nat
    BY AmountsTyped
  <1>3. /\ paid' \in [Calls -> Nat] /\ paid'[c] = paid[c] + price
        /\ \A d \in Calls \ {c} : paid'[d] = paid[d]
    BY <1>1, <1>2 DEF PlaceTyped
  <1>4. "ok" \in RowStates /\ "ok" \in Results
    BY DEF RowStates, Results
  <1>5. PlaceTyped'
    BY <1>3, <1>4, EndRowTyped, FinishTyped DEF PlaceTyped
  <1>6. LocalsTyped'
    BY <1>4, FinishTyped
  <1>7. Answered(c)
    BY <1>1, <1>3, <1>4, EndRowTyped, FinishTyped DEF Answered
  <1>8. \A d \in Calls \ {c} : Same(d)
    BY <1>3, <1>4, EndRowTyped, FinishTyped DEF Same
  <1>9. QED
    BY <1>5, <1>6, <1>7, <1>8 DEF Effect

-----------------------------------------------------------------------------
(* Every step of a call has an effect. *)

\* Steps that move a call from one waiting place to another.
LEMMA MovedEffect ==
    ASSUME PlaceTyped, NEW c \in Calls, NEW place \in Working, pc[c] \in Working,
           pc' = [pc EXCEPT ![c] = place] \/ pc' = pc,
           UNCHANGED <<result, at, row, accounts>>
    PROVE  PlaceTyped' /\ Effect(c)
  <1>1. UNCHANGED <<result, at, row, paid>>
    BY DEF accounts
  <1>2. PlaceTyped' /\ pc'[c] \in Working /\ \A d \in Calls \ {c} : pc'[d] = pc[d]
    BY <1>1 DEF PlaceTyped, Places
  <1>3. Moved(c)
    BY <1>1, <1>2 DEF Moved
  <1>4. \A d \in Calls \ {c} : Same(d)
    BY <1>1, <1>2 DEF Same
  <1>5. QED
    BY <1>2, <1>3, <1>4 DEF Effect

\* A handler that is done has reset its locals, and is charged to the caller it met.
LEMMA ArrivesAndFinishes ==
    ASSUME LocalsTyped, NEW c \in Calls, NEW u \in Users \cup {Operator}, NEW how,
           Finish(c, how), owner' = [owner EXCEPT ![c] = u], UNCHANGED accounts
    PROVE  LocalsTyped'
  <1>1. owner' \in [Calls -> Users \cup {Operator}] /\ rate' \in Rates
    BY DEF LocalsTyped, accounts
  <1>2. /\ stream' = [stream EXCEPT ![c] = FALSE]
        /\ fallback' = [fallback EXCEPT ![c] = FALSE]
        /\ tries' = [tries EXCEPT ![c] = 0] /\ usage' = [usage EXCEPT ![c] = 0]
        /\ failure' = [failure EXCEPT ![c] = "none"]
    BY DEF Finish
  <1>3. stream' \in [Calls -> BOOLEAN] /\ fallback' \in [Calls -> BOOLEAN]
    BY <1>2 DEF LocalsTyped
  <1>4. tries' \in [Calls -> 0..MaxRetries] /\ usage' \in [Calls -> Usages \cup {0}]
    BY <1>2, CallAssumption DEF LocalsTyped
  <1>5. failure' \in [Calls -> Classes \cup {"none"}]
    BY <1>2 DEF LocalsTyped
  <1>6. QED
    BY <1>1, <1>3, <1>4, <1>5 DEF LocalsTyped

\* A call that arrives is refused, begins its first attempt, or fails to.
LEMMA ArriveEffect ==
    ASSUME PlaceTyped, LocalsTyped, NEW c \in Calls, Arrive(c)
    PROVE  PlaceTyped' /\ LocalsTyped' /\ Effect(c) /\ UNCHANGED accounts
  <1>1. ASSUME NEW u \in Users \cup {Operator}, Refuse(c, u)
        PROVE  PlaceTyped' /\ LocalsTyped' /\ Effect(c) /\ UNCHANGED accounts
    <2>1. /\ pc[c] = "new" /\ Finish(c, "refused") /\ "refused" \in Results
          /\ owner' = [owner EXCEPT ![c] = u] /\ at' = at /\ row' = row
          /\ UNCHANGED accounts /\ paid' = paid /\ rate' = rate
      BY <1>1 DEF Refuse, accounts, Results
    <2>2. PlaceTyped'
      BY <2>1, FinishTyped DEF PlaceTyped
    <2>3. LocalsTyped'
      BY <2>1, ArrivesAndFinishes
    <2>4. Refused(c) /\ \A d \in Calls \ {c} : Same(d)
      BY <2>1, FinishTyped DEF Refused, Same
    <2>5. QED
      BY <2>1, <2>2, <2>3, <2>4 DEF Effect
  <1>2. ASSUME NEW u \in Users \cup {Operator}, NEW s \in BOOLEAN, NEW f \in BOOLEAN,
               Begin(c, u, s, f)
        PROVE  PlaceTyped' /\ LocalsTyped' /\ Effect(c) /\ UNCHANGED accounts
    <2> DEFINE new == [row[c] EXCEPT ![1] = "open"]
    <2>1. /\ pc[c] = "new" /\ pc' = [pc EXCEPT ![c] = "sending"]
          /\ owner' = [owner EXCEPT ![c] = u] /\ row' = [row EXCEPT ![c] = new]
          /\ UNCHANGED <<result, at, tries, usage, failure, paid, rate>> /\ UNCHANGED accounts
      BY <1>2 DEF Begin, accounts
    <2>2. stream' = [stream EXCEPT ![c] = s] /\ fallback' = [fallback EXCEPT ![c] = f]
      BY <1>2, Zenon DEF Begin
    <2>3. new \in [1..2 -> RowStates]
      BY DEF PlaceTyped, RowStates
    <2> HIDE DEF new
    <2>4. PlaceTyped' /\ row'[c] = new /\ pc'[c] = "sending"
      BY <2>1, <2>3 DEF PlaceTyped, Places, Working
    <2>5. LocalsTyped'
      <3>1. stream' \in [Calls -> BOOLEAN] /\ fallback' \in [Calls -> BOOLEAN]
        BY <2>2 DEF LocalsTyped
      <3>2. owner' \in [Calls -> Users \cup {Operator}]
        BY <2>1 DEF LocalsTyped
      <3>3. QED
        BY <2>1, <3>1, <3>2 DEF LocalsTyped
    <2>6. Begun(c)
      BY <2>1, <2>4 DEF Begun, new
    <2>7. \A d \in Calls \ {c} : Same(d)
      BY <2>1 DEF Same, PlaceTyped
    <2>8. QED
      BY <2>1, <2>4, <2>5, <2>6, <2>7 DEF Effect
  <1>3. ASSUME NEW u \in Users \cup {Operator}, BeginRaises(c, u)
        PROVE  PlaceTyped' /\ LocalsTyped' /\ Effect(c) /\ UNCHANGED accounts
    <2> DEFINE new == [row[c] EXCEPT ![1] = "open"]
    <2>1. /\ pc[c] = "new" /\ Finish(c, "crashed") /\ "crashed" \in Results
          /\ owner' = [owner EXCEPT ![c] = u] /\ row' = [row EXCEPT ![c] = new]
          /\ at' = at /\ UNCHANGED accounts /\ paid' = paid
      BY <1>3 DEF BeginRaises, accounts, Results, Unfinished
    <2>2. new \in [1..2 -> RowStates]
      BY DEF PlaceTyped, RowStates
    <2> HIDE DEF new
    <2>3. PlaceTyped' /\ row'[c] = new
      BY <2>1, <2>2, FinishTyped DEF PlaceTyped
    <2>4. LocalsTyped'
      BY <2>1, ArrivesAndFinishes
    <2>5. BegunBadly(c)
      BY <2>1, <2>3, FinishTyped DEF BegunBadly, new
    <2>6. \A d \in Calls \ {c} : Same(d)
      BY <2>1, FinishTyped DEF Same, PlaceTyped
    <2>7. QED
      BY <2>1, <2>3, <2>4, <2>5, <2>6 DEF Effect
  <1>4. QED
    BY <1>1, <1>2, <1>3 DEF Arrive, RefuseForPoints, RefuseUnknownModel

\* sweep_stale closes one row of one call.
LEMMA SweepEffect ==
    ASSUME PlaceTyped, LocalsTyped, NEW c \in Calls, NEW i \in 1..2, Sweep(c, i)
    PROVE  PlaceTyped' /\ LocalsTyped' /\ Effect(c)
  <1> DEFINE new == [row[c] EXCEPT ![i] = "cancelled"]
  <1>1. /\ row[c][i] = "open" /\ row' = [row EXCEPT ![c] = new]
        /\ UNCHANGED <<pc, result, owner, at, locals, paid, rate>>
    BY DEF Sweep, accounts
  <1>2. new \in [1..2 -> RowStates]
    BY DEF PlaceTyped, RowStates
  <1> HIDE DEF new
  <1>3. PlaceTyped' /\ row'[c] = new
    BY <1>1, <1>2 DEF PlaceTyped
  <1>4. LocalsTyped'
    BY <1>1 DEF LocalsTyped, locals
  <1>5. Swept(c)
    BY <1>1, <1>3 DEF Swept, new
  <1>6. \A d \in Calls \ {c} : Same(d)
    BY <1>1 DEF Same, PlaceTyped
  <1>7. QED
    BY <1>3, <1>4, <1>5, <1>6 DEF Effect

\* What a step of a call may do to the points.
PointsStep ==
    /\ UNCHANGED moves
    /\ \/ UNCHANGED <<known, account>>
       \/ \E u \in Users, a \in Nat : Deduct(u, a)

\* Charging a call is a deduction from its user, if it has one.
LEMMA ChargeMoves ==
    ASSUME LocalsTyped, NEW c \in Calls, NEW used \in Usages \cup {0}, Charge(c, used),
           UNCHANGED moves
    PROVE  PointsStep
  <1>1. CASE owner[c] = Operator
    BY <1>1 DEF Charge, PointsStep
  <1>2. CASE owner[c] # Operator
    <2>1. owner[c] \in Users /\ rate \in Nat /\ used \in Nat
      BY <1>2, CallAssumption DEF LocalsTyped
    <2>2. used * rate \in Nat
      BY <2>1
    <2>3. CASE UNCHANGED <<known, account>>
      BY <2>3 DEF PointsStep
    <2>4. CASE Deduct(owner[c], used * rate)
      BY <2>1, <2>2, <2>4 DEF PointsStep
    <2>5. QED
      BY <1>2, <2>3, <2>4 DEF Charge
  <1>3. QED
    BY <1>1, <1>2

\* Every step of a call keeps the types and has an effect.
LEMMA StepEffect ==
    ASSUME PlaceTyped, LocalsTyped, NEW c \in Calls, Step(c)
    PROVE  PlaceTyped' /\ LocalsTyped' /\ Effect(c) /\ PointsStep
  <1> DEFINE Goal == PlaceTyped' /\ LocalsTyped' /\ Effect(c) /\ PointsStep
  <1>0. ASSUME UNCHANGED accounts PROVE PointsStep /\ UNCHANGED rate
    BY <1>0 DEF accounts, PointsStep
  <1>1. CASE Arrive(c)
    BY <1>1, <1>0, ArriveEffect
  <1>2. CASE Retry(c)
    <2>1. /\ pc[c] \in Working /\ pc' = [pc EXCEPT ![c] = "backoff"] /\ "backoff" \in Working
          /\ UNCHANGED <<result, at, row>> /\ UNCHANGED accounts
      BY <1>2 DEF Retry, Working
    <2>2. tries' \in [Calls -> 0..MaxRetries]
      BY <1>2, CallAssumption DEF Retry, LocalsTyped
    <2>3. LocalsTyped'
      BY <1>0, <1>2, <2>1, <2>2 DEF Retry, LocalsTyped
    <2>4. QED
      BY <1>0, <2>1, <2>3, MovedEffect
  <1>3. CASE StreamOpens(c)
    <2>1. /\ pc[c] \in Working /\ pc' = [pc EXCEPT ![c] = "opened"] /\ "opened" \in Working
          /\ UNCHANGED <<result, at, row>> /\ UNCHANGED accounts
      BY <1>3 DEF StreamOpens, Working
    <2>2. tries' \in [Calls -> 0..MaxRetries]
      BY <1>3, CallAssumption DEF StreamOpens, LocalsTyped
    <2>3. LocalsTyped'
      BY <1>0, <1>3, <2>1, <2>2 DEF StreamOpens, LocalsTyped
    <2>4. QED
      BY <1>0, <2>1, <2>3, MovedEffect
  <1>4. ASSUME NEW class \in Classes, Raise(c, class) PROVE Goal
    BY <1>0, <1>4, NextRouteEffect DEF Raise, Working
  <1>5. ASSUME NEW class \in Classes, ErrorStatus(c, class) PROVE Goal
    <2>1. /\ pc[c] \in Working /\ pc' = [pc EXCEPT ![c] = "errorbody"] /\ "errorbody" \in Working
          /\ UNCHANGED <<result, at, row>> /\ UNCHANGED accounts
      BY <1>5 DEF ErrorStatus, Working
    <2>2. tries' \in [Calls -> 0..MaxRetries] /\ failure' \in [Calls -> Classes \cup {"none"}]
      BY <1>5, CallAssumption DEF ErrorStatus, LocalsTyped
    <2>3. LocalsTyped'
      BY <1>0, <1>5, <2>1, <2>2 DEF ErrorStatus, LocalsTyped
    <2>4. QED
      BY <1>0, <2>1, <2>3, MovedEffect
  <1>6. ASSUME NEW used \in Usages, Answer(c, used) PROVE Goal
    <2>1. /\ pc[c] \in Working /\ EndRow(c, "ok") /\ Finish(c, "ok") /\ Charge(c, used)
          /\ UNCHANGED <<owner, at, rate, moves>>
      BY <1>6 DEF Answer, Working
    <2>2. QED
      BY <2>1, AnswerEffect, ChargeMoves
  <1>7. CASE BackoffEnds(c)
    <2>1. /\ pc[c] \in Working /\ pc' = [pc EXCEPT ![c] = "sending"] /\ "sending" \in Working
          /\ UNCHANGED <<result, at, row, owner, locals>> /\ UNCHANGED accounts
      BY <1>7 DEF BackoffEnds, Working
    <2>2. LocalsTyped'
      BY <1>0, <2>1 DEF LocalsTyped, locals
    <2>3. QED
      BY <1>0, <2>1, <2>2, MovedEffect
  <1>8. CASE ErrorBodyRead(c)
    <2>1. pc[c] \in Working /\ UNCHANGED <<owner, accounts>> /\ "hard" \in Classes
      BY <1>8 DEF ErrorBodyRead, Working, Classes
    <2>2. CASE failure[c] = "client"
      BY <1>0, <1>8, <2>1, <2>2, EndsBadly DEF ErrorBodyRead
    <2>3. CASE failure[c] # "client"
      BY <1>0, <1>8, <2>1, <2>3, NextRouteEffect DEF ErrorBodyRead
    <2>4. QED
      BY <2>2, <2>3
  <1>9. CASE GeneratorStarts(c)
    <2>1. /\ pc[c] \in Working /\ pc' = [pc EXCEPT ![c] = "streaming"] /\ "streaming" \in Working
          /\ UNCHANGED <<result, at, row, owner, locals>> /\ UNCHANGED accounts
      BY <1>9 DEF GeneratorStarts, Working
    <2>2. LocalsTyped'
      BY <1>0, <2>1 DEF LocalsTyped, locals
    <2>3. QED
      BY <1>0, <2>1, <2>2, MovedEffect
  <1>10. CASE NeverStarts(c) \/ HandlerCancelled(c) \/ UsageUnreadable(c)
    <2>1. PICK how \in Unfinished :
            Finish(c, how) /\ pc[c] \in Working /\ UNCHANGED <<owner, at, row, accounts>>
      BY <1>10 DEF NeverStarts, HandlerCancelled, UsageUnreadable, Unfinished, Working
    <2>2. UNCHANGED accounts
      BY <2>1
    <2>3. QED
      BY <1>0, <2>1, <2>2, EndsUnfinished
  <1>11. ASSUME NEW used \in Usages, Chunk(c, used) PROVE Goal
    <2>1. /\ pc[c] \in Working /\ pc' = pc /\ "streaming" \in Working
          /\ UNCHANGED <<result, at, row>> /\ UNCHANGED accounts
      BY <1>11 DEF Chunk, Working
    <2>2. usage' \in [Calls -> Usages \cup {0}]
      BY <1>11 DEF Chunk, LocalsTyped
    <2>3. LocalsTyped'
      BY <1>0, <1>11, <2>1, <2>2 DEF Chunk, LocalsTyped
    <2>4. QED
      BY <1>0, <2>1, <2>3, MovedEffect
  <1>12. CASE StreamEnds(c)
    <2>1. /\ pc[c] \in Working /\ EndRow(c, "ok") /\ Finish(c, "ok") /\ Charge(c, usage[c])
          /\ UNCHANGED <<owner, at, rate, moves>> /\ usage[c] \in Usages \cup {0}
      BY <1>12 DEF StreamEnds, Working, LocalsTyped
    <2>2. QED
      BY <2>1, AnswerEffect, ChargeMoves
  <1>13. CASE ClientAborts(c) \/ StreamBreaks(c)
    BY <1>0, <1>13, EndsBadly DEF ClientAborts, StreamBreaks, Working
  <1>14. ASSUME NEW i \in 1..2, Sweep(c, i) PROVE Goal
    BY <1>0, <1>14, SweepEffect DEF Sweep
  <1>15. QED
    BY <1>1, <1>2, <1>3, <1>4, <1>5, <1>6, <1>7, <1>8, <1>9, <1>10, <1>11, <1>12, <1>13, <1>14
       DEF Step, Reply, Stream

-----------------------------------------------------------------------------
(* The steps of the system. *)

\* Every step keeps the invariant, and is a step of the contract or none.
LEMMA NextIInv ==
    ASSUME IInv, [Next]_vars
    PROVE  IInv' /\ [Contract!Next]_(Contract!vars)
  <1> USE DEF IInv
  <1>0. moves \in 0..MaxMoves /\ MaxMoves \in Nat
    BY AmountsTyped DEF PointsIInv, PointsTypeOK
  <1>1. ASSUME NEW c \in Calls, Step(c)
        PROVE  IInv' /\ [Contract!Next]_(Contract!vars)
    <2>1. PlaceTyped' /\ LocalsTyped' /\ Effect(c) /\ PointsStep
      BY <1>1, StepEffect
    <2>2. CallsInv'
      BY <2>1, EffectKeeps
    <2>3. [Contract!Next]_(Contract!vars)
      BY <2>1, EffectContract
    <2>4. PointsIInv'
      <3>1. CASE UNCHANGED <<known, account>>
        BY <1>0, <2>1, <3>1, QuietIInv DEF PointsStep
      <3>2. ASSUME NEW u \in Users, NEW a \in Nat, Deduct(u, a) PROVE PointsIInv'
        BY <1>0, <2>1, <3>2, DeductIInv DEF PointsStep
      <3>3. QED
        BY <2>1, <3>1, <3>2 DEF PointsStep
    <2>5. QED
      BY <2>1, <2>2, <2>3, <2>4
  <1>2. ASSUME UNCHANGED <<pc, result, at, row, paid>>
        PROVE  PlaceTyped' /\ CallsInv' /\ UNCHANGED Contract!vars
    <2>1. PlaceTyped'
      BY <1>2 DEF PlaceTyped
    <2>2. \A c \in Calls : CallInv(c)'
      BY <1>2, SameKeeps DEF CallsInv, Same
    <2>3. \A c \in Calls : StateOf(c)' = StateOf(c)
      BY <1>2 DEF StateOf
    <2>4. [c \in Calls |-> StateOf(c)]' = [c \in Calls |-> StateOf(c)]
      BY <2>3
    <2>5. QED
      BY <1>2, <2>1, <2>2, <2>4 DEF CallsInv, Contract!vars
  <1>3. ASSUME NEW newRate \in Rates, Reload(newRate)
        PROVE  IInv' /\ [Contract!Next]_(Contract!vars)
    <2>1. LocalsTyped' /\ moves' \in 0..MaxMoves
      BY <1>0, <1>3 DEF Reload, LocalsTyped, locals
    <2>2. PointsIInv'
      BY <1>3, <2>1, QuietIInv DEF Reload
    <2>3. QED
      BY <1>2, <1>3, <2>1, <2>2 DEF Reload
  <1>4. ASSUME NEW u \in Users, MovePoints(u)
        PROVE  IInv' /\ [Contract!Next]_(Contract!vars)
    <2>1. LocalsTyped' /\ moves' \in 0..MaxMoves
      BY <1>0, <1>4 DEF MovePoints, LocalsTyped, locals
    <2>2. Administer(u)
      BY <1>4 DEF MovePoints
    <2>3. PointsIInv'
      <3>1. ASSUME NEW b \in Balances, SetBalance(u, b) PROVE PointsIInv'
        BY <2>1, <3>1, SetBalanceIInv, AmountsTyped
      <3>2. CASE AddToUnlimited(u) \/ DeleteUser(u)
        BY <2>1, <3>2, QuietIInv DEF AddToUnlimited, DeleteUser
      <3>3. ASSUME NEW d \in Deltas, AddPoints(u, d) PROVE PointsIInv'
        BY <2>1, <3>3, AddPointsIInv, AmountsTyped
      <3>4. QED
        BY <2>2, <3>1, <3>2, <3>3 DEF Administer
    <2>4. QED
      BY <1>2, <1>4, <2>1, <2>3 DEF MovePoints
  <1>5. CASE UNCHANGED vars
    <2>1. LocalsTyped'
      BY <1>5 DEF vars, locals, accounts, LocalsTyped
    <2>2. PointsIInv'
      BY <1>0, <1>5, QuietIInv DEF vars, accounts
    <2>3. QED
      BY <1>2, <1>5, <2>1, <2>2 DEF vars, accounts
  <1>6. QED
    BY <1>1, <1>3, <1>4, <1>5 DEF Next

\* The calls begin as the contract does.
LEMMA InitIInv == Init => IInv /\ Contract!Init
  <1> SUFFICES ASSUME Init PROVE IInv /\ Contract!Init
    OBVIOUS
  <1>1. PlaceTyped
    BY DEF Init, PlaceTyped, Places, Results, RowStates
  <1>2. LocalsTyped
    <2>1. stream \in [Calls -> BOOLEAN] /\ fallback \in [Calls -> BOOLEAN]
      BY DEF Init
    <2>2. QED
      BY <2>1, CallAssumption DEF Init, LocalsTyped
  <1>3. CallsInv
    BY DEF Init, CallsInv, CallInv, Working
  <1>4. PointsIInv
    BY AmountsTyped DEF Init, PointsInit, PointsIInv, PointsTypeOK, LedgerExplainsBalance,
                        SpentCoversLedger, Unlimited
  <1>5. Contract!Init
    BY DEF Init, Contract!Init, StateOf
  <1>6. QED
    BY <1>1, <1>2, <1>3, <1>4, <1>5 DEF IInv

-----------------------------------------------------------------------------
\* The inductive invariant holds in every behaviour.
THEOREM InvariantHolds == SafeSpec => []IInv
  <1>1. Init => IInv
    BY InitIInv
  <1>2. IInv /\ [Next]_vars => IInv'
    BY NextIInv
  <1>3. QED
    BY <1>1, <1>2, PTL DEF SafeSpec

\* Type correctness, the points of the users included.
THEOREM TypeCorrect == SafeSpec => []TypeOK
  <1>1. ASSUME IInv PROVE TypeOK
    <2>1. usage \in [Calls -> Nat] /\ rate \in Nat
      <3>1. usage \in [Calls -> Usages \cup {0}] /\ rate \in Rates
        BY <1>1, Zenon DEF IInv, LocalsTyped
      <3>2. Usages \subseteq Nat /\ Rates \subseteq Nat
        BY CallAssumption
      <3>3. Usages \cup {0} \subseteq Nat
        BY <3>2
      <3>4. \A c \in Calls : usage[c] \in Nat
        BY <3>1, <3>3
      <3>5. usage \in [Calls -> Nat]
        BY <3>1, <3>4
      <3>6. QED
        BY <3>1, <3>2, <3>5
    <2>2. PlaceTyped /\ LocalsTyped /\ PointsTypeOK
      BY <1>1 DEF IInv, PointsIInv
    <2>3. /\ pc \in [Calls -> {"new", "sending", "backoff", "errorbody", "opened", "streaming", "done"}]
          /\ result \in [Calls -> {"none", "refused", "ok", "error", "cancelled"} \cup Unfinished]
      BY <2>2 DEF PlaceTyped, Places, Working, Results
    <2>4. QED
      BY <2>1, <2>2, <2>3, Zenon DEF TypeOK, PlaceTyped, LocalsTyped
  <1>2. QED
    BY <1>1, InvariantHolds, PTL

\* No row is left open behind a call that is over, except behind a handler that was
\* cancelled while it awaited or raised outside the try, and behind a stream that
\* was never started.
THEOREM RowsOwned == SafeSpec => []RowsHaveOwners
  <1>1. ASSUME IInv PROVE RowsHaveOwners
    <2> SUFFICES ASSUME NEW c \in Calls, NEW i \in 1..2, row[c][i] = "open"
                 PROVE  at[c] = i /\ (pc[c] \notin {"new", "done"} \/ result[c] \in Unfinished)
      BY DEF RowsHaveOwners
    <2>1. CallInv(c) /\ at[c] \in 1..2 /\ result[c] \in Results
      BY <1>1 DEF IInv, CallsInv, PlaceTyped
    <2>2. at[c] = i
      BY <2>1 DEF CallInv
    <2>3. QED
      BY <2>1, <2>2 DEF CallInv, Results
  <1>2. QED
    BY <1>1, InvariantHolds, PTL

\* The row of a finished call says how it ended, unless it was swept; an attempt
\* given up for the fallback model is no success.
THEOREM RowsTell == SafeSpec => []RowsTellResult
  <1>1. ASSUME IInv PROVE RowsTellResult
    BY <1>1 DEF IInv, CallsInv, CallInv, RowsTellResult
  <1>2. QED
    BY <1>1, InvariantHolds, PTL

\* Calls in flight together keep every balance explained by its ledger.
THEOREM LedgerKept == SafeSpec => [](LedgerExplainsBalance /\ SpentCoversLedger)
  <1>1. IInv => LedgerExplainsBalance /\ SpentCoversLedger
    BY DEF IInv, PointsIInv
  <1>2. QED
    BY <1>1, InvariantHolds, PTL

\* The calls implement the contract: paid at most once, by the step that answers.
THEOREM ImplementsContract == SafeSpec => MeteredCalls
  <1>1. Init => Contract!Init
    BY InitIInv
  <1>2. IInv /\ [Next]_vars => [Contract!Next]_(Contract!vars)
    BY NextIInv
  <1>3. QED
    BY <1>1, <1>2, InvariantHolds, PTL DEF SafeSpec, MeteredCalls, Contract!Spec

-----------------------------------------------------------------------------
FallsBackHard == \A c \in Calls : stream[c] /\ at[c] # at'[c] => failure'[c] = "hard"

\* A stream that was refused with a 4xx keeps its route.
LEMMA NextFallsBackHard ==
    ASSUME IInv, [Next]_vars
    PROVE  FallsBackHard
  <1>0. /\ at \in [Calls -> 1..2] /\ failure \in [Calls -> Classes \cup {"none"}]
        /\ stream \in [Calls -> BOOLEAN]
    BY DEF IInv, PlaceTyped, LocalsTyped
  <1>1. ASSUME UNCHANGED at PROVE FallsBackHard
    BY <1>1 DEF FallsBackHard
  <1>2. ASSUME NEW c \in Calls, NextRoute(c, "hard") PROVE FallsBackHard
    <2>1. CASE fallback[c] /\ at[c] = 1
      <3>1. at' = [at EXCEPT ![c] = 2] /\ failure' = [failure EXCEPT ![c] = "hard"]
        BY <1>2, <2>1 DEF NextRoute
      <3>2. QED
        BY <1>0, <3>1 DEF FallsBackHard
    <2>2. CASE ~(fallback[c] /\ at[c] = 1)
      BY <1>1, <1>2, <2>2 DEF NextRoute
    <2>3. QED
      BY <2>1, <2>2
  <1>3. ASSUME NEW c \in Calls, NEW class \in Classes, Raise(c, class) PROVE FallsBackHard
    <2>1. CASE class = "hard"
      BY <1>2, <1>3, <2>1 DEF Raise
    <2>2. CASE class # "hard"
      <3>1. ~stream[c] /\ NextRoute(c, class)
        BY <1>3, <2>2 DEF Raise, Classes
      <3>2. \A d \in Calls \ {c} : at'[d] = at[d]
        BY <1>0, <3>1 DEF NextRoute
      <3>3. QED
        BY <3>1, <3>2 DEF FallsBackHard
    <2>3. QED
      BY <2>1, <2>2
  <1>4. ASSUME NEW c \in Calls, ErrorBodyRead(c) PROVE FallsBackHard
    BY <1>1, <1>2, <1>4 DEF ErrorBodyRead
  <1>5. ASSUME NEW c \in Calls, Step(c) PROVE FallsBackHard
    BY <1>1, <1>3, <1>4, <1>5
       DEF Step, Arrive, RefuseForPoints, RefuseUnknownModel, Refuse, Begin, BeginRaises,
           Reply, Retry, StreamOpens, UsageUnreadable, ErrorStatus, Answer, BackoffEnds,
           HandlerCancelled, Stream, GeneratorStarts, NeverStarts, Chunk, StreamEnds,
           ClientAborts, StreamBreaks, Sweep
  <1>6. QED
    BY <1>1, <1>5 DEF Next, Reload, MovePoints, vars

\* A stream refused with a 4xx never goes on to the fallback model.
THEOREM StreamFallback == SafeSpec => StreamFallsBackOnHardErrors
  <1>1. IInv /\ [Next]_vars => [FallsBackHard]_vars
    BY NextFallsBackHard
  <1>2. QED
    BY <1>1, InvariantHolds, PTL DEF SafeSpec, StreamFallsBackOnHardErrors, FallsBackHard

-----------------------------------------------------------------------------
(* What the calls of a user paid is what the user spent. *)

\* What a call took from u, when own is who the calls are charged to.
Share(own, p, u) == [c \in Calls |-> IF own[c] = u THEN p[c] ELSE 0]

Mine(own, u) == {c \in Calls : own[c] = u}

\* The points of u that went to its calls, as a sum over all calls.
LEMMA SharesAreMine ==
    ASSUME NEW own, NEW p \in [Calls -> Nat], NEW u
    PROVE  SumFunctionOnSet(p, Mine(own, u)) = SumFunctionOnSet(Share(own, p, u), Calls)
  <1> DEFINE mine == Mine(own, u)
             share == Share(own, p, u)
  <1>1. mine \in SUBSET Calls /\ \A c \in Calls : p[c] \in Int
    BY DEF Mine
  <1>2. \A c \in Calls : share[c] = IF c \in mine THEN p[c] ELSE 0
    BY DEF Share, Mine
  <1> HIDE DEF mine, share
  <1>3. SumFunctionOnSet(share, Calls) = SumFunctionOnSet(p, mine)
    BY <1>1, <1>2, SumOfChosen, CallsFinite
  <1>4. QED
    BY <1>3 DEF mine, share

\* Who is charged changes only when the call arrives, before it paid anything;
\* what is paid and what is spent change only by a charge.
LEMMA StepCharges ==
    ASSUME PlaceTyped, LocalsTyped, CallsInv, NEW c \in Calls, Step(c)
    PROVE  /\ \A d \in Calls \ {c} : owner'[d] = owner[d]
           /\ \/ UNCHANGED <<spent, paid>> /\ (owner' = owner \/ paid[c] = 0)
              \/ owner' = owner /\ \E used \in Usages \cup {0} : Charge(c, used)
  <1> DEFINE Goal == /\ \A d \in Calls \ {c} : owner'[d] = owner[d]
                     /\ \/ UNCHANGED <<spent, paid>> /\ (owner' = owner \/ paid[c] = 0)
                        \/ owner' = owner /\ \E used \in Usages \cup {0} : Charge(c, used)
  <1>1. ASSUME NEW u \in Users \cup {Operator}, owner' = [owner EXCEPT ![c] = u],
               pc[c] = "new", UNCHANGED accounts
        PROVE  Goal
    <2>1. UNCHANGED <<spent, paid>>
      BY <1>1 DEF accounts, account
    <2>2. paid[c] = 0
      BY <1>1 DEF CallsInv, CallInv
    <2>3. \A d \in Calls \ {c} : owner'[d] = owner[d]
      BY <1>1 DEF LocalsTyped
    <2>4. QED
      BY <2>1, <2>2, <2>3
  <1>2. ASSUME owner' = owner, UNCHANGED accounts PROVE Goal
    BY <1>2 DEF accounts, account
  <1>3. CASE Arrive(c)
    BY <1>1, <1>3 DEF Arrive, RefuseForPoints, RefuseUnknownModel, Refuse, Begin, BeginRaises
  <1>4. CASE Reply(c)
    <2>1. ASSUME NEW used \in Usages, Answer(c, used) PROVE Goal
      BY <2>1 DEF Answer
    <2>2. QED
      BY <1>2, <1>4, <2>1 DEF Reply, Retry, StreamOpens, UsageUnreadable, Raise, ErrorStatus
  <1>5. CASE BackoffEnds(c) \/ ErrorBodyRead(c) \/ HandlerCancelled(c)
    BY <1>2, <1>5 DEF BackoffEnds, ErrorBodyRead, HandlerCancelled
  <1>6. CASE Stream(c)
    <2>1. CASE StreamEnds(c)
      <3>1. usage[c] \in Usages \cup {0}
        BY DEF LocalsTyped
      <3>2. QED
        BY <2>1, <3>1 DEF StreamEnds
    <2>2. QED
      BY <1>2, <1>6, <2>1 DEF Stream, GeneratorStarts, NeverStarts, Chunk, ClientAborts, StreamBreaks
  <1>7. CASE \E i \in 1..2 : Sweep(c, i)
    BY <1>2, <1>7 DEF Sweep
  <1>8. QED
    BY <1>3, <1>4, <1>5, <1>6, <1>7 DEF Step

\* A charge adds to the points its owner spent what the call paid, also when the
\* balance did not cover it or its row could not be written.
LEMMA ChargeSpends ==
    ASSUME LocalsTyped, PlaceTyped, PointsTypeOK, NEW c \in Calls,
           NEW used \in Usages \cup {0}, Charge(c, used)
    PROVE  /\ \A d \in Calls \ {c} : paid'[d] = paid[d]
           /\ \A u \in Users :
                spent'[u] = spent[u] + IF owner[c] = u THEN paid'[c] - paid[c] ELSE 0
  <1> DEFINE amount == used * rate
  <1>1. amount \in Nat
    BY CallAssumption DEF LocalsTyped
  <1>2. /\ paid \in [Calls -> Nat] /\ spent \in [Users -> Nat] /\ known \subseteq Users
        /\ owner[c] \in Users \cup {Operator} /\ Operator \notin Users
    BY CallAssumption DEF PlaceTyped, LocalsTyped, PointsTypeOK
  <1> HIDE DEF amount
  <1>3. CASE UNCHANGED <<known, account, paid>>
    BY <1>2, <1>3 DEF account
  <1>4. CASE owner[c] = Operator /\ UNCHANGED <<known, account>>
             /\ paid' = [paid EXCEPT ![c] = @ + IF owner[c] \in known THEN amount ELSE 0]
    <2>1. owner[c] \notin known /\ spent' = spent
      BY <1>2, <1>4 DEF account
    <2>2. paid' = [paid EXCEPT ![c] = @ + 0]
      BY <1>4, <2>1
    <2>3. QED
      BY <1>2, <1>4, <2>1, <2>2
  <1>5. CASE owner[c] \in Users /\ Deduct(owner[c], amount)
             /\ paid' = [paid EXCEPT ![c] = @ + IF owner[c] \in known THEN amount ELSE 0]
    <2>1. CASE owner[c] \in known /\ spent' = [spent EXCEPT ![owner[c]] = @ + amount]
      <3>1. paid' = [paid EXCEPT ![c] = @ + amount]
        BY <1>5, <2>1
      <3>2. paid'[c] = paid[c] + amount /\ \A d \in Calls \ {c} : paid'[d] = paid[d]
        BY <1>1, <1>2, <3>1
      <3>3. \A u \in Users : spent'[u] = spent[u] + IF owner[c] = u THEN amount ELSE 0
        BY <1>1, <1>2, <2>1
      <3>4. paid'[c] - paid[c] = amount
        BY <1>1, <1>2, <3>2
      <3>5. QED
        BY <3>2, <3>3, <3>4
    <2>2. CASE (owner[c] \notin known \/ amount = 0) /\ spent' = spent
      <3>1. paid' = [paid EXCEPT ![c] = @ + 0]
        BY <1>5, <2>2
      <3>2. paid'[c] = paid[c] /\ \A d \in Calls \ {c} : paid'[d] = paid[d]
        BY <1>2, <3>1
      <3>3. QED
        BY <1>2, <2>2, <3>2
    <2>3. QED
      BY <1>5, <2>1, <2>2
         DEF Deduct, DeductFromUnlimited, DeductFromBalance, DeductUnlogged, account
  <1>6. QED
    BY <1>2, <1>3, <1>4, <1>5 DEF Charge, amount

\* Every step keeps what was spent equal to what was paid.
LEMMA NextSpentIsPaid ==
    ASSUME IInv, IInv', SpentIsPaid, [Next]_vars
    PROVE  SpentIsPaid'
  <1>1. /\ PlaceTyped /\ PlaceTyped' /\ LocalsTyped /\ CallsInv /\ PointsTypeOK
        /\ paid \in [Calls -> Nat] /\ paid' \in [Calls -> Nat] /\ spent \in [Users -> Nat]
    BY DEF IInv, PointsIInv, PointsTypeOK, PlaceTyped
  <1>2. ASSUME UNCHANGED <<owner, paid, spent>> PROVE SpentIsPaid'
    BY <1>2 DEF SpentIsPaid
  <1>3. ASSUME NEW c \in Calls, Step(c) PROVE SpentIsPaid'
    <2>1. /\ \A d \in Calls \ {c} : owner'[d] = owner[d]
          /\ \/ UNCHANGED <<spent, paid>> /\ (owner' = owner \/ paid[c] = 0)
             \/ owner' = owner /\ \E used \in Usages \cup {0} : Charge(c, used)
      BY <1>1, <1>3, StepCharges
    <2> SUFFICES ASSUME NEW u \in Users
                 PROVE  spent'[u] = SumFunctionOnSet(paid', Mine(owner', u))
      BY DEF SpentIsPaid, Mine
    <2> DEFINE before == SumFunctionOnSet(paid, Mine(owner, u))
               after == SumFunctionOnSet(paid', Mine(owner', u))
               f == Share(owner, paid, u)
               g == Share(owner', paid', u)
    <2>2. before = spent[u]
      BY DEF SpentIsPaid, Mine
    <2>3. /\ f[c] = IF owner[c] = u THEN paid[c] ELSE 0
          /\ g[c] = IF owner'[c] = u THEN paid'[c] ELSE 0
      BY DEF Share
    <2>4. ASSUME \A d \in Calls \ {c} : paid'[d] = paid[d]
          PROVE  after = before - f[c] + g[c]
      <3>1. /\ \A d \in Calls \ {c} : owner'[d] = owner[d] /\ paid'[d] = paid[d]
            /\ paid \in [Calls -> Nat] /\ paid' \in [Calls -> Nat]
        BY <1>1, <2>1, <2>4
      <3>2. \A d \in Calls : f[d] \in Int /\ g[d] \in Int /\ (d # c => g[d] = f[d])
        BY <3>1 DEF Share
      <3>3. before = SumFunctionOnSet(f, Calls)
        BY <3>1, SharesAreMine
      <3>4. after = SumFunctionOnSet(g, Calls)
        BY <3>1, SharesAreMine
      <3> HIDE DEF f, g
      <3>5. SumFunctionOnSet(g, Calls) = SumFunctionOnSet(f, Calls) - f[c] + g[c]
        BY <3>2, SumChange, CallsFinite
      <3>6. QED
        BY <3>3, <3>4, <3>5
    <2> HIDE DEF before, after, f, g
    <2>5. CASE UNCHANGED <<spent, paid>> /\ (owner' = owner \/ paid[c] = 0)
      <3>1. f[c] = g[c] /\ f[c] \in Nat
        BY <1>1, <2>3, <2>5
      <3>2. after = before
        BY <1>1, <2>2, <2>4, <2>5, <3>1
      <3>3. QED
        BY <2>2, <2>5, <3>2 DEF after
    <2>6. ASSUME owner' = owner, NEW used \in Usages \cup {0}, Charge(c, used)
          PROVE  spent'[u] = after
      <3>1. /\ \A d \in Calls \ {c} : paid'[d] = paid[d]
            /\ spent'[u] = spent[u] + IF owner[c] = u THEN paid'[c] - paid[c] ELSE 0
        BY <1>1, <2>6, ChargeSpends
      <3>2. after = before - f[c] + g[c]
        BY <2>4, <3>1
      <3>3. paid[c] \in Nat /\ paid'[c] \in Nat /\ spent[u] \in Nat
        BY <1>1
      <3>4. QED
        BY <2>2, <2>3, <2>6, <3>1, <3>2, <3>3
    <2>7. QED
      BY <2>1, <2>5, <2>6 DEF after
  <1>4. CASE UNCHANGED vars
    BY <1>2, <1>4 DEF vars, accounts, account
  <1>5. ASSUME NEW newRate \in Rates, Reload(newRate) PROVE SpentIsPaid'
    BY <1>2, <1>5 DEF Reload, account
  <1>6. ASSUME NEW u \in Users, MovePoints(u) PROVE SpentIsPaid'
    BY <1>2, <1>6 DEF MovePoints, Administer, SetBalance, AddToUnlimited, AddPoints, DeleteUser, account
  <1>7. QED
    BY <1>3, <1>4, <1>5, <1>6 DEF Next

\* At the start nobody spent and no call paid.
LEMMA InitSpentIsPaid == Init => SpentIsPaid
  <1> SUFFICES ASSUME Init, NEW u \in Users
               PROVE  spent[u] = SumFunctionOnSet(paid, {c \in Calls : owner[c] = u})
    BY DEF SpentIsPaid
  <1> DEFINE mine == {c \in Calls : owner[c] = u}
  <1>1. IsFiniteSet(mine)
    BY CallsFinite, FS_Subset
  <1>2. \A c \in mine : paid[c] = 0
    BY DEF Init
  <1> HIDE DEF mine
  <1>3. SumFunctionOnSet(paid, mine) = 0
    BY <1>1, <1>2, SumOfZeros
  <1>4. QED
    BY <1>3 DEF mine, Init, PointsInit

\* What a user spent is what its calls paid, whatever calls ran at the same time,
\* were retried, aborted or charged after the rates changed.
THEOREM SpentPaid == SafeSpec => []SpentIsPaid
  <1>1. Init => SpentIsPaid
    BY InitSpentIsPaid
  <1>2. IInv /\ IInv' /\ SpentIsPaid /\ [Next]_vars => SpentIsPaid'
    BY NextSpentIsPaid
  <1>3. QED
    BY <1>1, <1>2, InvariantHolds, PTL DEF SafeSpec
=============================================================================
