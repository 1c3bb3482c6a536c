----------------------------- MODULE ProxyCall -----------------------------
(***************************************************************************)
(* One model call from the points gate to its last byte: _proxy_call       *)
(* (app.py) with the retries of the adapter (adapters/base.py), the        *)
(* fallback model, the row each attempt has on the monitor, the stream     *)
(* handed to the client, and the points taken when it ends.                *)
(*                                                                         *)
(* The handlers run on one event loop: an action is what happens between   *)
(* two awaits.  While a call waits for the upstream, sleeps before a       *)
(* retry, or hands a chunk to the client, other calls run, operators move  *)
(* points and reload the rates, and sweep_stale may end the row of an      *)
(* attempt that takes too long.                                            *)
(*                                                                         *)
(* The points of the users are those of Points.  The monitor is its rows   *)
(* alone: whether each is open, or how it ended (Monitor has the rest).    *)
(* Admission and authentication come before; the route is given.           *)
(***************************************************************************)
EXTENDS Points, FiniteSets, Functions

CONSTANTS
    Calls,
    Operator,    \* callers without a user: the master key, or no keys at all
    MaxRetries,  \* max_retries of the provider
    Usages,      \* tokens of an answer, in thousands
    Rates        \* points for a thousand tokens

ASSUME CallsFinite == IsFiniteSet(Calls)

ASSUME CallAssumption ==
    /\ Operator \notin Users /\ MaxRetries \in Nat
    /\ Usages \subseteq Nat /\ Rates \subseteq Nat
    /\ 0 \in Amounts /\ \A x \in Usages, y \in Rates : x * y \in Amounts

VARIABLES
    pc,        \* where each call is
    result,    \* how a finished call ended
    owner,     \* the user it is charged to
    stream,    \* calls that asked for a stream
    fallback,  \* calls with a second route
    at,        \* the attempt a call is at
    tries,     \* the retries of this attempt
    row,       \* the monitor's row of each attempt
    usage,     \* what the sniffer has read from the stream
    failure,   \* what the last failed attempt met: "client" for a 4xx answer
    paid,      \* ghost: what each call took from its owner
    rate       \* the rates of the configuration

locals == <<stream, fallback, tries, usage, failure>>
accounts == <<paid, rate, known, account, moves>>
vars == <<pc, result, owner, at, row, locals, accounts>>

-----------------------------------------------------------------------------
(* Rows, routes and points. *)

\* monitor.end of the current attempt: only an open row is ended.
EndRow(c, outcome) ==
    row' = IF row[c][at[c]] = "open" THEN [row EXCEPT ![c][at[c]] = outcome] ELSE row

\* _check_points_before_upstream lets the call pass.
GatePasses(u) ==
    rate > 0 /\ u \in known => balance[u] = Unlimited \/ balance[u] > 0

Charge_PerAttempt(c, used) ==
    /\ IF owner[c] = Operator
       THEN UNCHANGED <<known, account>>
       ELSE Deduct(owner[c], used * rate * at[c])
    /\ paid' = [paid EXCEPT ![c] = @ + IF owner[c] \in known THEN used * rate ELSE 0]

\* _deduct_points_after_success, at the rates of this moment.  It swallows every
\* error of the store: what the call got is then free, or has no row in the ledger.
Charge(c, used) ==
    \/ /\ IF owner[c] = Operator
          THEN UNCHANGED <<known, account>>
          ELSE Deduct(owner[c], used * rate)
       /\ paid' = [paid EXCEPT ![c] = @ + IF owner[c] \in known THEN used * rate ELSE 0]
    \/ UNCHANGED <<known, account, paid>>

\* The handler or the generator is done, and its local variables are gone.
Finish(c, how) ==
    /\ pc' = [pc EXCEPT ![c] = "done"]
    /\ result' = [result EXCEPT ![c] = how]
    /\ stream' = [stream EXCEPT ![c] = FALSE]
    /\ fallback' = [fallback EXCEPT ![c] = FALSE]
    /\ tries' = [tries EXCEPT ![c] = 0]
    /\ usage' = [usage EXCEPT ![c] = 0]
    /\ failure' = [failure EXCEPT ![c] = "none"]

\* The attempt failed, and the loop goes on to the next route, if there is one.
NextRoute(c, class) ==
    IF fallback[c] /\ at[c] = 1
    THEN /\ row' = [row EXCEPT ![c] = [i \in 1..2 |->
                      IF i = 2 THEN "open" ELSE IF @[1] = "open" THEN "error" ELSE @[1]]]
         /\ at' = [at EXCEPT ![c] = 2]
         /\ tries' = [tries EXCEPT ![c] = 0]
         /\ pc' = [pc EXCEPT ![c] = "sending"]
         /\ failure' = [failure EXCEPT ![c] = class]
         /\ UNCHANGED <<result, stream, fallback, usage>>
    ELSE EndRow(c, "error") /\ Finish(c, "error") /\ UNCHANGED at

-----------------------------------------------------------------------------
(* Up to the upstream's answer. *)

\* No points, or a model no provider has.
Refuse(c, u) ==
    /\ pc[c] = "new"
    /\ Finish(c, "refused")
    /\ owner' = [owner EXCEPT ![c] = u]
    /\ UNCHANGED <<at, row, accounts>>

RefuseForPoints(c, u) == ~GatePasses(u) /\ Refuse(c, u)
RefuseUnknownModel(c, u) == GatePasses(u) /\ Refuse(c, u)

Begin(c, u, s, f) ==
    /\ pc[c] = "new" /\ GatePasses(u)
    /\ pc' = [pc EXCEPT ![c] = "sending"]
    /\ owner' = [owner EXCEPT ![c] = u]
    /\ stream' = [stream EXCEPT ![c] = s]
    /\ fallback' = [fallback EXCEPT ![c] = f]
    /\ row' = [row EXCEPT ![c][1] = "open"]
    /\ UNCHANGED <<result, at, tries, usage, failure, accounts>>

\* The row is there, but the attempt cannot be prepared (a max_tokens that int()
\* cannot take): the exception leaves the handler before anything is sent.
BeginRaises(c, u) ==
    /\ pc[c] = "new" /\ GatePasses(u)
    /\ Finish(c, "crashed")
    /\ owner' = [owner EXCEPT ![c] = u]
    /\ row' = [row EXCEPT ![c][1] = "open"]
    /\ UNCHANGED <<at, accounts>>

Retry_OffByOne(c) ==
    /\ pc[c] = "sending" /\ tries[c] <= MaxRetries
    /\ tries' = [tries EXCEPT ![c] = @ + 1]
    /\ pc' = [pc EXCEPT ![c] = "backoff"]
    /\ UNCHANGED <<result, owner, at, row, stream, fallback, usage, failure, accounts>>

Retry_Uncounted(c) ==
    /\ pc[c] = "sending"
    /\ pc' = [pc EXCEPT ![c] = "backoff"]
    /\ UNCHANGED <<result, owner, at, row, locals, accounts>>

\* A retryable status or transport error, with retries left.
Retry(c) ==
    /\ pc[c] = "sending" /\ tries[c] < MaxRetries
    /\ tries' = [tries EXCEPT ![c] = @ + 1]
    /\ pc' = [pc EXCEPT ![c] = "backoff"]
    /\ UNCHANGED <<result, owner, at, row, stream, fallback, usage, failure, accounts>>

BackoffEnds(c) ==
    /\ pc[c] = "backoff"
    /\ pc' = [pc EXCEPT ![c] = "sending"]
    /\ UNCHANGED <<result, owner, at, row, locals, accounts>>

\* The adapter raises: a status of a non-streaming call, which _request_with_retries
\* turns into an UpstreamError whatever it is, or a transport error, or an answer
\* that cannot be read.  Every such error goes on to the next route.
Raise(c, class) ==
    /\ pc[c] = "sending"
    /\ class = "client" => ~stream[c]
    /\ NextRoute(c, class)
    /\ UNCHANGED <<owner, accounts>>

\* An answer to a call that wanted no stream.
Answer(c, used) ==
    /\ pc[c] = "sending" /\ ~stream[c]
    /\ EndRow(c, "ok") /\ Finish(c, "ok")
    /\ Charge(c, used)
    /\ UNCHANGED <<owner, at, rate, moves>>

\* An answer whose usage int() cannot read: the exception is met outside the try,
\* so it leaves the handler, and nobody ends the row.
UsageUnreadable(c) ==
    /\ pc[c] = "sending" /\ ~stream[c]
    /\ Finish(c, "crashed")
    /\ UNCHANGED <<owner, at, row, accounts>>

\* The handler's task is cancelled where it awaits: the upstream, the end of a
\* sleep, or an error body.  `except Exception` does not catch that, so nobody
\* ends the row.
HandlerCancelled(c) ==
    /\ pc[c] \in {"sending", "backoff", "errorbody"}
    /\ Finish(c, "dropped")
    /\ UNCHANGED <<owner, at, row, accounts>>

\* An error status instead of a stream: its body is read first.
ErrorStatus(c, class) ==
    /\ pc[c] = "sending" /\ stream[c]
    /\ failure' = [failure EXCEPT ![c] = class]
    /\ pc' = [pc EXCEPT ![c] = "errorbody"]
    /\ tries' = [tries EXCEPT ![c] = 0]
    /\ UNCHANGED <<result, owner, at, row, stream, fallback, usage, accounts>>

ErrorBodyRead_AlwaysFallsBack(c) ==
    /\ pc[c] = "errorbody"
    /\ NextRoute(c, failure[c])
    /\ UNCHANGED <<owner, accounts>>

ErrorBodyRead_CountsOk(c) ==
    /\ pc[c] = "errorbody"
    /\ IF failure[c] = "client"
       THEN EndRow(c, "ok") /\ Finish(c, "error") /\ UNCHANGED at
       ELSE NextRoute(c, "hard")
    /\ UNCHANGED <<owner, accounts>>

\* A 4xx goes to the client, other errors go on to the next route.
ErrorBodyRead(c) ==
    /\ pc[c] = "errorbody"
    /\ IF failure[c] = "client"
       THEN EndRow(c, "error") /\ Finish(c, "error") /\ UNCHANGED at
       ELSE NextRoute(c, "hard")
    /\ UNCHANGED <<owner, accounts>>

\* The response is made; nothing has run of its generator.
StreamOpens(c) ==
    /\ pc[c] = "sending" /\ stream[c]
    /\ pc' = [pc EXCEPT ![c] = "opened"]
    /\ tries' = [tries EXCEPT ![c] = 0]
    /\ UNCHANGED <<result, owner, at, row, stream, fallback, usage, failure, accounts>>

-----------------------------------------------------------------------------
(* The stream. *)

GeneratorStarts(c) ==
    /\ pc[c] = "opened"
    /\ pc' = [pc EXCEPT ![c] = "streaming"]
    /\ UNCHANGED <<result, owner, at, row, locals, accounts>>

\* The client left before the first chunk was asked for: nobody ends the row.
NeverStarts(c) ==
    /\ pc[c] = "opened"
    /\ Finish(c, "unread")
    /\ UNCHANGED <<owner, at, row, accounts>>

\* A chunk with usage in it; the sniffer keeps the largest.
Chunk(c, used) ==
    /\ pc[c] = "streaming" /\ used > usage[c]
    /\ usage' = [usage EXCEPT ![c] = used]
    /\ UNCHANGED <<pc, result, owner, at, row, stream, fallback, tries, failure, accounts>>

StreamEnds(c) ==
    /\ pc[c] = "streaming"
    /\ EndRow(c, "ok") /\ Finish(c, "ok")
    /\ Charge(c, usage[c])
    /\ UNCHANGED <<owner, at, rate, moves>>

ClientAborts_Charges(c) ==
    /\ pc[c] = "streaming"
    /\ EndRow(c, "cancelled") /\ Finish(c, "cancelled")
    /\ Charge(c, usage[c])
    /\ UNCHANGED <<owner, at, rate, moves>>

\* The client disconnects: the generator is closed or cancelled.
ClientAborts(c) ==
    /\ pc[c] = "streaming"
    /\ EndRow(c, "cancelled") /\ Finish(c, "cancelled")
    /\ UNCHANGED <<owner, at, accounts>>

StreamBreaks_LeavesRow(c) ==
    /\ pc[c] = "streaming"
    /\ Finish(c, "error")
    /\ UNCHANGED <<owner, at, row, accounts>>

\* The upstream breaks off: the client gets an error frame.
StreamBreaks(c) ==
    /\ pc[c] = "streaming"
    /\ EndRow(c, "error") /\ Finish(c, "error")
    /\ UNCHANGED <<owner, at, accounts>>

-----------------------------------------------------------------------------
(* Everybody else. *)

\* sweep_stale ends a row that has been open too long, whoever still uses it.
Sweep(c, i) ==
    /\ row[c][i] = "open"
    /\ row' = [row EXCEPT ![c][i] = "cancelled"]
    /\ UNCHANGED <<pc, result, owner, at, locals, accounts>>

\* A reload of the configuration changes the rates, or an operator the points.
Reload(newRate) ==
    /\ moves < MaxMoves /\ moves' = moves + 1
    /\ rate' = newRate
    /\ UNCHANGED <<pc, result, owner, at, row, locals, paid, known, account>>

MovePoints(u) ==
    /\ moves < MaxMoves /\ moves' = moves + 1
    /\ Administer(u)
    /\ UNCHANGED <<pc, result, owner, at, row, locals, paid, rate>>

Init ==
    /\ pc = [c \in Calls |-> "new"] /\ result = [c \in Calls |-> "none"]
    /\ owner = [c \in Calls |-> Operator] /\ stream = [c \in Calls |-> FALSE]
    /\ fallback = [c \in Calls |-> FALSE] /\ at = [c \in Calls |-> 1]
    /\ tries = [c \in Calls |-> 0] /\ usage = [c \in Calls |-> 0]
    /\ row = [c \in Calls |-> [i \in 1..2 |-> "none"]]
    /\ failure = [c \in Calls |-> "none"] /\ paid = [c \in Calls |-> 0]
    /\ rate \in Rates
    /\ PointsInit

Classes == {"client", "hard"}

Arrive(c) == \E u \in Users \cup {Operator} :
    \/ RefuseForPoints(c, u) \/ RefuseUnknownModel(c, u) \/ BeginRaises(c, u)
    \/ \E s, f \in BOOLEAN : Begin(c, u, s, f)

\* What an upstream, or its timeout, does to a call that waits for it.
Reply(c) ==
    \/ Retry(c) \/ StreamOpens(c) \/ UsageUnreadable(c)
    \/ \E class \in Classes : Raise(c, class) \/ ErrorStatus(c, class)
    \/ \E used \in Usages : Answer(c, used)

Stream(c) ==
    \/ GeneratorStarts(c) \/ NeverStarts(c)
    \/ \E used \in Usages : Chunk(c, used)
    \/ StreamEnds(c) \/ ClientAborts(c) \/ StreamBreaks(c)

Step(c) ==
    \/ Arrive(c) \/ Reply(c) \/ BackoffEnds(c) \/ ErrorBodyRead(c) \/ Stream(c)
    \/ HandlerCancelled(c)
    \/ \E i \in 1..2 : Sweep(c, i)

Next ==
    \/ \E c \in Calls : Step(c)
    \/ \E newRate \in Rates : Reload(newRate)
    \/ \E u \in Users : MovePoints(u)

(***************************************************************************)
(* The upstream answers or the HTTP client's timeout fires; a sleep ends;  *)
(* an error body ends or breaks off.  Nothing is assumed of the client or  *)
(* of the length of a stream.                                              *)
(***************************************************************************)
Fairness == \A c \in Calls :
    WF_vars(Reply(c)) /\ WF_vars(BackoffEnds(c)) /\ WF_vars(ErrorBodyRead(c))

SafeSpec == Init /\ [][Next]_vars

Spec == SafeSpec /\ Fairness

-----------------------------------------------------------------------------
\* Endings in which no code is left that would end the row.
Unfinished == {"unread", "dropped", "crashed"}

RowStates == {"none", "open", "ok", "error", "cancelled"}

TypeOK ==
    /\ pc \in [Calls -> {"new", "sending", "backoff", "errorbody", "opened", "streaming", "done"}]
    /\ result \in [Calls -> {"none", "refused", "ok", "error", "cancelled"} \cup Unfinished]
    /\ owner \in [Calls -> Users \cup {Operator}]
    /\ stream \in [Calls -> BOOLEAN] /\ fallback \in [Calls -> BOOLEAN]
    /\ at \in [Calls -> 1..2] /\ tries \in [Calls -> 0..MaxRetries]
    /\ row \in [Calls -> [1..2 -> RowStates]]
    /\ usage \in [Calls -> Nat] /\ paid \in [Calls -> Nat] /\ rate \in Nat
    /\ failure \in [Calls -> Classes \cup {"none"}]
    /\ PointsTypeOK

\* A row stays open only while its call is at work on that attempt.  Behind a call
\* that is over a row can stay open (until sweep_stale finds it) in three cases:
\* the handler was cancelled while it awaited, it raised outside the try, or the
\* stream was made and never started.  No other ending, and no retry, fallback,
\* error status, break or abort of a running stream, leaves one behind.
RowsHaveOwners ==
    \A c \in Calls, i \in 1..2 : row[c][i] = "open" =>
        /\ at[c] = i
        /\ pc[c] \notin {"new", "done"} \/ result[c] \in Unfinished

\* The monitor agrees with what the client got: a row that was not swept says
\* how the call ended, and an attempt that was given up for the fallback model
\* is an error, never a success.
RowsTellResult ==
    \A c \in Calls : pc[c] = "done" =>
        /\ result[c] \in {"ok", "error", "cancelled"} => row[c][at[c]] \in {result[c], "cancelled"}
        /\ at[c] = 2 => row[c][1] \in {"error", "cancelled"}

\* What the users spent is what their answered calls cost, call by call.
SpentIsPaid ==
    \A u \in Users : spent[u] = SumFunctionOnSet(paid, {c \in Calls : owner[c] = u})

\* A stream refused with a 4xx is not tried again with the fallback model.
StreamFallsBackOnHardErrors ==
    [][ \A c \in Calls : stream[c] /\ at[c] # at'[c] => failure'[c] = "hard" ]_vars

\* The same for every call, as the comment at the return for 4xx says: "try
\* fallback only on transport/upstream hard failures, not 4xx from model API".
FallsBackOnHardErrors ==
    [][ \A c \in Calls : at[c] # at'[c] => failure'[c] = "hard" ]_vars

\* Every call that was sent is answered, with a stream, an answer or an error.
EveryCallReturns ==
    \A c \in Calls : pc[c] = "sending" ~> pc[c] \in {"opened", "streaming", "done"}

-----------------------------------------------------------------------------
(* What a caller is promised. *)

StateOf(c) ==
    CASE pc[c] = "new" -> "new"
      [] pc[c] = "done" /\ result[c] = "refused" -> "refused"
      [] pc[c] = "done" /\ result[c] = "ok" -> "answered"
      [] pc[c] = "done" /\ result[c] \notin {"refused", "ok"} -> "failed"
      [] OTHER -> "working"

Contract == INSTANCE MeteredCall WITH
    state <- [c \in Calls |-> StateOf(c)], Prices <- Amounts

\* The calls implement the contract: a call is paid for at most once, in the
\* step that answers it, and refusals, failures, aborts and streams that nobody
\* reads are free, whatever retries and fallbacks the call went through.
MeteredCalls == Contract!Spec
=============================================================================
