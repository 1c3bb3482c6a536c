------------------------------- MODULE MCLive -------------------------------
(***************************************************************************)
(* What must happen in the end, of a model call and of the rows of the     *)
(* monitor, one at a time: `job` is drawn at the start, and the variables  *)
(* of the other part stay as they are.  Where nothing was begun no fair    *)
(* action of either part is enabled, so the fairness of both can stand     *)
(* side by side.                                                           *)
(***************************************************************************)
EXTENDS ProxyCall

CONSTANTS Rows, Providers, TokenCounts, HistorySize, MaxRestarts

VARIABLES
    job,
    fresh, open, provider, callers, stale, victims,
    stats, active, all, history,
    saved, dirty, throttled, restarts, base, carried, rewritten

tableVars ==
    <<fresh, open, provider, callers, stale, victims, stats, active, all, history,
      saved, dirty, throttled, restarts, base, carried, rewritten>>

Table == INSTANCE Monitor

MCBalances == {-1, 1}

LiveInit == job \in {"call", "table"} /\ Init /\ Table!Init

LiveNext ==
    /\ UNCHANGED job
    /\ \/ job = "call" /\ Next /\ UNCHANGED tableVars
       \/ job = "table" /\ Table!Next /\ UNCHANGED vars

LiveSpec ==
    /\ LiveInit /\ [][LiveNext]_<<job, vars, tableVars>>
    /\ Fairness /\ Table!Fairness

\* No row stays open for ever: what its caller never ends, a sweep or a restart
\* does, as long as somebody asks for the status (sweep_stale).
RowsAreClosed == Table!RowsAreClosed
=============================================================================
