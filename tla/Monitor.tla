------------------------------ MODULE Monitor ------------------------------
(***************************************************************************)
(* The in-flight table and the lifetime totals of Monitor (monitor.py),    *)
(* with their row in the statistics database (StatsStore, store.py).       *)
(*                                                                         *)
(* begin opens a row for one upstream attempt, end closes it.  The caller  *)
(* that opened a row may end it with any outcome, late, or never (a stream *)
(* whose generator was never started); sweep_stale ends the rows that have *)
(* been open too long.  sweep_stale drops the lock between collecting its  *)
(* victims and ending each of them, and the class is written for several   *)
(* threads: every block under the lock is one action.                      *)
(*                                                                         *)
(* Totals reach the database at most once per persist interval, and only   *)
(* when a row ends, the statistics are cleared or the process shuts down.  *)
(* A write may fail.  The process may stop at any moment, with or without  *)
(* the flush of an orderly shutdown, and starts again from the database.   *)
(*                                                                         *)
(* Prompt tokens, completion tokens and cost go through the same updates   *)
(* and are one number here.  Logs, latencies, health records and the       *)
(* per-provider history are left out.                                      *)
(***************************************************************************)
EXTENDS Naturals, Sequences, FiniteSets, FiniteSetsExt, Functions

CONSTANTS
    Rows,         \* request ids; uuid4 never gives one twice
    Providers,
    TokenCounts,  \* what a completed request may have used
    HistorySize,  \* length of the history deque
    MaxRestarts   \* bound: how often the process starts again

ASSUME RowsFinite == IsFiniteSet(Rows)
ASSUME ProvidersFinite == IsFiniteSet(Providers)
ASSUME NumbersTyped ==
    TokenCounts \subseteq Nat /\ HistorySize \in Nat \ {0} /\ MaxRestarts \in Nat

VARIABLES
    fresh,      \* the ids that were not used yet
    open,       \* the ids in some provider's in_flight
    provider,   \* the provider of each id
    callers,    \* the ids whose caller may still call end
    stale,      \* the open rows older than stale_request_seconds
    victims,    \* what a running sweep_stale collected and has not ended yet
    stats,      \* the counters of each provider's ProviderStats
    active,     \* _global_active
    all,        \* _global_total, _global_errors and the token totals
    history,    \* _global_recent: the outcomes of completed requests, oldest first
    saved,      \* the totals in the database
    dirty,      \* _dirty_totals
    throttled,  \* the last write is less than the persist interval ago
    restarts,   \* counts up to MaxRestarts
    base,       \* ghost: the totals at the start of the process or the last clear
    carried,    \* ghost: how many rows were open at that moment
    rewritten   \* ghost: memory lost totals the database still has

rowVars == <<fresh, open, provider, callers, stale, victims>>
countVars == <<stats, active, all, history>>
storeVars == <<saved, dirty, throttled, rewritten>>
ghostVars == <<restarts, base, carried>>
vars == <<rowVars, countVars, storeVars, ghostVars>>

Totals == [requests : Nat, errors : Nat, tokens : Nat]
Zero == [requests |-> 0, errors |-> 0, tokens |-> 0]
Outcomes == {"ok", "error", "cancelled"}

RowsOf(p) == {x \in open : provider[x] = p}

Less(n) == IF n > 0 THEN n - 1 ELSE 0

LastOf(seq) ==
    IF Len(seq) <= HistorySize THEN seq
    ELSE SubSeq(seq, Len(seq) - HistorySize + 1, Len(seq))

-----------------------------------------------------------------------------
(* Writing the totals. *)

\* save_totals succeeds, or raises and is remembered as dirty.  `lost` says
\* whether memory is behind the database while the old row stays there.
Write(totals, lost) ==
    \/ /\ saved' = totals
       /\ dirty' = FALSE /\ throttled' = TRUE /\ rewritten' = FALSE
    \/ /\ dirty' = TRUE /\ rewritten' = lost
       /\ UNCHANGED <<saved, throttled>>

Persist_ForgetsDirty(totals) ==
    IF throttled THEN UNCHANGED storeVars ELSE Write(totals, rewritten)

\* _persist_locked without force: inside the interval it only marks the totals.
Persist(totals) ==
    IF throttled
    THEN dirty' = TRUE /\ UNCHANGED <<saved, throttled, rewritten>>
    ELSE Write(totals, rewritten)

IntervalPasses ==
    /\ throttled
    /\ throttled' = FALSE
    /\ UNCHANGED <<rowVars, countVars, saved, dirty, rewritten, ghostVars>>

-----------------------------------------------------------------------------
(* The life of a row. *)

Begin_SameId(x, p) ==
    /\ x \in fresh
    /\ open' = open \cup {x}
    /\ callers' = callers \cup {x}
    /\ provider' = [provider EXCEPT ![x] = p]
    /\ stats' = [stats EXCEPT ![p].active = @ + 1]
    /\ active' = active + 1
    /\ all' = [all EXCEPT !.requests = @ + 1]
    /\ UNCHANGED <<fresh, stale, victims, history, storeVars, ghostVars>>

Begin(x, p) ==
    /\ x \in fresh
    /\ fresh' = fresh \ {x}
    /\ open' = open \cup {x}
    /\ callers' = callers \cup {x}
    /\ provider' = [provider EXCEPT ![x] = p]
    /\ stats' = [stats EXCEPT ![p].active = @ + 1]
    /\ active' = active + 1
    /\ all' = [all EXCEPT !.requests = @ + 1]
    /\ UNCHANGED <<stale, victims, history, storeVars, ghostVars>>

ErrorsIn_CountsCancelled(outcome) == IF outcome = "ok" THEN 0 ELSE 1

\* Cancelled requests are not errors.
ErrorsIn(outcome) == IF outcome = "error" THEN 1 ELSE 0

\* end, when the row is still in its provider's in_flight.  (The provider is
\* always known: begin creates it and nothing removes one.)
Complete(x, outcome, tokens) ==
    LET p == provider[x]
        error == ErrorsIn(outcome)
        totals == [all EXCEPT !.errors = @ + error, !.tokens = @ + tokens]
    IN  /\ open' = open \ {x}
        /\ stale' = stale \ {x}
        /\ stats' = [stats EXCEPT ![p] =
                        [active |-> Less(@.active), total |-> @.total + 1,
                         errors |-> @.errors + error, tokens |-> @.tokens + tokens]]
        /\ active' = Less(active)
        /\ all' = totals
        /\ history' = LastOf(Append(history, outcome))
        /\ Persist(totals)

AlreadyEnded_ReleasesAgain(x) ==
    /\ x \notin open
    /\ active' = Less(active)
    /\ UNCHANGED <<open, stale, stats, all, history, storeVars>>

\* end, when the row is gone: nothing changes.
AlreadyEnded(x) == x \notin open /\ UNCHANGED <<open, stale, countVars, storeVars>>

\* The caller ends its row.
End(x, outcome, tokens) ==
    /\ x \in callers
    /\ callers' = callers \ {x}
    /\ \/ x \in open /\ Complete(x, outcome, tokens)
       \/ AlreadyEnded(x)
    /\ UNCHANGED <<fresh, provider, victims, ghostVars>>

GrowsOld(x) ==
    /\ x \in open \ stale
    /\ stale' = stale \cup {x}
    /\ UNCHANGED <<fresh, open, provider, callers, victims, countVars, storeVars, ghostVars>>

SweepCollect_SkipsOne ==
    /\ victims = {} /\ Cardinality(stale) > 1
    /\ victims' = stale \ {CHOOSE x \in stale : TRUE}
    /\ UNCHANGED <<fresh, open, provider, callers, stale, countVars, storeVars, ghostVars>>

\* sweep_stale under the lock: which rows have been open too long.
SweepCollect ==
    /\ victims = {} /\ stale # {}
    /\ victims' = stale
    /\ UNCHANGED <<fresh, open, provider, callers, stale, countVars, storeVars, ghostVars>>

\* sweep_stale after the lock: one victim is ended, unless its caller was faster.
SweepEnd(x) ==
    /\ x \in victims
    /\ victims' = victims \ {x}
    /\ \/ x \in open /\ Complete(x, "cancelled", 0)
       \/ AlreadyEnded(x)
    /\ UNCHANGED <<fresh, provider, callers, ghostVars>>

-----------------------------------------------------------------------------
(* Clearing, stopping and starting. *)

Cleared_KeepsTotals == stats

Cleared == [p \in Providers |-> [stats[p] EXCEPT !.total = 0, !.errors = 0, !.tokens = 0]]

\* clear_stats: open rows stay open and active stays counted.
ClearStats ==
    /\ all' = Zero
    /\ stats' = Cleared
    /\ history' = <<>>
    /\ Write(Zero, TRUE)
    /\ base' = Zero /\ carried' = Cardinality(open)
    /\ UNCHANGED <<rowVars, active, restarts>>

Start_IgnoresSaved(found, loaded) ==
    /\ restarts < MaxRestarts
    /\ restarts' = restarts + 1
    /\ open' = {} /\ callers' = {} /\ stale' = {} /\ victims' = {}
    /\ stats' = [p \in Providers |-> [active |-> 0, total |-> 0, errors |-> 0, tokens |-> 0]]
    /\ active' = 0 /\ history' = <<>>
    /\ all' = Zero /\ base' = Zero /\ carried' = 0
    /\ dirty' = FALSE /\ throttled' = TRUE
    /\ rewritten' = ~loaded
    /\ UNCHANGED <<fresh, provider>>

\* A new process: nothing is open, and the totals are what load_totals returns.
\* A load that raises or reads a damaged row leaves them at zero.
Start(found, loaded) ==
    /\ restarts < MaxRestarts
    /\ restarts' = restarts + 1
    /\ open' = {} /\ callers' = {} /\ stale' = {} /\ victims' = {}
    /\ stats' = [p \in Providers |-> [active |-> 0, total |-> 0, errors |-> 0, tokens |-> 0]]
    /\ active' = 0 /\ history' = <<>>
    /\ all' = IF loaded THEN found ELSE Zero
    /\ base' = all' /\ carried' = 0
    /\ dirty' = FALSE /\ throttled' = TRUE
    /\ rewritten' = ~loaded
    /\ UNCHANGED <<fresh, provider>>

\* The process dies between two steps; what was not written is gone.
Crash(loaded) == Start(saved, loaded) /\ UNCHANGED saved

\* An orderly shutdown flushes first; the flush may fail.
Shutdown(loaded) ==
    \/ Start(all, loaded) /\ saved' = all
    \/ Start(saved, loaded) /\ UNCHANGED saved

-----------------------------------------------------------------------------
Init ==
    /\ fresh = Rows
    /\ open = {} /\ callers = {} /\ stale = {} /\ victims = {}
    /\ provider \in {[x \in Rows |-> p] : p \in Providers}  \* means nothing yet
    /\ stats = [p \in Providers |-> [active |-> 0, total |-> 0, errors |-> 0, tokens |-> 0]]
    /\ active = 0 /\ history = <<>>
    /\ all = Zero /\ saved = Zero /\ base = Zero
    /\ carried = 0 /\ restarts = 0
    /\ dirty = FALSE /\ throttled = TRUE /\ rewritten = FALSE

Step(x) ==
    \/ \E p \in Providers : Begin(x, p)
    \/ \E o \in Outcomes, t \in TokenCounts : End(x, o, t)
    \/ GrowsOld(x)
    \/ SweepEnd(x)

Next ==
    \/ \E x \in Rows : Step(x)
    \/ SweepCollect \/ IntervalPasses \/ ClearStats
    \/ \E loaded \in BOOLEAN : Crash(loaded) \/ Shutdown(loaded)

(***************************************************************************)
(* Time passes for an open row, and somebody asks for the status (the      *)
(* dashboard polls it), which sweeps.  Nothing is assumed of the callers.  *)
(***************************************************************************)
Fairness ==
    /\ WF_vars(SweepCollect)
    /\ \A x \in Rows : WF_vars(GrowsOld(x)) /\ WF_vars(SweepEnd(x))

SafeSpec == Init /\ [][Next]_vars

Spec == SafeSpec /\ Fairness

-----------------------------------------------------------------------------
TypeOK ==
    /\ open \subseteq Rows \ fresh /\ fresh \subseteq Rows
    /\ callers \subseteq Rows \ fresh
    /\ stale \subseteq open
    /\ victims \subseteq Rows \ fresh
    /\ provider \in [Rows -> Providers]
    /\ stats \in [Providers -> [active : Nat, total : Nat, errors : Nat, tokens : Nat]]
    /\ active \in Nat
    /\ all \in Totals /\ saved \in Totals /\ base \in Totals
    /\ history \in Seq(Outcomes)
    /\ dirty \in BOOLEAN /\ throttled \in BOOLEAN /\ rewritten \in BOOLEAN
    /\ restarts \in 0..MaxRestarts /\ carried \in Nat

\* The active counters shown to the operator are the open rows, over all and for
\* each provider, however callers, sweeps, clears and restarts interleave.
ActiveAccounting ==
    /\ active = Cardinality(open)
    /\ \A p \in Providers : stats[p].active = Cardinality(RowsOf(p))

\* What the providers count, over all of them.
Counted(counter) == SumFunction([p \in Providers |-> stats[p][counter]])

\* Every request the process was asked for since its start or the last clear is
\* either completed once, in the totals of its provider, or still open; the
\* rows that were open at a clear are completed on top of that.  Errors and
\* tokens agree between the providers and the process.
TotalsConserved ==
    /\ Counted("total") + Cardinality(open) + base.requests = all.requests + carried
    /\ Counted("errors") + base.errors = all.errors
    /\ Counted("tokens") + base.tokens = all.tokens

ShownErrors == Cardinality({i \in DOMAIN history : history[i] = "error"})

\* The request history tells the same story as the counters: as long as nothing
\* fell out of it, it has one entry for each completed request and one error
\* entry for each counted error; a cancelled request is no error.
HistoryAgrees ==
    /\ Len(history) = Min({Counted("total"), HistorySize})
    /\ ShownErrors <= Counted("errors")
    /\ Counted("errors") <= ShownErrors + (Counted("total") - Len(history))

\* What the database holds: unless a clear or a load went wrong it is never ahead
\* of memory, and when nothing is marked dirty it lacks no error and no token.
SavedTracksMemory ==
    ~rewritten =>
        /\ saved.requests <= all.requests
        /\ saved.errors <= all.errors /\ saved.tokens <= all.tokens
        /\ ~dirty => saved.errors = all.errors /\ saved.tokens = all.tokens

\* Lifetime totals survive: the database loses counts only to an operator's
\* clear, or to the first write after the old totals could not be read or the
\* clear could not be written.
PersistedOnlyGrows ==
    [][ \/ rewritten \/ saved' = Zero
        \/ \A k \in DOMAIN saved : saved'[k] >= saved[k] ]_vars

\* No row stays open forever: what its caller never ends, a sweep or a restart does.
RowsAreClosed == \A x \in Rows : x \in open ~> x \notin open
=============================================================================
