---------------------------- MODULE UsageWindows ----------------------------
(***************************************************************************)
(* Usage in time windows (usage_windows.py), as the dashboard shows it for *)
(* the gateway and the portal for one user, "me": what aggregate_windows   *)
(* makes of the monitor's history, of its lifetime totals and of the       *)
(* points log, at the moment of the request.                               *)
(*                                                                         *)
(* The clock is that of time.time(): it may be set back, and then records  *)
(* lie in the future.  Prompt and completion tokens and cost go through    *)
(* the same sums and are one number.  Points that are estimated when there *)
(* is no log are linear in the tokens and left out.                        *)
(***************************************************************************)
EXTENDS Integers, Sequences, FiniteSets, Functions

CONSTANTS
    Windows,      \* span, bin and bins of WINDOW_SECONDS and SERIES_BINS
    HistorySize,  \* length of the history deque
    MeLimit,      \* how much of the history, and of the points log, me_usage
                  \* reads
    TokenCounts,
    MaxWall, MaxSetBacks, MaxBegun, MaxRows  \* bounds

ASSUME WindowsAssumption ==
    /\ Windows \subseteq [span : Nat, bin : Nat \ {0}, bins : Nat \ {0}]
    /\ \A w \in Windows : w.span = w.bin * w.bins
ASSUME SizesAssumption ==
    /\ HistorySize \in Nat \ {0} /\ MeLimit \in Nat \ {0} /\ TokenCounts \subseteq Nat
    /\ MaxWall \in Nat /\ MaxSetBacks \in Nat /\ MaxBegun \in Nat /\ MaxRows \in Nat

VARIABLES
    wall, setBacks,  \* time.time(), and how often it was set back
    history,         \* _global_recent, oldest first
    lifetime,        \* the lifetime totals of the monitor
    begun, running,  \* requests begun since the start, and those in flight
    carried,         \* requests that were in flight when the totals were cleared
    points_log       \* the rows of "me"

usageVars == <<wall, setBacks, history, lifetime, begun, running, carried, points_log>>

Newest(seq, n) == IF Len(seq) <= n THEN seq ELSE SubSeq(seq, Len(seq) - n + 1, Len(seq))

Nothing == [requests |-> 0, errors |-> 0, tokens |-> 0]

UsageInit ==
    /\ wall = 1 /\ setBacks = 0
    /\ history = <<>> /\ points_log = <<>>
    /\ lifetime = Nothing
    /\ begun = 0 /\ running = 0 /\ carried = 0

----------------------------------------------------------------------------
\* Monitor.begin counts the request,
BeginRequest ==
    /\ begun < MaxBegun
    /\ begun' = begun + 1 /\ running' = running + 1
    /\ lifetime' = [lifetime EXCEPT !.requests = @ + 1]
    /\ UNCHANGED <<wall, setBacks, history, carried, points_log>>

\* and end its tokens and errors.
EndRequest(user, status, tokens) ==
    /\ running > 0
    /\ running' = running - 1
    /\ history' = Newest(Append(history, [user |-> user, at |-> wall, status |-> status,
                                          tokens |-> tokens]), HistorySize)
    /\ lifetime' = [lifetime EXCEPT !.tokens = @ + tokens,
                                    !.errors = IF status = "error" THEN @ + 1 ELSE @]
    /\ UNCHANGED <<wall, setBacks, begun, carried, points_log>>

\* Monitor.clear_stats
ClearUsage ==
    /\ lifetime' = Nothing /\ history' = <<>> /\ carried' = running
    /\ UNCHANGED <<wall, setBacks, begun, running, points_log>>

\* A restart takes the totals from the database and has no history.
RestartGateway ==
    /\ history # <<>>
    /\ history' = <<>> /\ running' = 0
    /\ UNCHANGED <<wall, setBacks, lifetime, begun, carried, points_log>>

\* A deduction or a grant of "me".
LogPoints(delta) ==
    /\ Len(points_log) < MaxRows
    /\ points_log' = Append(points_log, [delta |-> delta, at |-> wall])
    /\ UNCHANGED <<wall, setBacks, history, lifetime, begun, running, carried>>

WallTick ==
    /\ wall < MaxWall
    /\ wall' = wall + 1
    /\ UNCHANGED <<setBacks, history, lifetime, begun, running, carried, points_log>>

SetClockBack ==
    /\ wall > 1 /\ setBacks < MaxSetBacks
    /\ wall' \in 1 .. wall - 1
    /\ setBacks' = setBacks + 1
    /\ UNCHANGED <<history, lifetime, begun, running, carried, points_log>>

UsageNext ==
    \/ BeginRequest
    \/ \E user \in {"me", "other"}, status \in {"ok", "error", "cancelled"},
          tokens \in TokenCounts : EndRequest(user, status, tokens)
    \/ ClearUsage
    \/ RestartGateway
    \/ \E delta \in {-1, 1} : LogPoints(delta)
    \/ WallTick
    \/ SetClockBack

UsageSpec == UsageInit /\ [][UsageNext]_usageVars

----------------------------------------------------------------------------
\* The requests and rows that are added up are given by their positions in
\* history and points_log.
Latest(seq, n) == {i \in DOMAIN seq : i > Len(seq) - n}

\* _add: what a request adds to the figures.
Added(r) == [requests |-> 1, errors |-> IF r.status # "ok" THEN 1 ELSE 0, tokens |-> r.tokens]

Sums(what, items) ==
    SumFunctionOnSet([i \in DOMAIN history |-> Added(history[i])[what]], items)

\* Deductions only: grants are ignored.
Spent(rows) ==
    SumFunctionOnSet([i \in DOMAIN points_log |->
                         IF points_log[i].delta < 0 THEN - points_log[i].delta ELSE 0], rows)

\* aggregate_windows and aggregate_points_log: the age of a record decides,
Age(at) == IF at > wall THEN 0 ELSE wall - at

Within(seq, items, w) == {i \in items : seq[i].at > 0 /\ Age(seq[i].at) <= w.span}

\* aggregate_series and _points_series_from_log: the bin it falls into, the
\* last one ending now; 0 is before the first.
BucketIndex_OpenBelow(at, w) ==
    LET rel == at - (wall - w.span)
    IN IF rel <= 0 THEN 0
       ELSE IF rel >= w.span THEN w.bins ELSE (rel \div w.bin) + 1

BucketIndex(at, w) ==
    LET rel == at - (wall - w.span)
    IN IF rel < 0 THEN 0
       ELSE IF rel >= w.span THEN w.bins ELSE (rel \div w.bin) + 1

Bucket(seq, items, w, b) == {i \in items : seq[i].at > 0 /\ BucketIndex(seq[i].at, w) = b}

\* me_usage filters the newest of everybody's requests.
MyHistory == {i \in Latest(history, MeLimit) : history[i].user = "me"}

\* list_points_log
MyLog == Latest(points_log, MeLimit)

----------------------------------------------------------------------------
\* The figure of a window is the sum of its curve, for requests, errors,
\* tokens and points, of the gateway and of a user: two algorithms, one by the
\* age of a record and one by its bin, that must agree at both edges and after
\* the clock was set back (aggregate_windows, aggregate_series).
SeriesAddUp ==
    \A w \in Windows :
        /\ \A items \in {DOMAIN history, MyHistory}, what \in DOMAIN Nothing :
             Sums(what, Within(history, items, w))
               = SumFunction([b \in 1 .. w.bins |-> Sums(what, Bucket(history, items, w, b))])
        /\ Spent(Within(points_log, MyLog, w))
               = SumFunction([b \in 1 .. w.bins |-> Spent(Bucket(points_log, MyLog, w, b))])

\* No window shows more than a longer one, nor than the lifetime figures next
\* to it, which come from the totals; but a request that was in flight when
\* the totals were cleared is in the windows only, and so is a cancelled one
\* among the errors (_gateway_usage_windows, Monitor.end).
WindowsNest ==
    /\ \A v, w \in Windows : v.span <= w.span =>
         /\ \A items \in {DOMAIN history, MyHistory}, what \in DOMAIN Nothing :
              Sums(what, Within(history, items, v)) <= Sums(what, Within(history, items, w))
         /\ Spent(Within(points_log, MyLog, v)) <= Spent(Within(points_log, MyLog, w))
    /\ \A w \in Windows :
         LET Shown(what) == Sums(what, Within(history, DOMAIN history, w))
             cancelled == {i \in DOMAIN history : history[i].status = "cancelled"}
         IN /\ Shown("tokens") <= lifetime.tokens
            /\ Shown("requests") <= lifetime.requests + carried
            /\ Shown("errors") <= lifetime.errors + Cardinality(cancelled)

=============================================================================
