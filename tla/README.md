# Unify-LLM gateway: a verification project in TLA+

This directory models the Unify-LLM gateway (`src/unify_llm/`) in TLA+. TLC
checks the modules on small instances, TLAPS proves the theorems about them for
every value of their constants, and `PROJECT.json` ties each definition to the
lines it stands for.

The gateway is a FastAPI application in one process. It takes model calls in the
OpenAI and Anthropic dialects, admits them under rate limits, authenticates them
with a master key or with keys of its own users, sends them to a provider with
retries and a fallback model, streams the answer back, keeps statistics, and
takes points from the user who called.

## 1. Concurrency in this code

All handlers are coroutines on one asyncio event loop, and nothing is handed to
a thread pool. Code between two `await`s runs alone; the SQLite stores are called
synchronously. An action of a model is therefore the code from one `await` to
the next, with everything that code calls. Interleaving happens where a request
sleeps in the queue, waits for an upstream, sleeps before a retry, reads an
error body, or hands a chunk to the client.

The middleware runs in this order: rate limit, gateway authentication, CORS,
logging of unknown paths, handler. `Monitor`, `RateLimiter` and the stores also
hold thread locks. `sweep_stale` gives the lock of the monitor up between its two
halves; on the one loop they run back to back, and the model, which lets other
steps come between, allows more than can happen.

## 2. Inventory

| Component | State | Operations | What is hard | What makes it correct |
|---|---|---|---|---|
| Admission (`rate_limit.py`, `rate_limit_middleware`) | active, queued, limits | reserve, queue, poll, time out, release, reload | races for a slot, cancellation in the queue, release on every exit, reload while in use | the counters are exact, the cap holds, nobody stays in the queue |
| Token bucket (`rate_limit.py`) | rate, tokens and time per client in a bounded table | refill, take, evict, reload | rounding, eviction, a changed rate | forgetting a client changes nothing for it, retry_after is exact |
| Monitor (`monitor.py`, `store.py`) | open rows, counters, history, saved totals, dirty mark | begin, end, sweep, clear, flush, load | double ends, rows nobody ends, crash between write and count, failed writes | counters are the open and completed rows, the database never silently loses totals |
| Points (`users.py`) | balance, spent, ledger | set, add, deduct, delete | floors at zero, two commits, deductions in flight together | the ledger explains the balance |
| Model call (`_proxy_call`, `adapters/base.py`) | attempt, retries, stream, row | gate, send, retry, fall back, stream, abort, charge | all of the above in flight together | one charge per answered call, rows agree with answers, calls return |
| Accounts, keys, sessions (`users.py`, `/api/admin/users`, `/api/auth`, `/api/me`) | users, keys, sessions, last_used cache | register, approve, disable, issue, revoke, log in, change password | commits in sequence, sessions that outlive a change, partial PATCH | revoked means revoked, no session outlives its account |
| Gateway authentication (`gateway_auth`) | none of its own | decide who calls | modes: open, master key, user keys | the decision fits the mode at that moment |
| Login throttle (`LoginGuard`) | failures and lockouts per address and account | check, record, reset | window against lockout | no more attempts than configured |
| Routing (`registry.py`) | model table, aliases | resolve, rebuild | alias chains, disabled providers, stale tables | resolves to an enabled provider that has the model |
| Configuration (`config.py`, `admin_reload`, `patch_provider`) | the running and the stored configuration | load, reload, switch a provider | the file is edited, cut off or not writable; file and memory part ways | after a successful switch both agree |
| Health probes (`_health_loop`) | tasks, last result | spawn, cancel, probe, test | cancelled but not awaited, late results | one loop per enabled provider, none of an older configuration |
| Conversion (`convert.py`) | state of a streaming converter | one step per event; a request and its reply | order of blocks, interleaved tool calls, missing ends, results before texts | well-formed event streams, nothing lost or misplaced |
| Usage windows (`usage_windows.py`) | none | fold a history into windows and curves | boundaries, clock going back, clears and restarts | figures, curves and lifetime totals agree |
| Dashboards, portal, scripts, JavaScript proxy | browser state; a limiter of its own | - | - | - |

The handlers call the stores and the monitor directly. Admission wraps
everything else: its slot is held until the last byte of the answer.
Authentication hands the user to the model call, the model call asks the points
gate, opens a row on the monitor for each attempt, asks the registry for the
routes, and at the end closes the row and deducts points. A reload replaces
configuration, registry, limits and rates at once, under requests in flight. A
call whose client and provider speak different dialects goes through the
converters, request and answer.

`PROJECT.json` lists the hazards of this code line by line, each with the
properties that would catch it going wrong. Some have none: where the code itself
goes wrong and no line of the repository says it should not, the models have the
case and the properties exempt it through a ghost (`torn`, `loose`, `apart`), so that
they hold of everything else; the note of the hazard says so.

## 3. Modules

| Module | What it is |
|---|---|
| `SlotSemaphore` | abstract: a counting semaphore whose limit may be moved |
| `Admission`, `MCAdmission`, `AdmissionProofs` | the middleware over the limiter's counters |
| `Monitor`, `MonitorProofs` | rows, counters, history and saved totals |
| `Points`, `PointsProofs` | balances and their ledger |
| `MCBooks` | `Monitor` and `Points`, for their safety |
| `MeteredCall` | abstract: what a caller is promised about one call and its price |
| `ProxyCall`, `MCProxyCall`, `ProxyCallProofs` | model calls; extends `Points` |
| `MCLive` | `ProxyCall` and `Monitor`, for what must happen in the end |
| `Accounts`, `MCAccounts`, `AccountsProofs` | users, keys, sessions and the handlers that change them |
| `AnthropicStream`, `OpenAIStream` | abstract: what the reader of a stream in each dialect accepts |
| `ToAnthropic`, `ToOpenAI` | the two streaming converters, one step per event |
| `Conversation` | requests and replies of a conversation with tools, converted both ways |
| `MCConvert`, `ConvertProofs` | the three together; the converters' proofs |
| `Clock` | the monotonic clock of the next two, with the bound `MaxTime` |
| `TokenBucket` | the requests per minute of each client |
| `LoginGuard` | the throttle of failed sign-ins |
| `Routing` | running and stored configuration, routes, probe loops |
| `UsageWindows` | windows and curves over history, totals and points log |
| `MCControl`, `ControlProofs` | the last four together; their proofs |
| `FoldTheorems` | lemmas on sums over finite sets and on what loops over sequences gather, and the inductions they rest on |

Modules that share no state are checked in one run all the same: `MCBooks`, `MCLive`,
`MCConvert` and `MCControl` draw a `job` at the start, and only the variables of that
module move. In `MCLive` the fairness of both parts is assumed side by side: in the part
that does not move, nothing was begun and no fair action is enabled.
The state space is the sum of the parts, not their product; no behaviour of a
part is lost, because the others could not have touched it.

### Admission

`pc` says where a request awaits: `queue` is the sleep in the wait loop, `handler`
is `call_next`, `body` is the wrapped response body, `uncounted` is a request
that arrived while all limits were off. `active` and `queued` are the counters
of `RateLimiter`, `cfg` the limits in force. `Reload` may come between any two
steps and leaves the counters alone, as `update_config` does. A newcomer does
not wait behind the queue (`AdmitAtOnce`), and a sleeper that wakes late does
not look at the slots any more (`TimeOut`).

*Assumed of the server:* the body of the outermost response is always iterated,
to its end or until it is closed. When that is, is left open: a body may take for
ever, and its slot with it.

### Monitor

`open` is the union of the `in_flight` tables, `stats` the per-provider counters,
`all` the process-wide totals, `saved` the row in the database. A caller may end
its row with any outcome, at any time, or never. `SweepCollect` and `SweepEnd`
are the two halves of `sweep_stale`. `Persist` debounces, `Write` may fail.
`Crash` loses memory; `Shutdown` flushes first, and the flush may fail. Tokens
and cost are one number, as they go through the same updates. Ghosts: `base`
and `carried` hold the totals and the open rows at the last start or clear,
`rewritten` marks that memory lost totals the database still has (a failed
write after a clear, a failed load).

### Points

The ledger is two sums per user, of its `adjust` and of its `deduct` rows. The
ghost `basis` is the balance an operator set last less the ledger at that
moment, because `set_points_balance` writes no row. `AddPointsCut` is a stop of
the process between the two commits of `add_points`. `DeductUnlogged` is a
`deduct_points` whose INSERT fails: there is no rollback, so the UPDATE of the
account is made permanent by the next commit of any operation (a stop before
that undoes it, and then the call left no trace). The ghost `torn` marks the
users either of them hit.

### ProxyCall

A call goes `new`, `sending`, perhaps `backoff` or `errorbody`, then `opened` and
`streaming` for a stream, and `done`. `at` is the attempt (1, or 2 on the
fallback), `row[c][i]` the monitor's row of attempt i: open, or how it ended.
The generator of a stream may end (`StreamEnds`), break (`StreamBreaks`), be
aborted (`ClientAborts`), or never start because the client had left
(`NeverStarts`). The handler may be cancelled where it awaits (`HandlerCancelled`),
and an exception may leave it outside the `try`: before anything is sent, when
`max_tokens` is a number `int()` cannot take (`BeginRaises`), or after the answer,
when its usage is (`UsageUnreadable`). In these four cases (`Unfinished`) nobody
ends the row but a sweep. Meanwhile sweeps end old rows, operators move points and rates
change. Usage counts in thousands of tokens and rates are whole points, so the
floors of `compute_points_cost` do not show; prompt and completion tokens are one
number. The points are those of `Points`; the `Monitor` is reduced to its rows.
`Charge` may fail at every statement of `deduct_points`, because its caller
swallows what the store raises: the call is then free, or has no row in the ledger.
That an answer which was read can also be written out as JSON is assumed.

### Accounts

Each table is a function from the ids it can ever hold: `owner` of a key and
`holder` of a session are `Fresh` before the row, a user while it is there and
`Gone` after it, because `AUTOINCREMENT` and random tokens never give an id
twice. A portal request is let in by `Resolve`, which captures the session as
`_resolve_session` does, and is answered by one of the `Handle` actions, any
number of other steps later. `PatchUser` is a PATCH whose fields were all
applied, `PatchUserRejected` one that was refused at a later field and answers
400. A field that is absent is one that sets the present value. `CleanUp` is
`delete_sessions_for_user`; its second disjunct is the failure the handlers
swallow (`change_password` answers 500), or the stop of the process between the
two commits, which `Stop` then completes. The ghost `loose` names the sessions
that outlived what should have ended them: a missed clean-up, a rejected PATCH,
and a password set by PATCH, which drops no session of an active account.
`DisableKey`, `EnableKey` and `PurgeExpired` are operations of the store that no
handler calls. A lookup that fails with an exception answers 401 and changes
nothing; it is no answer of the store and not counted as a refusal.

### Conversion

`ToAnthropic` is the generator `openai_sse_to_anthropic_sse`: an action runs from
one `yield` to the next, `at` says at which one it stands, and `text`, `calls`,
`reason` are what is left of the line it works on. The upstream may send any
lines in any order, break off at any of them, and report its usage late, never
or several times. `ToOpenAI` is `anthropic_sse_to_openai_sse`; its upstream is an
instance of `AnthropicStream`, so what the one converter must produce is what the
other may assume. `AnthropicStream` and `OpenAIStream` say what a client accepts:
blocks opened in order and closed before the end, slots announced before their
fragments, one finish reason, usage at most once. They are looser than the
vendors' documents in two places where the code is: text may still come for the
text block after it was closed (`convert.py:690`), and an error frame may follow
`[DONE]` when the connection breaks between the two.

`Conversation` is the part without streaming. A client keeps its transcript in its
own dialect; the gateway converts all of it for each request and converts the
reply back. So a turn of the upstream comes back to it through both conversions,
split into messages, buffered (`pending`), reordered and merged. Items are
numbered, so a lost, doubled or displaced one shows.

*Left out:* the splitting of bytes into lines, lines that are no JSON, tool
declarations, sampling parameters, images, fields that are copied; a fragment of
a tool call whose block was never started, which no Anthropic upstream sends.
Prompt tokens go the way of completion tokens, without the estimate.

### Token bucket and login throttle

One check is one step in both: the limiter holds its lock, and the sign-in
handlers do not await between the check and what they record. `TokenBucket` counts
tokens in parts of one `Minute`-th, which makes the refill exact where the code
has floats. `tokens` and `updated` keep the values of buckets that were deleted, as
a table that never forgets would, and `fresh` names the clients that were dropped
before they were idle; `BucketsAreExact` compares the two tables.
`RateLimiter.check`, which only tests call, takes the same steps and a slot.

In `LoginGuard` an account is the text typed as login. `failed` is a ghost with
every failure that should count; `hits` are the deques of the code, and
`ThrottleIsExact` compares the decisions. `window_seconds` does not change over a
reload; `reset` is called by tests only.

### Routing

`file` is what is stored, `live` what runs, `by_model` the registry's table, `tasks`
the probe loops with the restart they were born in. Reload and switch have no
await between the reading of the file and the restart of the loops, so each is
one step. A switch may find no such provider in the file, fail before it writes,
or fail after the file was truncated; what is left may still be YAML, with any of
the providers. A cancelled loop gets its `CancelledError` before it does anything
else, so cancelling ends it. The ghost `apart` names the providers on which file
and memory need not agree: after an edit by hand, or a switch that was answered
as not written.

### UsageWindows

`history`, `lifetime` and `points_log` are filled as the monitor and the store do it;
the windows are sums over sets of their positions, and their properties compare the two algorithms
of the code (by age and by bin) with each other and with the totals. The clock is
that of `time.time()` and may be set back. Points estimated from the rates, when
there is no log, are linear in the tokens and left out.

## 4. What the runs check

| Run | Instance | States | What it shows |
|---|---|---|---|
| `admission` | 4 requests, 5 limit sets (off, rate only, cap 1, cap 1 and queue 2, cap 2 and queue 1) | 120 365 | `Accounting`: the counters are the requests that hold a slot or a queue place. `ExcessOnlyDrains`: after a reload that lowers a limit, no step adds to the excess. `NobodyQueuesForEver`: the deadline ends every wait in the queue. `Semaphore`: the slots refine `SlotSemaphore` |
| `books` | monitor: 3 rows, 2 providers, history of 2, 1 restart; points: 2 users, 5 movements | 848 528 (with symmetry of rows and providers) | `ActiveAccounting`, `TotalsConserved`, `HistoryAgrees`: counters, rows and history tell one story. `SavedTracksMemory`, `PersistedOnlyGrows`: what the database has. `LedgerExplainsBalance`, `SpentCoversLedger`, `ForgivenOnlyAtZero`: balances and ledger |
| `proxy_call` | 2 calls, 1 user or the operator, 1 retry, 1 fallback, 2 changes of points or rates | 1 293 424 (with symmetry) | `RowsHaveOwners`, `RowsTellResult`: rows against answers, and behind which endings a row may stay open. `SpentIsPaid` under concurrent calls and failing charges. `StreamFallsBackOnHardErrors`. `MeteredCalls`: refinement of `MeteredCall` |
| `live` | 1 call, 2 retries, 1 fallback; 2 rows, 1 provider, 1 restart | 24 771 | `EveryCallReturns`: retries and routes end. `RowsAreClosed`: no row stays open for ever |
| `accounts` | 2 users, 1 key, 2 sessions, 2 passwords, 2 portal requests | 60 211 (with symmetry) | `RowsHaveApprovedUsers`, `SessionsFollowAccounts`: what hangs on an account follows it, also under requests let in before it changed. `RefusedStaysRefused`, `RevocationIsFinal`. `PortalActsForItsUser` |
| `convert` | streams of 3 lines with 2 tool calls each, 2 slots; 3 upstream blocks of 2 fragments; conversations of 3 requests and 6 messages | 489 964 | `ImplementsAnthropicStream`, `ImplementsOpenAIStream`: both converters refine their client's protocol. `ToolArgumentsArrive`: fragments reach the right place once. `UsageArrives`: a count that was reported is told unchanged and once. `AnswersFollowCalls`, `HistoryKept`: requests an upstream accepts, with its own turns as it uttered them |
| `control` | buckets: 3 clients, table of 2, minute of 3, rates 0 to 2, 5 seconds. Throttle: 1 address, 2 accounts, 3 failures. Routing: 2 providers, 3 models and aliases, 2 restarts, 1 edit. Windows: 2 windows, history of 2, clock of 5 set back once | 1 113 171 | `BucketsAreExact`, `RetryAfterIsExact`, `ThrottleIsExact`, `RoutesFollowConfig`, `SwitchesInForce`, `UsageAddsUp` |
| `empty_url` | routing with a provider without `base_url` | violated | finding 3 below |
| `patch_sessions` | the same as `accounts`, clean-ups succeed | violated | finding 2 below |
| `fallback_4xx` | 1 call | violated | finding 1 below |
| `no_usage` | the same as `convert` | violated | finding 4 below |
| `exact_id` | routing of `control` | violated | finding 5 below |

*Bounds.* Four requests are the fewest that fill a cap of two or a queue of two
and leave a newcomer to race with the sleepers. Three rows against a history of
two overflow it and let a sweep collect two rows while a third ends. One restart
shows every write against every crash; the second start would repeat the first.
Five movements reach every floor at zero from a set, an added and a deducted
balance. Two calls in flight are the fewest that pass the gate on one balance;
the balance, 1, is less than the price, 2. Accounts
needs a second user for a request to reach over to, and a session that acts
besides one that should go; users, sessions, passwords and requests are
symmetric. An id is used once, so every behaviour ends when they are used up.

A line with two entries of `tool_calls` is the smallest in which a converter closes
one block and opens two; three lines let a slot come back after another one, and
text after a call. Three requests let a turn come back twice, once followed by
results and once by a text. Three clients overflow a table of two; a minute of 3
seconds with rates of 1 and 2 divides once with a remainder and once without,
and five seconds let an idle bucket go and its client come back. A lockout
shorter and one longer than the window of 2 are both there, also one after the
other. Two providers with one model in common show the order of the file, an
alias to an alias and an alias that hides a model the two steps of `resolve`. The
windows are one of a single bin and one of three, over a history that overflows.

`Points`, `ProxyCall`, `Accounts`, `MCConvert` and `MCControl` stop when their bounds are
used up, so deadlock is not checked there. `ProxyCall` inherits the ledger equation
of `Points`, `Accounts` its type; neither is a property of its run, because both
are proved (below) and the first is checked by `books`.

*Fairness.* Admission: time passes, and the event loop wakes a sleeper whose
deadline is over. Nothing is assumed of `Poll`: the code gives sleepers no turn,
and a sleeper may lose every race until its deadline. Nothing is assumed of
handlers and bodies either: the timeouts of the HTTP client hold for one read, not
for a stream, and nothing bounds a client that stops reading. So what is claimed is
that the queue is left, not that slots come back. Monitor: an open row grows old, and somebody asks for the status,
which sweeps (the dashboard polls it). Nothing is assumed of the callers.
ProxyCall: the upstream answers or the HTTP client's timeout fires, sleeps end,
error bodies end. Nothing is assumed of clients or of the length of streams.

## 5. What is proved

All theorems are for every value of the constants that satisfies the named
assumptions: finite sets of requests, rows, calls and providers, natural limits and
amounts, prices that are products of usages and rates, an order of the providers
that is a sequence.

* `FoldTheorems`. What `SumFunctionOnSet` adds up and what `FlattenSeq` concatenates.
  The library states induction over
  finite sets for an operator parameter, which none of the provers can
  instantiate; here it is done over the set of counterexamples, which has a
  smallest member (`SmallestSubset`, `LeastNatural`, both from the well-founded
  orderings of the library), up to a bound (`UpTo`) and along a sequence
  (`Grows`). The recursion behind the sum is first shown to have
  exactly one solution (`SumRecursion`), the one behind the concatenation to have a
  table of its prefixes (`FlattenTable`); then come a sum with one value changed,
  the sum of a union, of a part, by class, and over renamed indices, and for
  `Gather` (what the elements of a sequence contribute, one after the other) its
  type, its members, one element more, two parts, and gathering twice.

* `AdmissionProofs`. The inductive invariant is the type together with the two
  counts. `active > 0` whenever somebody holds a slot follows from the count, so
  the guard in `ReleaseSlot` never bites, and the count is what every release
  needs. From it: `TypeCorrect`, `CountersExact`, `ExcessDrains` (one lemma for
  each step) and `ImplementsSemaphore`, the refinement of `SlotSemaphore`.
* `MonitorProofs`. The invariant joins the type, the active counts over all and per
  provider, and what the database has. `Complete` is shared by callers and
  sweeps and has one lemma. From it: `TypeCorrect`, `ActiveExact`, `SavedTracks`
  and `PersistedGrows`. `CountsInv` adds the sums over the providers and over the
  history; with each step one summand changes, and the record that falls out of a
  full history takes its share along. From it: `TotalsAddUp`, `HistoryTells`.
* `PointsProofs`. The ledger equation is inductive with the type; the lemmas on
  `Removed` do the arithmetic at zero, and a movement without a row has a lemma of
  its own or a case in `DeductIInv`. From it: `PointsTyped`, `LedgerExact`,
  `SpentCovers`, `ForgivenAtZero`.
* `ProxyCallProofs`. The invariant says which row states go with which stage. Every
  action is shown to be an *effect* on one call's stage, row and charge, once,
  and the invariant, the contract and the ledger are then proved of effects.
  From it: `TypeCorrect`, `RowsOwned` (an open row has a call at work on it, or one of
  the four `Unfinished` endings behind it), `RowsTell`, `LedgerKept`,
  `StreamFallback`, and `ImplementsContract`, the full refinement of
  `MeteredCall`. The points lemmas of `PointsProofs` are used as they stand.
  `SpentPaid` needs besides that a call that gets its owner has paid nothing yet
  (`StepCharges`): so the sum over a user's calls changes only by a charge.

* `AccountsProofs`. The type is inductive by itself. `RowsApproved` needs that an
  active user was approved. `SessionsFollow` rests on `RowsApproved` and on
  `CapturedSessions`: the session a request captured is still its user's or has
  no row, which follows from `HoldersChangeOnce` (a session is made once and
  ends once) and makes the session kept by `change_password` the right one.
  `RefusedStays` strengthens "refused" to "has no row", `RevocationFinal` adds
  that revoked keys are disabled, `PortalActs` is proved handler by handler.

* `ConvertProofs`. For any set of slots and lines of any length. `StreamInv` says
  where the generator of `ToAnthropic` is, that slots have blocks of their own
  below `next_index`, and that the client has those blocks open which the generator
  believes open; every event is then a step of `AnthropicStream`
  (`AnthropicStreamWellFormed`). That there is an index left for a slot without one
  is a fact about cardinalities. `CountInv` ties the running count to the estimate
  and the largest report (`FinalCountReported`). `FragmentsInv` counts what has
  arrived in a block and what is still held of the line; that the count falls by
  one with each call done is a bijection between a sequence and its tail
  (`HeadIsDone`). `ChunkInv` does the same for `ToOpenAI`, over the invariant of its
  upstream: `OpenAIStreamWellFormed`, `ToolCallsReach`, `UsageToldOnce`. Together
  they are the two properties of the run: `ToolArgumentsReach` and `UsageReach`.
  `UsageReach` is about counts the upstream reported; the estimate of streams
  without a count, which `CountInv` has too, is no claim of it (finding 4).
* `ConvertProofs`, conversations. The converters are loops with state (results held
  back, plain messages merged), so what they make is not message by message what
  they read. What the properties look at are *measures* of a list of messages
  (the items, the turns of the assistant, the texts of the user), which do not
  depend on how items are packed (`Measures`). A stage of the first loop is worth
  what it has put out and what it holds back (`HeldBack`), each message adds its
  share (`ConvertKeeps`), and merging takes none away (`MergeKeeps`): so an
  Anthropic upstream gets the same measures (`ToAnthropicKeeps`), and an OpenAI
  upstream those of the transcript with the results of each user message before
  its texts (`ToOpenAIKeeps`). It is enough then to prove of the transcript:
  `TalkInv` says that in what would be sent (`Flowing`) every result follows its call
  with no text in between (`Quiet`) and no text follows an open call (`Fresh`), which
  the two properties do not say and the next results need; that the
  turns are those uttered, with their arguments parsed, and at most one quoted
  before them (`TurnsKept`); and that the last request has the texts from before
  the last turn (`TextsKept`). From it: `AnswersFollow` and `HistoryIsKept`, for
  conversations of any length and any mixture of the `Arguments` allowed.
* `ControlProofs`, the limiter. `TableInv`: a client that is not in the table and
  does not begin anew was idle for so long that its bucket is full, at any rate.
  `DueInv`: what retry_after promised is what the bucket, as last counted, needs.
  `RoundUp` is the arithmetic of the rounding. From them: `BucketsTyped`,
  `BucketsExact`, `RetryAfterExact`, for any number of clients, table size and
  rates. The assumption that matters is `IdleAssumption`, `Idle >= Minute`: the
  code's 120 seconds against 60.
* The throttle. `GuardInv` says that a deque is what is left of the key's failures
  when some that are older than the window are dropped, and that a lock was set
  at a moment when failures enough lay within window and lockout. Pruning then
  drops just what the window excludes (`PruningExact`), so the length the code
  looks at is the number of failures in the window. From it: `ThrottleExact`, for
  any number of failures and any mixture of limits and lockouts.
* Routing. `RoutingInv` says the loops are those of the running configuration and
  restart, the rows show its switches, and file and memory agree outside `apart`.
  `RoutesFresh` proves, without expanding `Registry`, that the table is that of the
  running configuration, whatever it contains; `RoutesFollow` then says what it
  contains: the fold over the providers is given by an explicit table (`FirstOf`:
  the first provider that is on and has the model). `SwitchesStay` is the
  invariant the run checks.
* Windows. `UsageInv`: the totals hold at least what the history holds, requests
  in flight and carried over a clear included. `EdgesAgree` is the arithmetic at
  the edges of the bins: a record is young enough for a window exactly if it falls
  into one of its bins. A figure and its curve are then one sum, taken at once
  and by bins. From it: `UsageFits`, for any windows whose bins fill them.

*Only model-checked:* the liveness properties (`NobodyQueuesForEver`,
`RowsAreClosed`, `EveryCallReturns`), which this prover does not do.

## 6. Findings

1. *A plain call refused with a 4xx goes to the fallback model.* The adapter raises
   `UpstreamError` for every status from 400 up when the call is not a stream
   (`adapters/base.py:112`), and `_proxy_call` tries the next route after every
   `UpstreamError`. The comment at `app.py:2068` says "not 4xx from model API",
   and the README of the gateway says "after hard upstream failure". A stream
   with the same status is answered at once. Run `fallback_4xx` shows the
   shortest case; `StreamFallsBackOnHardErrors` shows, and the theorem
   `StreamFallback` proves, that streams behave as documented.

2. *A rejected PATCH leaves the sessions of the account it disabled.*
   `admin_patch_user` commits the fields one after the other, the status first. A
   later bad field (a role that does not exist, points that are no number)
   answers 400 from the `except` clause at `app.py:1257`, with the account already
   disabled, and the code under the comment "Invalidate sessions when the
   account is no longer active" (`app.py:1264`) is not reached. Lookups refuse
   such a session while the account is disabled, and delete it then; one that is
   not looked up in between works again when the account is made active. Run
   `patch_sessions` shows the shortest case: create, log in, PATCH.

3. *A switch can make a configuration that cannot be loaded.* `patch_provider`
   enables any provider, also one with an empty `base_url`, and writes that to the
   file; `load_config` makes just that a hard error (`config.py:367`). The answer
   says `written: true`; the next reload answers 400, and the next start fails. Run
   `empty_url` shows the one step it takes.

4. *A stream without usage is counted and charged by an estimate.*
   `openai_sse_to_anthropic_sse` takes each text delta for one token until a count
   comes, and reports at least one token (`convert.py:688`, `:769`). The sniffer
   reads the converted stream (`app.py:2173`), so the estimate reaches counters and
   points. The gateway's README says the counters stay at zero (`README.md:223`,
   `:276`). Run `no_usage`: an empty stream that ends. When a count does come, and
   is not smaller than the estimate until then, it is told unchanged
   (`UsageReach`).

5. *An alias hides a model of the same name.* `resolve` looks at the aliases first
   (`registry.py:41`); `DESIGN.md:150` says "Exact model id wins over alias",
   `DEPLOYMENT.md:407` describes the order of the code. Run `exact_id`.

Seen while modelling, and without a run of their own:

* An aborted call can leave its row open. A handler that is cancelled while it awaits
  the upstream (`app.py:2033`), sleeps before a retry or reads an error body ends
  without `monitor.end`: `except Exception` does not catch `CancelledError`. So does a
  stream whose generator never runs. The comment in `event_gen` (`app.py:2138`) and the
  test of aborts (`tests/test_client_abort.py:1`) want every abort to release the
  monitor. `RowsHaveOwners` names these endings as its exceptions; the row stays until
  `sweep_stale` closes it, which is `RowsAreClosed`.
* An alias may take two hops: `resolve` follows a second alias when nobody serves the
  first target (`registry.py:48`), and `test_registry_alias_chain` wants it;
  `CONTEXT.md:26` says "resolves one hop only". `RoutesFollowConfig` claims only what
  neither this nor finding 5 touches.
* Aborted requests are errors in the windows: `_add` counts every status but `ok`
  (`usage_windows.py:109`); `Monitor.end` has the status "cancelled" so that aborts
  "do not inflate error counters" (`monitor.py:495`), and the lifetime totals beside
  the windows do not count them.
* `LoginGuard`: a lockout (30 seconds) shorter than the window (60) is renewed by the
  next check, because the failures are still in the window. A client that comes
  back when `Retry-After` says may be refused again. `ThrottleIsExact` bounds it: no
  refusal without enough failures in one window and one lockout.
* Requests in flight when the statistics are cleared are in the windows and not in
  the totals. `WindowsNest` has that, and the aborted requests, as its exceptions.
* An answer whose usage `int()` cannot read answers 500 after the upstream worked on
  it, uncharged, and leaves its row to the sweep (`app.py:2074`).
* A negative adjustment by an operator counts as spent in `aggregate_points_log`.
* A provider switch that could not be written still takes effect, and the next
  reload takes it back. The answer says so; `SwitchesInForce` has it as exception.

## 7. Not modelled, and what could follow

* `Monitor`: the log buffer, health records, latency series and breakdowns by model
  only display.
* `Accounts`: roles, profiles, and the throttle of `last_used` in `touch_last_used`, on
  which no row depends. `gateway_auth` beyond its session branch: the choice between
  master key, user keys and open access reads the tables and changes nothing;
  `ProxyCall` takes its outcome as given.
* Configuration: the validation by the schema and the expansion of environment
  variables are data, without control of their own.
* Conversion: what is listed in section 3.
* Browser pages, response formatting, logging, catalogues and limits, operational
  scripts: they hold no state that the components above do not have. The JavaScript
  proxy is a program of its own that the gateway neither starts nor calls.

What would add most next: a composition of `Admission` with `ProxyCall` (a slot is
held as long as the call's row is open); the decision of `gateway_auth` with keys
that are revoked while a call is on its way; and a change of `window_seconds` by a
reload.
