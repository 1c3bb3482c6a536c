----------------------------- MODULE Admission -----------------------------
(***************************************************************************)
(* Admission of requests to the model APIs: rate_limit_middleware          *)
(* (app.py) over the concurrency and queue counters of RateLimiter         *)
(* (rate_limit.py).                                                        *)
(*                                                                         *)
(* The gateway is one asyncio event loop, so the code between two awaits   *)
(* is one action here.  A request awaits in three places: asleep in the    *)
(* queue, inside call_next (authentication and the handler), and while its *)
(* response body is being sent.  An administrator may reload the limits    *)
(* between any two actions, and a reload never touches the counters.  The  *)
(* verdict of the per-client token bucket is left open (either answer)     *)
(* whenever the requests-per-minute limit is on.                           *)
(***************************************************************************)
EXTENDS Naturals, FiniteSets

CONSTANTS
    Requests,  \* request tasks; a task is used again after its answer
    Configs    \* the limits a configuration file may set

ASSUME RequestsFinite == IsFiniteSet(Requests)
ASSUME ConfigsTyped ==
    Configs \subseteq [rpm : BOOLEAN, max_concurrent : Nat, max_queue : Nat]

VARIABLES
    cfg,      \* limits in force
    active,   \* RateLimiter._active
    queued,   \* RateLimiter._queued
    pc,       \* where each request awaits
    expired,  \* the queued requests whose deadline has passed
    reply     \* the last answer of each request

vars == <<cfg, active, queued, pc, expired, reply>>

Stages == {"idle", "uncounted", "queue", "handler", "body"}
Refusals == {"requests_per_minute", "max_concurrent", "queue_full", "queue_timeout"}
Replies == Refusals \cup {"none", "served", "raised", "cancelled"}

Holders == {r \in Requests : pc[r] \in {"handler", "body"}}
Waiters == {r \in Requests : pc[r] = "queue"}

-----------------------------------------------------------------------------
(* RateLimiter: what each method tests and how it changes the counters. *)

Enabled == cfg.rpm \/ cfg.max_concurrent > 0 \/ cfg.max_queue > 0

\* check_rpm_only: the bucket may refuse only when its limit is on.
RpmRefuses == cfg.rpm

SlotFree_OffByOne == cfg.max_concurrent = 0 \/ active <= cfg.max_concurrent

\* try_reserve_concurrency succeeds.
SlotFree == cfg.max_concurrent = 0 \/ active < cfg.max_concurrent

\* enter_queue succeeds.
QueueRoom == cfg.max_queue = 0 \/ queued < cfg.max_queue

TakeSlot == active' = active + 1

ReleaseSlot == active' = IF active > 0 THEN active - 1 ELSE 0

LeaveQueue == queued' = IF queued > 0 THEN queued - 1 ELSE 0

-----------------------------------------------------------------------------
(* The middleware. *)

Await(r, stage) ==
    /\ pc' = [pc EXCEPT ![r] = stage]
    /\ reply' = [reply EXCEPT ![r] = "none"]

Answer(r, what) ==
    /\ pc' = [pc EXCEPT ![r] = "idle"]
    /\ reply' = [reply EXCEPT ![r] = what]

\* With every limit off the request is passed on and never counted, also if a
\* reload switches the limits on while it runs.
Bypass(r) ==
    /\ pc[r] = "idle" /\ ~Enabled
    /\ Await(r, "uncounted")
    /\ UNCHANGED <<cfg, active, queued, expired>>

RefuseRpm(r) ==
    /\ pc[r] = "idle" /\ Enabled /\ RpmRefuses
    /\ Answer(r, "requests_per_minute")
    /\ UNCHANGED <<cfg, active, queued, expired>>

\* Newcomers try for a slot before they look at the queue.
AdmitAtOnce(r) ==
    /\ pc[r] = "idle" /\ Enabled /\ SlotFree
    /\ TakeSlot
    /\ Await(r, "handler")
    /\ UNCHANGED <<cfg, queued, expired>>

RefuseNoQueue(r) ==
    /\ pc[r] = "idle" /\ Enabled /\ ~SlotFree /\ cfg.max_queue = 0
    /\ Answer(r, "max_concurrent")
    /\ UNCHANGED <<cfg, active, queued, expired>>

RefuseQueueFull(r) ==
    /\ pc[r] = "idle" /\ Enabled /\ ~SlotFree /\ cfg.max_queue > 0 /\ ~QueueRoom
    /\ Answer(r, "queue_full")
    /\ UNCHANGED <<cfg, active, queued, expired>>

\* The wait lasts at least one second, so the first look at the clock passes
\* and the request goes to sleep.
JoinQueue(r) ==
    /\ pc[r] = "idle" /\ Enabled /\ ~SlotFree /\ cfg.max_queue > 0 /\ QueueRoom
    /\ queued' = queued + 1
    /\ Await(r, "queue")
    /\ UNCHANGED <<cfg, active, expired>>

DeadlinePasses(r) ==
    /\ pc[r] = "queue" /\ r \notin expired
    /\ expired' = expired \cup {r}
    /\ UNCHANGED <<cfg, active, queued, pc, reply>>

\* The sleeper wakes in time and finds a slot.
Poll(r) ==
    /\ pc[r] = "queue" /\ r \notin expired /\ SlotFree
    /\ TakeSlot
    /\ LeaveQueue
    /\ Await(r, "handler")
    /\ UNCHANGED <<cfg, expired>>

TimeOut_NoDeadline(r) == FALSE /\ UNCHANGED vars

\* The sleeper wakes late: it looks at the clock, not at the slots.
TimeOut(r) ==
    /\ pc[r] = "queue" /\ r \in expired
    /\ LeaveQueue
    /\ expired' = expired \ {r}
    /\ Answer(r, "queue_timeout")
    /\ UNCHANGED <<cfg, active>>

CancelQueued_StaysCounted(r) ==
    /\ pc[r] = "queue"
    /\ expired' = expired \ {r}
    /\ Answer(r, "cancelled")
    /\ UNCHANGED <<cfg, active, queued>>

\* The task is cancelled in its sleep; the finally clause leaves the queue.
CancelQueued(r) ==
    /\ pc[r] = "queue"
    /\ LeaveQueue
    /\ expired' = expired \ {r}
    /\ Answer(r, "cancelled")
    /\ UNCHANGED <<cfg, active>>

HandlerRaises_KeepsSlot(r) ==
    /\ pc[r] = "handler"
    /\ Answer(r, "raised")
    /\ UNCHANGED <<cfg, active, queued, expired>>

\* call_next raises, or the task is cancelled inside it.
HandlerRaises(r) ==
    /\ pc[r] = "handler"
    /\ ReleaseSlot
    /\ Answer(r, "raised")
    /\ UNCHANGED <<cfg, queued, expired>>

\* A response without body_iterator frees its slot before it is sent.
HandlerReturnsBuffered(r) ==
    /\ pc[r] = "handler"
    /\ ReleaseSlot
    /\ Answer(r, "served")
    /\ UNCHANGED <<cfg, queued, expired>>

\* Any other response takes its slot along into the wrapped body.
HandlerReturnsBody(r) ==
    /\ pc[r] = "handler"
    /\ Await(r, "body")
    /\ UNCHANGED <<cfg, active, queued, expired>>

\* The wrapped body ends, fails or is closed.
BodyEnds(r) ==
    /\ pc[r] = "body"
    /\ ReleaseSlot
    /\ Answer(r, "served")
    /\ UNCHANGED <<cfg, queued, expired>>

UncountedEnds(r) ==
    /\ pc[r] = "uncounted"
    /\ Answer(r, "served")
    /\ UNCHANGED <<cfg, active, queued, expired>>

Reload_ClearsActive(c) ==
    /\ cfg' = c
    /\ active' = 0
    /\ UNCHANGED <<queued, pc, expired, reply>>

\* update_config, from a reload of the configuration file.
Reload(c) ==
    /\ cfg' = c
    /\ UNCHANGED <<active, queued, pc, expired, reply>>

-----------------------------------------------------------------------------
Init ==
    /\ cfg \in Configs
    /\ active = 0 /\ queued = 0 /\ expired = {}
    /\ pc = [r \in Requests |-> "idle"]
    /\ reply = [r \in Requests |-> "none"]

Arrive(r) ==
    \/ Bypass(r) \/ RefuseRpm(r) \/ AdmitAtOnce(r)
    \/ RefuseNoQueue(r) \/ RefuseQueueFull(r) \/ JoinQueue(r)

Finish(r) ==
    \/ HandlerRaises(r) \/ HandlerReturnsBuffered(r) \/ BodyEnds(r) \/ UncountedEnds(r)

Step(r) ==
    \/ Arrive(r)
    \/ DeadlinePasses(r) \/ Poll(r) \/ TimeOut(r) \/ CancelQueued(r)
    \/ HandlerReturnsBody(r) \/ Finish(r)

Next == (\E r \in Requests : Step(r)) \/ (\E c \in Configs : Reload(c))

(***************************************************************************)
(* Time passes, and the event loop wakes a sleeper whose deadline has      *)
(* passed.  Nothing is assumed of Poll (newcomers may take every slot) and *)
(* nothing of handlers and bodies: an upstream may stream for ever, and a  *)
(* client that stops reading its body keeps the slot as long as it likes.  *)
(***************************************************************************)
Fairness ==
    \A r \in Requests :
        WF_vars(DeadlinePasses(r)) /\ WF_vars(TimeOut(r))

SafeSpec == Init /\ [][Next]_vars

Spec == SafeSpec /\ Fairness

-----------------------------------------------------------------------------
TypeOK ==
    /\ cfg \in Configs
    /\ active \in 0..Cardinality(Requests)
    /\ queued \in 0..Cardinality(Requests)
    /\ pc \in [Requests -> Stages]
    /\ expired \subseteq Waiters
    /\ reply \in [Requests -> Replies]

\* The two counters count: every slot in use belongs to one request that still
\* has to give it back, and every queue place to one request that still waits.
\* No error path, cancellation, timeout or reload loses or duplicates one.
SlotAccounting == active = Cardinality(Holders)
QueueAccounting == queued = Cardinality(Waiters)
Accounting == SlotAccounting /\ QueueAccounting

\* A step may leave a counter above the limit in force only if it did not raise
\* the counter: after a reload that lowers the limits the excess only drains,
\* and no newcomer or sleeper is let in on top of it.
ExcessOnlyDrains ==
    [][ /\ (cfg'.max_concurrent > 0 /\ active' > cfg'.max_concurrent) => active' <= active
        /\ (cfg'.max_queue > 0 /\ queued' > cfg'.max_queue) => queued' <= queued ]_vars

\* A request that went to sleep in the queue leaves it, with a slot or with an
\* answer, even when no slot is ever given back and newcomers take every one
\* that is: the deadline ends the wait.
NobodyQueuesForEver == \A r \in Requests : pc[r] = "queue" ~> pc[r] # "queue"

\* The slots are the abstract semaphore: nobody holds one it was not granted
\* under the cap, a reload takes none away, and only its holder gives it back.
Slots == INSTANCE SlotSemaphore
            WITH Clients <- Requests,
                 Limits <- {c.max_concurrent : c \in Configs},
                 holders <- Holders,
                 limit <- cfg.max_concurrent
Semaphore == Slots!SafeSpec
=============================================================================
