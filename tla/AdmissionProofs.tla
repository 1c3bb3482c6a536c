-------------------------- MODULE AdmissionProofs --------------------------
(***************************************************************************)
(* For every finite set of requests and every set of limits: the counters  *)
(* of the rate limiter are the sizes of the sets of requests they stand    *)
(* for, the excess left by a reload only drains, and the middleware        *)
(* implements SlotSemaphore.                                               *)
(*                                                                         *)
(* The inductive invariant is TypeOK /\ Accounting.  TypeOK alone is not   *)
(* inductive, because active <= Cardinality(Requests) holds only as long   *)
(* as active counts holders; with Accounting each step moves at most one   *)
(* request in or out of Holders and of Waiters.                            *)
(***************************************************************************)
EXTENDS Admission, FiniteSetTheorems, TLAPS

IInv == TypeOK /\ Accounting

-----------------------------------------------------------------------------
(* Cardinality of the sets the counters stand for. *)

\* Holders and Waiters are finite, so their sizes are at most the number of
\* requests.
LEMMA CountsBounded ==
    ASSUME NEW S \in SUBSET Requests
    PROVE  /\ IsFiniteSet(S)
           /\ Cardinality(S) \in Nat
           /\ Cardinality(Requests) \in Nat
           /\ Cardinality(S) <= Cardinality(Requests)
  BY RequestsFinite, FS_Subset, FS_CardinalityType

\* A request that comes to wait or to hold a slot is counted once more.
LEMMA CountAdded ==
    ASSUME NEW S \in SUBSET Requests, NEW r \in Requests, r \notin S
    PROVE  Cardinality(S \cup {r}) = Cardinality(S) + 1
  BY CountsBounded, FS_AddElement

\* A request that stops waiting or gives its slot back is counted once less.
LEMMA CountRemoved ==
    ASSUME NEW S \in SUBSET Requests, NEW r \in S
    PROVE  /\ Cardinality(S \ {r}) = Cardinality(S) - 1
           /\ Cardinality(S) > 0
  <1>1. r \in Requests /\ IsFiniteSet(S) /\ Cardinality(S) \in Nat
    BY CountsBounded
  <1>2. Cardinality(S) # 0
    BY <1>1, FS_EmptySet
  <1>3. Cardinality(S \ {r}) = Cardinality(S) - 1
    BY <1>1, FS_RemoveElement
  <1>4. QED
    BY <1>1, <1>2, <1>3

-----------------------------------------------------------------------------
(* How a step moves one request between the sets. *)

\* Where a request goes decides which of the two sets it is in afterwards.
LEMMA AwaitMoves ==
    ASSUME TypeOK, NEW r \in Requests, NEW stage \in Stages, Await(r, stage)
    PROVE  /\ pc' \in [Requests -> Stages]
           /\ reply' \in [Requests -> Replies]
           /\ Holders' = IF stage \in {"handler", "body"}
                         THEN Holders \cup {r} ELSE Holders \ {r}
           /\ Waiters' = IF stage = "queue" THEN Waiters \cup {r} ELSE Waiters \ {r}
  <1>1. /\ pc' \in [Requests -> Stages]
        /\ reply' \in [Requests -> Replies]
        /\ pc'[r] = stage
        /\ \A q \in Requests \ {r} : pc'[q] = pc[q]
    BY DEF TypeOK, Await, Replies
  <1>2. QED
    BY <1>1 DEF Holders, Waiters

\* An answered request is in neither.
LEMMA AnswerMoves ==
    ASSUME TypeOK, NEW r \in Requests, NEW what \in Replies, Answer(r, what)
    PROVE  /\ pc' \in [Requests -> Stages]
           /\ reply' \in [Requests -> Replies]
           /\ Holders' = Holders \ {r}
           /\ Waiters' = Waiters \ {r}
  <1>1. /\ pc' \in [Requests -> Stages]
        /\ reply' \in [Requests -> Replies]
        /\ pc'[r] = "idle"
        /\ \A q \in Requests \ {r} : pc'[q] = pc[q]
    BY DEF TypeOK, Answer, Stages
  <1>2. QED
    BY <1>1 DEF Holders, Waiters

\* Init establishes the invariant.
LEMMA InitIInv == Init => IInv
  <1> SUFFICES ASSUME Init PROVE IInv
    OBVIOUS
  <1>1. Holders = {} /\ Waiters = {}
    BY DEF Init, Holders, Waiters
  <1>2. Cardinality(Holders) = 0 /\ Cardinality(Waiters) = 0
    BY <1>1, FS_EmptySet
  <1>3. Cardinality(Requests) \in Nat
    BY RequestsFinite, FS_CardinalityType
  <1>4. TypeOK
    BY <1>1, <1>3 DEF Init, TypeOK, Stages, Replies
  <1>5. QED
    BY <1>2, <1>4 DEF Init, IInv, Accounting, SlotAccounting, QueueAccounting

\* A step that leaves the counters and both sets alone keeps the invariant.
LEMMA UncountedMove ==
    ASSUME IInv,
           cfg' \in Configs, active' = active, queued' = queued,
           pc' \in [Requests -> Stages], reply' \in [Requests -> Replies],
           Holders' = Holders, Waiters' = Waiters, expired' \subseteq Waiters'
    PROVE  IInv'
  BY DEF IInv, TypeOK, Accounting, SlotAccounting, QueueAccounting

\* The invariant holds after a step whose counters are the sizes of the two sets.
LEMMA CountedMove ==
    ASSUME IInv,
           cfg' \in Configs,
           active' = Cardinality(Holders'), queued' = Cardinality(Waiters'),
           pc' \in [Requests -> Stages], reply' \in [Requests -> Replies],
           expired' \subseteq Waiters'
    PROVE  IInv'
  <1>1. Holders' \in SUBSET Requests /\ Waiters' \in SUBSET Requests
    BY DEF Holders, Waiters
  <1>2. /\ active' \in 0..Cardinality(Requests)
        /\ queued' \in 0..Cardinality(Requests)
    BY <1>1, CountsBounded
  <1>3. QED
    BY <1>2 DEF IInv, TypeOK, Accounting, SlotAccounting, QueueAccounting

\* No step of a request breaks the invariant.
LEMMA StepIInv ==
    ASSUME IInv, NEW r \in Requests, Step(r)
    PROVE  IInv'
  <1>0. /\ Holders \in SUBSET Requests /\ Waiters \in SUBSET Requests
        /\ active = Cardinality(Holders) /\ queued = Cardinality(Waiters)
        /\ expired \subseteq Waiters /\ cfg \in Configs
        /\ Holders \cap Waiters = {} /\ TypeOK
    BY DEF IInv, TypeOK, Accounting, SlotAccounting, QueueAccounting, Holders, Waiters
  <1> USE <1>0
  <1>1. CASE Bypass(r)
    <2>1. r \notin Holders /\ r \notin Waiters
      BY <1>1 DEF Bypass, Holders, Waiters
    <2>2. QED
      BY <1>1, <2>1, AwaitMoves, UncountedMove DEF Bypass, Stages
  <1>2. CASE RefuseRpm(r) \/ RefuseNoQueue(r) \/ RefuseQueueFull(r) \/ UncountedEnds(r)
    <2>1. r \notin Holders /\ r \notin Waiters
      BY <1>2 DEF RefuseRpm, RefuseNoQueue, RefuseQueueFull, UncountedEnds, Holders, Waiters
    <2>2. QED
      BY <1>2, <2>1, AnswerMoves, UncountedMove
         DEF RefuseRpm, RefuseNoQueue, RefuseQueueFull, UncountedEnds,
             Replies, Refusals
  <1>3. CASE AdmitAtOnce(r)
    <2>1. r \notin Holders /\ r \notin Waiters
      BY <1>3 DEF AdmitAtOnce, Holders, Waiters
    <2>2. Holders' = Holders \cup {r} /\ Waiters' = Waiters
      BY <1>3, <2>1, AwaitMoves DEF AdmitAtOnce, Stages
    <2>3. active' = Cardinality(Holders')
      BY <1>3, <2>1, <2>2, CountAdded DEF AdmitAtOnce, TakeSlot
    <2>4. QED
      BY <1>3, <2>2, <2>3, AwaitMoves, CountedMove DEF AdmitAtOnce, Stages
  <1>4. CASE JoinQueue(r)
    <2>1. r \notin Holders /\ r \notin Waiters
      BY <1>4 DEF JoinQueue, Holders, Waiters
    <2>2. Holders' = Holders /\ Waiters' = Waiters \cup {r}
      BY <1>4, <2>1, AwaitMoves DEF JoinQueue, Stages
    <2>3. queued' = Cardinality(Waiters')
      BY <1>4, <2>1, <2>2, CountAdded DEF JoinQueue
    <2>4. QED
      BY <1>4, <2>2, <2>3, AwaitMoves, CountedMove DEF JoinQueue, Stages
  <1>5. CASE DeadlinePasses(r)
    <2>1. pc' = pc /\ r \in Waiters
      BY <1>5 DEF DeadlinePasses, Waiters
    <2>2. Holders' = Holders /\ Waiters' = Waiters
      BY <2>1 DEF Holders, Waiters
    <2>3. QED
      BY <1>5, <2>1, <2>2, UncountedMove DEF DeadlinePasses, TypeOK
  <1>6. CASE Poll(r)
    <2>1. r \in Waiters /\ r \notin Holders
      BY <1>6 DEF Poll, Holders, Waiters
    <2>2. Holders' = Holders \cup {r} /\ Waiters' = Waiters \ {r}
      BY <1>6, AwaitMoves DEF Poll, Stages
    <2>3. active' = Cardinality(Holders')
      BY <1>6, <2>1, <2>2, CountAdded DEF Poll, TakeSlot
    <2>4. queued' = Cardinality(Waiters')
      BY <1>6, <2>1, <2>2, CountRemoved DEF Poll, LeaveQueue
    <2>5. QED
      BY <1>6, <2>2, <2>3, <2>4, AwaitMoves, CountedMove DEF Poll, Stages
  <1>7. CASE TimeOut(r) \/ CancelQueued(r)
    <2>1. r \in Waiters /\ r \notin Holders
      BY <1>7 DEF TimeOut, CancelQueued, Holders, Waiters
    <2>2. Holders' = Holders /\ Waiters' = Waiters \ {r}
      BY <1>7, <2>1, AnswerMoves DEF TimeOut, CancelQueued, Replies, Refusals
    <2>3. queued' = Cardinality(Waiters')
      BY <1>7, <2>1, <2>2, CountRemoved DEF TimeOut, CancelQueued, LeaveQueue
    <2>4. QED
      BY <1>7, <2>2, <2>3, AnswerMoves, CountedMove
         DEF TimeOut, CancelQueued, Replies, Refusals
  <1>8. CASE HandlerReturnsBody(r)
    <2>1. r \in Holders /\ r \notin Waiters
      BY <1>8 DEF HandlerReturnsBody, Holders, Waiters
    <2>2. QED
      BY <1>8, <2>1, AwaitMoves, UncountedMove DEF HandlerReturnsBody, Stages
  <1>9. CASE HandlerRaises(r) \/ HandlerReturnsBuffered(r) \/ BodyEnds(r)
    <2>1. r \in Holders /\ r \notin Waiters
      BY <1>9 DEF HandlerRaises, HandlerReturnsBuffered, BodyEnds, Holders, Waiters
    <2>2. Holders' = Holders \ {r} /\ Waiters' = Waiters
      BY <1>9, <2>1, AnswerMoves
         DEF HandlerRaises, HandlerReturnsBuffered, BodyEnds, Replies
    <2>3. active' = Cardinality(Holders')
      BY <1>9, <2>1, <2>2, CountRemoved
         DEF HandlerRaises, HandlerReturnsBuffered, BodyEnds, ReleaseSlot
    <2>4. QED
      BY <1>9, <2>2, <2>3, AnswerMoves, CountedMove
         DEF HandlerRaises, HandlerReturnsBuffered, BodyEnds, Replies
  <1>10. QED
    BY <1>1, <1>2, <1>3, <1>4, <1>5, <1>6, <1>7, <1>8, <1>9 DEF Step, Arrive, Finish

\* A reload of the limits moves no request and no counter.
LEMMA ReloadIInv ==
    ASSUME IInv, NEW c \in Configs, Reload(c)
    PROVE  IInv'
  BY DEF IInv, Reload, TypeOK, Accounting, SlotAccounting, QueueAccounting, Holders, Waiters

\* The invariant survives every step of the specification.
LEMMA NextIInv == IInv /\ [Next]_vars => IInv'
  <1> SUFFICES ASSUME IInv, [Next]_vars PROVE IInv'
    OBVIOUS
  <1>1. CASE UNCHANGED vars
    BY <1>1 DEF vars, IInv, TypeOK, Accounting, SlotAccounting, QueueAccounting, Holders, Waiters
  <1>2. CASE Next
    BY <1>2, StepIInv, ReloadIInv DEF Next
  <1>3. QED
    BY <1>1, <1>2

-----------------------------------------------------------------------------
\* The inductive invariant holds in every behaviour, fair or not.
THEOREM InvariantHolds == SafeSpec => []IInv
  BY InitIInv, NextIInv, PTL DEF SafeSpec

\* Type correctness of the admission state, with both counters bounded by the
\* number of requests.
THEOREM TypeCorrect == Spec => []TypeOK
  <1>1. IInv => TypeOK
    BY DEF IInv
  <1>2. QED
    BY <1>1, InvariantHolds, PTL DEF Spec

\* RateLimiter's counters are exact on every path of the middleware: no error,
\* cancellation, timeout or reload leaks or doubles a slot or a queue place.
THEOREM CountersExact == Spec => []Accounting
  <1>1. IInv => Accounting
    BY DEF IInv
  <1>2. QED
    BY <1>1, InvariantHolds, PTL DEF Spec

-----------------------------------------------------------------------------
(* What a step may do to the counters. *)

\* Only a grant under the cap raises active, and only a free place in the queue
\* raises queued; a reload raises neither.
LEMMA StepBounded ==
    ASSUME IInv, Next
    PROVE  /\ active' <= active \/ (SlotFree /\ active' = active + 1 /\ cfg' = cfg)
           /\ queued' <= queued \/ (QueueRoom /\ queued' = queued + 1 /\ cfg' = cfg)
  <1>1. active \in Nat /\ queued \in Nat
    BY CountsBounded DEF IInv, Accounting, SlotAccounting, QueueAccounting, Holders, Waiters
  <1>2. ASSUME NEW c \in Configs, Reload(c)
        PROVE  active' = active /\ queued' = queued
    BY <1>2 DEF Reload
  <1>3. ASSUME NEW r \in Requests, Arrive(r)
        PROVE  /\ active' = active \/ (SlotFree /\ active' = active + 1 /\ cfg' = cfg)
               /\ queued' = queued \/ (QueueRoom /\ queued' = queued + 1 /\ cfg' = cfg)
    BY <1>3 DEF Arrive, Bypass, RefuseRpm, AdmitAtOnce, RefuseNoQueue, RefuseQueueFull,
                JoinQueue, TakeSlot
  <1>4. ASSUME NEW r \in Requests,
               DeadlinePasses(r) \/ TimeOut(r) \/ CancelQueued(r) \/ HandlerReturnsBody(r)
        PROVE  active' = active /\ queued' <= queued
    BY <1>1, <1>4 DEF DeadlinePasses, TimeOut, CancelQueued, HandlerReturnsBody, LeaveQueue
  <1>5. ASSUME NEW r \in Requests, Poll(r)
        PROVE  SlotFree /\ active' = active + 1 /\ cfg' = cfg /\ queued' <= queued
    BY <1>1, <1>5 DEF Poll, TakeSlot, LeaveQueue
  <1>6. ASSUME NEW r \in Requests, Finish(r)
        PROVE  active' <= active /\ queued' = queued
    BY <1>1, <1>6 DEF Finish, HandlerRaises, HandlerReturnsBuffered, BodyEnds,
                      UncountedEnds, ReleaseSlot
  <1>7. QED
    BY <1>1, <1>2, <1>3, <1>4, <1>5, <1>6 DEF Next, Step

\* After a reload that lowers the limits, what exceeds them only drains: the
\* limiter never admits or queues a request on top of a full cap or queue.
THEOREM ExcessDrains == Spec => ExcessOnlyDrains
  <1> DEFINE Drains ==
        /\ (cfg'.max_concurrent > 0 /\ active' > cfg'.max_concurrent) => active' <= active
        /\ (cfg'.max_queue > 0 /\ queued' > cfg'.max_queue) => queued' <= queued
  <1>1. IInv /\ [Next]_vars => [Drains]_vars
    <2> SUFFICES ASSUME IInv, Next PROVE Drains
      OBVIOUS
    <2>1. /\ active \in Nat /\ queued \in Nat
          /\ cfg.max_concurrent \in Nat /\ cfg.max_queue \in Nat
      BY ConfigsTyped, CountsBounded
         DEF IInv, TypeOK, Accounting, SlotAccounting, QueueAccounting, Holders, Waiters
    <2>2. QED
      BY <2>1, StepBounded DEF SlotFree, QueueRoom
  <1>2. QED
    BY <1>1, InvariantHolds, PTL DEF Spec, SafeSpec, ExcessOnlyDrains

-----------------------------------------------------------------------------
(* The refinement: each step of the middleware is a step of the semaphore. *)

\* The initial state of the gateway is one of the semaphore.
LEMMA InitRefines == Init => Slots!Init
  BY DEF Init, Slots!Init, Holders

\* A step of one request acquires or releases its slot under the semaphore's
\* rules, or leaves the semaphore alone.
LEMMA StepRefines ==
    ASSUME IInv, NEW r \in Requests, Step(r)
    PROVE  [Slots!Next]_(Slots!semVars)
  <1>0. TypeOK /\ active = Cardinality(Holders) /\ Holders \in SUBSET Requests
    BY DEF IInv, Accounting, SlotAccounting, Holders
  <1>1. CASE AdmitAtOnce(r) \/ Poll(r)
    <2>1. r \notin Holders /\ cfg' = cfg /\ Holders' = Holders \cup {r}
      BY <1>0, <1>1, AwaitMoves DEF AdmitAtOnce, Poll, Stages, Holders
    <2>2. cfg.max_concurrent = 0 \/ Cardinality(Holders) < cfg.max_concurrent
      BY <1>0, <1>1 DEF AdmitAtOnce, Poll, SlotFree
    <2>3. Slots!Acquire(r)
      BY <2>1, <2>2 DEF Slots!Acquire, Slots!Cardinality, Cardinality
    <2>4. QED
      BY <2>3 DEF Slots!Next
  <1>2. CASE HandlerRaises(r) \/ HandlerReturnsBuffered(r) \/ BodyEnds(r)
    <2>1. r \in Holders /\ cfg' = cfg
      BY <1>2 DEF HandlerRaises, HandlerReturnsBuffered, BodyEnds, Holders
    <2>2. Holders' = Holders \ {r}
      BY <1>0, <1>2, AnswerMoves DEF HandlerRaises, HandlerReturnsBuffered, BodyEnds, Replies
    <2>3. Slots!Release(r)
      BY <2>1, <2>2 DEF Slots!Release
    <2>4. QED
      BY <2>3 DEF Slots!Next
  <1>3. CASE HandlerReturnsBody(r)
    <2>1. r \in Holders /\ cfg' = cfg /\ Holders' = Holders \cup {r}
      BY <1>0, <1>3, AwaitMoves DEF HandlerReturnsBody, Stages, Holders
    <2>2. QED
      BY <2>1 DEF Slots!semVars
  <1>4. CASE Bypass(r) \/ JoinQueue(r)
    <2>1. r \notin Holders /\ cfg' = cfg
      BY <1>4 DEF Bypass, JoinQueue, Holders
    <2>2. Holders' = Holders \ {r}
      BY <1>0, <1>4, AwaitMoves DEF Bypass, JoinQueue, Stages
    <2>3. QED
      BY <2>1, <2>2 DEF Slots!semVars
  <1>5. CASE \/ RefuseRpm(r) \/ RefuseNoQueue(r) \/ RefuseQueueFull(r)
             \/ TimeOut(r) \/ CancelQueued(r) \/ UncountedEnds(r)
    <2>1. r \notin Holders /\ cfg' = cfg
      BY <1>5 DEF RefuseRpm, RefuseNoQueue, RefuseQueueFull, TimeOut, CancelQueued,
                  UncountedEnds, Holders
    <2>2. Holders' = Holders \ {r}
      BY <1>0, <1>5, AnswerMoves
         DEF RefuseRpm, RefuseNoQueue, RefuseQueueFull, TimeOut, CancelQueued,
             UncountedEnds, Replies, Refusals
    <2>3. QED
      BY <2>1, <2>2 DEF Slots!semVars
  <1>6. CASE DeadlinePasses(r)
    BY <1>6 DEF DeadlinePasses, Slots!semVars, Holders
  <1>7. QED
    BY <1>1, <1>2, <1>3, <1>4, <1>5, <1>6 DEF Step, Arrive, Finish

\* A reload of the configuration sets the semaphore's limit and moves no holder.
LEMMA ReloadRefines ==
    ASSUME NEW c \in Configs, Reload(c)
    PROVE  Slots!Next
  <1>1. Slots!SetLimit(c.max_concurrent)
    BY DEF Reload, Slots!SetLimit, Holders
  <1>2. QED
    BY <1>1 DEF Slots!Next

\* The middleware implements the abstract semaphore: a slot is granted only under
\* the cap, and taken back only from the request that holds it.
THEOREM ImplementsSemaphore == Spec => Semaphore
  <1>1. IInv /\ [Next]_vars => [Slots!Next]_(Slots!semVars)
    <2> SUFFICES ASSUME IInv, [Next]_vars PROVE [Slots!Next]_(Slots!semVars)
      OBVIOUS
    <2>1. CASE UNCHANGED vars
      BY <2>1 DEF vars, Slots!semVars, Holders
    <2>2. CASE Next
      BY <2>2, StepRefines, ReloadRefines DEF Next
    <2>3. QED
      BY <2>1, <2>2
  <1>2. QED
    BY <1>1, InitRefines, InvariantHolds, PTL DEF Spec, SafeSpec, Semaphore, Slots!SafeSpec
=============================================================================
