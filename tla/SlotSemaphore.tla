--------------------------- MODULE SlotSemaphore ---------------------------
(***************************************************************************)
(* What the gateway promises about its concurrency slots, with the queue,  *)
(* the polling and the counters left out: a counting semaphore whose limit *)
(* an operator may change at any time.  A client takes a slot only while   *)
(* fewer than `limit` are taken (limit 0 means "no cap") and keeps it until *)
(* it gives it back itself, which it need not ever do.  Lowering the limit  *)
(* takes no slot away.                                                      *)
(***************************************************************************)
EXTENDS Naturals, FiniteSets

CONSTANTS Clients,  \* who may hold a slot
          Limits    \* the limits an operator may set; 0 switches the cap off

VARIABLES holders,  \* the clients that hold a slot
          limit     \* the limit in force

semVars == <<holders, limit>>

Init == holders = {} /\ limit \in Limits

Acquire(c) ==
    /\ c \notin holders
    /\ limit = 0 \/ Cardinality(holders) < limit
    /\ holders' = holders \cup {c}
    /\ UNCHANGED limit

Release(c) ==
    /\ c \in holders
    /\ holders' = holders \ {c}
    /\ UNCHANGED limit

SetLimit(l) ==
    /\ limit' = l
    /\ UNCHANGED holders

Next ==
    \/ \E c \in Clients : Acquire(c) \/ Release(c)
    \/ \E l \in Limits : SetLimit(l)

SafeSpec == Init /\ [][Next]_semVars
=============================================================================
