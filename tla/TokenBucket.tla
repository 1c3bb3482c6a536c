---------------------------- MODULE TokenBucket ----------------------------
(***************************************************************************)
(* The requests-per-minute limit of RateLimiter (rate_limit.py): one token *)
(* bucket per client, in a table of limited size.                          *)
(*                                                                         *)
(* Tokens are counted in parts of one Minute-th, so that a second refills  *)
(* rpm parts and a request costs Minute of them: the arithmetic is exact,  *)
(* where the code has floats.  The clock is monotonic (time.monotonic) and *)
(* counts seconds; one check is one step, under the limiter's lock.        *)
(*                                                                         *)
(* tokens and updated keep the values of buckets that were deleted, as a   *)
(* table that never forgets would; the code reads them of tracked clients  *)
(* only.                                                                   *)
(***************************************************************************)
EXTENDS Clock, FiniteSets

CONSTANTS
    Clients,
    Minute,      \* 60 in the code
    Idle,        \* _BUCKET_IDLE_SECONDS, 120
    MaxTracked,  \* _MAX_TRACKED_CLIENTS, 1024
    Rates        \* the values of requests_per_minute a reload may bring

ASSUME ClientsAssumption == IsFiniteSet(Clients)
ASSUME MinuteAssumption == Minute \in Nat \ {0}
ASSUME IdleAssumption == Idle \in Nat /\ Idle >= Minute
ASSUME TrackedAssumption == MaxTracked \in Nat \ {0}
ASSUME RatesAssumption == Rates \subseteq Nat

VARIABLES
    rpm,              \* requests_per_minute, 0: no limit
    tracked,          \* the keys of _buckets
    tokens, updated,  \* their values
    fresh,            \* clients that begin with a full bucket: new ones, and
                      \* those dropped before they were idle
    due               \* when a refused client was told to come back, or 0

tableVars == <<tracked, tokens, updated, fresh>>
bucketVars == <<now, rpm, tableVars, due>>

Capacity == rpm * Minute

\* Tokens t counted at time u, filled up to the present.
Filled(t, u) ==
    LET sum == t + (now - u) * rpm IN IF sum < Capacity THEN sum ELSE Capacity

Level(c) == IF c \in tracked THEN Filled(tokens[c], updated[c]) ELSE Capacity

BucketInit ==
    /\ now = 0
    /\ rpm \in Rates
    /\ tracked = {} /\ fresh = Clients
    /\ tokens = [c \in Clients |-> 0] /\ updated = [c \in Clients |-> 0]
    /\ due = [c \in Clients |-> 0]

----------------------------------------------------------------------------
\* _prune_locked, after the bucket of c was stored: of a table that is too
\* large the buckets that were idle are deleted, then the oldest one.  The
\* sort is stable and c was inserted last, so c itself is never dropped.
IsIdle_TooSoon(k) == updated[k] + Idle \div 2 < now

IsIdle(k) == updated[k] + Idle < now

Prune(c, kept) ==
    LET stored == tracked \cup {c}
        busy == {k \in stored : k = c \/ ~IsIdle(k)}
    IN IF Cardinality(stored) <= MaxTracked THEN kept = stored
       ELSE IF Cardinality(busy) <= MaxTracked THEN kept = busy
       ELSE \E k \in busy \ {c} :
              /\ \A j \in busy \ {c} : updated[k] <= updated[j]
              /\ kept = busy \ {k}

\* One request of c costs `price`: _refill_locked and the store after it.
Store(c, price) ==
    /\ tokens' = [tokens EXCEPT ![c] = Level(c) - price]
    /\ updated' = [updated EXCEPT ![c] = now]
    /\ \E kept \in SUBSET (tracked \cup {c}) :
         /\ Prune(c, kept)
         /\ tracked' = kept
         /\ fresh' = (fresh \ {c}) \cup {k \in tracked \ kept : ~IsIdle(k)}

Admit(c) ==
    /\ rpm > 0
    /\ Level(c) >= Minute
    /\ Store(c, Minute)
    /\ due' = [due EXCEPT ![c] = 0]
    /\ UNCHANGED <<now, rpm>>

RetryAfter_RoundsDown(missing) == missing \div rpm

\* retry_after: what is missing, at rpm parts a second, rounded up.
RetryAfter(missing) == (missing + rpm - 1) \div rpm

Refuse(c) ==
    /\ rpm > 0
    /\ Level(c) < Minute
    /\ Store(c, 0)
    /\ due' = [due EXCEPT ![c] = now + RetryAfter(Minute - Level(c))]
    /\ UNCHANGED <<now, rpm>>

\* update_config: the buckets stay, unless the limit is switched off.
SetRate(r) ==
    /\ r # rpm
    /\ rpm' = r
    /\ due' = [c \in Clients |-> 0]
    /\ IF r = 0 THEN tracked' = {} /\ fresh' = Clients
                ELSE UNCHANGED <<tracked, fresh>>
    /\ UNCHANGED <<now, tokens, updated>>

BucketTick == Tick /\ UNCHANGED <<rpm, tableVars, due>>

BucketNext ==
    \/ \E c \in Clients : Admit(c) \/ Refuse(c)
    \/ \E r \in Rates : SetRate(r)
    \/ BucketTick

BucketSpec == BucketInit /\ [][BucketNext]_bucketVars

----------------------------------------------------------------------------
BucketTypeOK ==
    /\ now \in Nat /\ rpm \in Rates
    /\ tracked \subseteq Clients /\ fresh \subseteq Clients
    /\ tokens \in [Clients -> Nat] /\ updated \in [Clients -> Nat]
    /\ due \in [Clients -> Nat]

\* The table of limited size limits as one that never forgets: a client that
\* was forgotten because it was idle would have a full bucket anyway, also
\* when the rate was changed since; only one that was dropped for the size of
\* the table begins anew (_prune_locked and _BUCKET_IDLE_SECONDS).
BucketsAreExact ==
    /\ Cardinality(tracked) <= MaxTracked
    /\ \A c \in Clients \ fresh : Level(c) = Filled(tokens[c], updated[c])

\* A refused client that waits as it was told finds a token, and would not
\* have found one a second earlier unless its bucket was dropped, whatever it
\* and other clients asked in between (retry_after of check_rpm_only).
RetryAfterIsExact ==
    \A c \in Clients : due[c] # 0 =>
        /\ now >= due[c] => Level(c) >= Minute
        /\ now < due[c] /\ c \notin fresh => Level(c) < Minute
=============================================================================
