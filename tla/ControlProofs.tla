---------------------------- MODULE ControlProofs ----------------------------
(***************************************************************************)
(* The four parts of MCControl, each for every value of its constants.     *)
(*                                                                         *)
(* Token buckets: the table of buckets is exact and retry_after is right,  *)
(* for any number of clients, any size of the table and any rates.  The    *)
(* invariant says when a client that is not in the table can be told apart *)
(* from one that never was; the rest is arithmetic about rounding up.      *)
(*                                                                         *)
(* Login throttle: a deque is the end of the list of all failures, without *)
(* some that are too old; pruning it leaves as many as there were failures *)
(* within the window; a lock was set when they were enough.                *)
(*                                                                         *)
(* Routing: what the switches say runs, and every name is routed by the    *)
(* running configuration.                                                  *)
(***************************************************************************)
EXTENDS MCControl, FoldTheorems, SequenceTheorems

\* Min and Max of the community modules are in the set, and bound it.
LEMMA MinIsLeast ==
    ASSUME NEW T \in SUBSET Nat, T # {}
    PROVE  Min(T) \in T /\ \A x \in T : Min(T) <= x
  <1>1. \E x \in T : \A y \in T : x <= y
    BY LeastNatural
  <1>2. QED
    BY <1>1 DEF Min

LEMMA MaxIsGreatest ==
    ASSUME NEW n \in Nat, NEW T \in SUBSET (1 .. n), T # {}
    PROVE  Max(T) \in T /\ \A x \in T : x <= Max(T)
  <1> DEFINE R == {n - x : x \in T}
  <1>0. \A x \in T : x \in Nat /\ x <= n /\ n - x \in Nat /\ n - x \in R
    OBVIOUS
  <1>1. R \in SUBSET Nat /\ R # {}
    BY <1>0
  <1>2. PICK r \in R : \A y \in R : r <= y
    BY <1>1, LeastNatural
  <1>3. PICK x \in T : r = n - x
    BY <1>2
  <1>4. ASSUME NEW y \in T PROVE x >= y
    <2>1. n - x <= n - y /\ x \in Nat /\ y \in Nat
      BY <1>0, <1>2, <1>3, n - y \in R
    <2>2. QED
      BY <2>1
  <1>5. \E z \in T : \A y \in T : z >= y
    BY <1>4
  <1>6. Max(T) \in T /\ \A y \in T : Max(T) >= y
    BY <1>5 DEF Max
  <1>7. QED
    BY <1>6

----------------------------------------------------------------------------
(* Token buckets *)

LEMMA TimesMonotone ==
    ASSUME NEW a \in Nat, NEW b \in Nat, NEW r \in Nat, a <= b
    PROVE  a * r <= b * r
<1>1. PICK k \in Nat : b = a + k
  <2>1. b - a \in Nat /\ b = a + (b - a)
    OBVIOUS
  <2> QED BY <2>1
<1>2. k * r \in Nat /\ a * r \in Nat
  OBVIOUS
<1>3. b * r = a * r + k * r
  BY <1>1
<1> QED BY <1>2, <1>3

\* What rounding up means.
LEMMA RoundUp ==
    ASSUME NEW m \in Nat \ {0}, NEW r \in Nat \ {0}, NEW d \in Nat
    PROVE  d >= (m + r - 1) \div r <=> d * r >= m
<1> DEFINE q == (m + r - 1) \div r
<1>1. q \in Nat /\ q * r <= m + r - 1 /\ m + r - 1 < q * r + r
  <2>1. m + r - 1 \in Nat
    OBVIOUS
  <2>2. /\ m + r - 1 = r * q + ((m + r - 1) % r)
        /\ (m + r - 1) % r \in 0 .. r - 1
    BY <2>1
  <2>3. q \in Nat
    BY <2>1
  <2> HIDE DEF q
  <2>4. r * q = q * r /\ q * r \in Nat
    BY <2>3
  <2> QED BY <2>2, <2>3, <2>4
<1> HIDE DEF q
<1>2. CASE d >= q
  <2>1. q * r <= d * r
    BY <1>1, <1>2, TimesMonotone
  <2>2. q * r \in Nat /\ d * r \in Nat
    BY <1>1
  <2>3. d * r >= m
    BY <1>1, <2>1, <2>2
  <2> QED BY <1>2, <2>3 DEF q
<1>3. CASE d < q
  <2>1. d + 1 \in Nat /\ d + 1 <= q
    BY <1>1, <1>3
  <2>2. (d + 1) * r <= q * r
    BY <1>1, <2>1, TimesMonotone
  <2>3. (d + 1) * r = d * r + r /\ d * r \in Nat /\ q * r \in Nat
    BY <1>1
  <2>4. ~(d * r >= m)
    BY <1>1, <2>2, <2>3
  <2> QED BY <1>1, <1>3, <2>4 DEF q
<1> QED BY <1>1, <1>2, <1>3

----------------------------------------------------------------------------
\* A client that is no longer in the table and does not begin anew was idle
\* for so long that its bucket filled up, and a refused client is due when
\* its bucket, as it was last counted, will hold a token.
TableInv ==
    /\ IsFiniteSet(tracked) /\ Cardinality(tracked) <= MaxTracked
    /\ tracked \cap fresh = {}
    /\ rpm = 0 => tracked = {} /\ fresh = Clients
    /\ \A c \in Clients : updated[c] <= now
    /\ \A c \in Clients \ fresh : c \notin tracked => IsIdle(c)

DueInv ==
    \A c \in Clients : due[c] # 0 =>
        /\ rpm > 0
        /\ c \notin fresh => /\ tokens[c] < Minute
                             /\ due[c] = updated[c] + RetryAfter(Minute - tokens[c])

BucketInv == BucketTypeOK /\ TableInv /\ DueInv

\* What a bucket holds after some time.
LEMMA FilledType ==
    ASSUME BucketTypeOK, NEW t \in Nat, NEW u \in Nat, u <= now
    PROVE  Filled(t, u) \in Nat /\ Capacity \in Nat
<1>1. rpm \in Nat /\ now - u \in Nat
  BY RatesAssumption DEF BucketTypeOK
<1>2. (now - u) * rpm \in Nat /\ rpm * Minute \in Nat
  BY <1>1, MinuteAssumption
<1> QED BY <1>2 DEF Filled, Capacity

\* After a minute without a request a bucket is full, whatever it held.
LEMMA IdleFull ==
    ASSUME BucketTypeOK, NEW t \in Nat, NEW u \in Nat, u + Minute <= now
    PROVE  Filled(t, u) = Capacity
<1>1. rpm \in Nat /\ now - u \in Nat /\ Minute <= now - u
  BY RatesAssumption, MinuteAssumption DEF BucketTypeOK
<1>2. Minute * rpm <= (now - u) * rpm
  BY <1>1, MinuteAssumption, TimesMonotone
<1>3. (now - u) * rpm \in Nat /\ rpm * Minute = Minute * rpm /\ rpm * Minute \in Nat
  BY <1>1, MinuteAssumption
<1> QED BY <1>2, <1>3 DEF Filled, Capacity

LEMMA LevelType ==
    ASSUME BucketTypeOK, TableInv, NEW c \in Clients PROVE Level(c) \in Nat
<1>1. tokens[c] \in Nat /\ updated[c] \in Nat /\ updated[c] <= now
  BY DEF BucketTypeOK, TableInv
<1> QED BY <1>1, FilledType DEF Level

\* A bucket holds a token exactly from the time RetryAfter tells.
LEMMA TokenWhenDue ==
    ASSUME BucketTypeOK, rpm > 0, NEW t \in Nat, NEW u \in Nat, u <= now, t < Minute
    PROVE  Filled(t, u) >= Minute <=> now >= u + RetryAfter(Minute - t)
<1>1. rpm \in Nat \ {0} /\ now - u \in Nat /\ Minute - t \in Nat \ {0}
  BY RatesAssumption, MinuteAssumption DEF BucketTypeOK
<1>2. now - u >= RetryAfter(Minute - t) <=> (now - u) * rpm >= Minute - t
  BY <1>1, RoundUp DEF RetryAfter
<1>3. RetryAfter(Minute - t) \in Nat
  BY <1>1 DEF RetryAfter
<1>4. 1 * Minute <= rpm * Minute
  BY <1>1, MinuteAssumption, TimesMonotone
<1>5. (now - u) * rpm \in Nat /\ rpm * Minute \in Nat
  BY <1>1, MinuteAssumption
<1>6. Filled(t, u) >= Minute <=> t + (now - u) * rpm >= Minute
  BY <1>4, <1>5, MinuteAssumption DEF Filled, Capacity
<1>7. now \in Nat
  BY DEF BucketTypeOK
<1> QED BY <1>1, <1>2, <1>3, <1>5, <1>6, <1>7, MinuteAssumption

LEMMA BucketStarts == BucketInit => BucketInv
<1> SUFFICES ASSUME BucketInit PROVE BucketInv
  OBVIOUS
<1>1. BucketTypeOK
  BY DEF BucketInit, BucketTypeOK
<1>2. TableInv
  BY FS_EmptySet, TrackedAssumption DEF BucketInit, TableInv
<1>3. DueInv
  BY DEF BucketInit, DueInv
<1> QED BY <1>1, <1>2, <1>3 DEF BucketInv

\* Pruning keeps the bucket just stored and at most MaxTracked others' worth.
LEMMA PruneKeeps ==
    ASSUME TableInv, NEW c \in Clients, NEW kept \in SUBSET (tracked \cup {c}), Prune(c, kept)
    PROVE  c \in kept /\ IsFiniteSet(kept) /\ Cardinality(kept) <= MaxTracked
<1> DEFINE stored == tracked \cup {c}
           busy == {k \in stored : k = c \/ ~IsIdle(k)}
<1>1. IsFiniteSet(stored) /\ Cardinality(stored) <= MaxTracked + 1
      /\ Cardinality(stored) \in Nat
  <2>1. IsFiniteSet(tracked) /\ Cardinality(tracked) <= MaxTracked
    BY DEF TableInv
  <2>2. IsFiniteSet(stored)
        /\ Cardinality(stored) = IF c \in tracked THEN Cardinality(tracked)
                                                  ELSE Cardinality(tracked) + 1
    BY <2>1, FS_AddElement
  <2>3. Cardinality(tracked) \in Nat
    BY <2>1, FS_CardinalityType
  <2> QED BY <2>1, <2>2, <2>3, TrackedAssumption
<1>2. IsFiniteSet(busy) /\ Cardinality(busy) <= Cardinality(stored)
      /\ Cardinality(busy) \in Nat
  <2>1. busy \subseteq stored
    OBVIOUS
  <2>2. IsFiniteSet(busy) /\ Cardinality(busy) <= Cardinality(stored)
    BY <1>1, <2>1, FS_Subset
  <2> QED BY <2>2, FS_CardinalityType
<1>3. kept \subseteq stored /\ IsFiniteSet(kept)
  BY <1>1, FS_Subset
<1>4. CASE Cardinality(stored) <= MaxTracked
  BY <1>3, <1>4 DEF Prune
<1>5. CASE Cardinality(stored) > MaxTracked /\ Cardinality(busy) <= MaxTracked
  <2>1. kept = busy
    BY <1>1, <1>5, TrackedAssumption DEF Prune
  <2> QED BY <1>3, <1>5, <2>1
<1>6. CASE Cardinality(stored) > MaxTracked /\ Cardinality(busy) > MaxTracked
  <2>1. PICK k \in busy \ {c} : kept = busy \ {k}
    BY <1>1, <1>2, <1>6, TrackedAssumption DEF Prune
  <2>2. Cardinality(kept) = Cardinality(busy) - 1
    BY <1>2, <2>1, FS_RemoveElement
  <2>3. c \in kept
    BY <2>1
  <2> QED BY <1>1, <1>2, <1>3, <2>2, <2>3, TrackedAssumption
<1> QED BY <1>1, <1>2, <1>4, <1>5, <1>6, TrackedAssumption

LEMMA StoreKeeps ==
    ASSUME BucketTypeOK, TableInv, rpm > 0, NEW c \in Clients, NEW price \in Nat,
           price <= Level(c), Store(c, price), UNCHANGED <<now, rpm>>
    PROVE  /\ TableInv'
           /\ tokens' \in [Clients -> Nat] /\ updated' \in [Clients -> Nat]
           /\ tracked' \subseteq Clients /\ fresh' \subseteq Clients
           /\ tokens'[c] = Level(c) - price /\ updated'[c] = now
           /\ \A k \in Clients \ {c} : tokens'[k] = tokens[k] /\ updated'[k] = updated[k]
           /\ \A k \in Clients : k \in fresh => k = c \/ k \in fresh'
<1>1. PICK kept \in SUBSET (tracked \cup {c}) :
        /\ Prune(c, kept) /\ tracked' = kept
        /\ fresh' = (fresh \ {c}) \cup {k \in tracked \ kept : ~IsIdle(k)}
  BY DEF Store
<1>2. c \in kept /\ IsFiniteSet(kept) /\ Cardinality(kept) <= MaxTracked
  BY <1>1, PruneKeeps
<1>3. Level(c) \in Nat /\ Level(c) - price \in Nat
  BY LevelType
<1>4. /\ tokens' = [tokens EXCEPT ![c] = Level(c) - price]
      /\ updated' = [updated EXCEPT ![c] = now]
  BY DEF Store
<1>5. now \in Nat /\ tokens \in [Clients -> Nat] /\ updated \in [Clients -> Nat]
      /\ tracked \subseteq Clients /\ fresh \subseteq Clients
  BY DEF BucketTypeOK
<1>6. tokens' \in [Clients -> Nat] /\ updated' \in [Clients -> Nat]
  BY <1>3, <1>4, <1>5
<1>7. \A k \in Clients \ {c} : tokens'[k] = tokens[k] /\ updated'[k] = updated[k]
  BY <1>4, <1>5
<1>8. tokens'[c] = Level(c) - price /\ updated'[c] = now
  BY <1>4, <1>5
<1>9. tracked' \subseteq Clients /\ fresh' \subseteq Clients
  BY <1>1, <1>5
<1>10. TableInv'
  <2>1. tracked' \cap fresh' = {}
    BY <1>1, <1>2 DEF TableInv
  <2>2. \A k \in Clients : updated'[k] <= now'
    <3>1. \A k \in Clients : updated[k] <= now
      BY DEF TableInv
    <3> QED BY <1>5, <1>7, <1>8, <3>1
  <2>3. \A k \in Clients \ fresh' : k \notin tracked' => IsIdle(k)'
    <3> SUFFICES ASSUME NEW k \in Clients, k \notin fresh', k \notin tracked'
                 PROVE  IsIdle(k)'
      OBVIOUS
    <3>1. k # c /\ k \notin fresh
      BY <1>1, <1>2
    <3>2. IsIdle(k)
      BY <1>1, <3>1 DEF TableInv
    <3>3. updated'[k] = updated[k] /\ now' = now
      BY <1>7, <3>1
    <3> QED BY <3>2, <3>3 DEF IsIdle
  <2>4. ~(rpm' = 0)
    BY RatesAssumption DEF BucketTypeOK
  <2> QED BY <1>1, <1>2, <2>1, <2>2, <2>3, <2>4 DEF TableInv
<1>11. \A k \in Clients : k \in fresh => k = c \/ k \in fresh'
  BY <1>1
<1> QED BY <1>6, <1>7, <1>8, <1>9, <1>10, <1>11

LEMMA BucketKept == ASSUME BucketInv, [BucketNext]_bucketVars PROVE BucketInv'
<1>p. BucketTypeOK /\ TableInv /\ DueInv
  BY DEF BucketInv
<1>1. ASSUME NEW c \in Clients, Admit(c) PROVE BucketInv'
  <2>1. rpm > 0 /\ Level(c) >= Minute /\ Store(c, Minute) /\ UNCHANGED <<now, rpm>>
        /\ due' = [due EXCEPT ![c] = 0]
    BY <1>1 DEF Admit
  <2>2. Minute \in Nat /\ Minute <= Level(c)
    BY <1>p, <2>1, LevelType, MinuteAssumption
  <2>3. /\ TableInv'
        /\ tokens' \in [Clients -> Nat] /\ updated' \in [Clients -> Nat]
        /\ tracked' \subseteq Clients /\ fresh' \subseteq Clients
        /\ \A k \in Clients \ {c} : tokens'[k] = tokens[k] /\ updated'[k] = updated[k]
        /\ \A k \in Clients : k \in fresh => k = c \/ k \in fresh'
    BY <1>p, <2>1, <2>2, StoreKeeps
  <2>4. BucketTypeOK'
    BY <1>p, <2>1, <2>3 DEF BucketTypeOK
  <2>5. DueInv'
    <3> SUFFICES ASSUME NEW k \in Clients, due'[k] # 0
                 PROVE  /\ rpm' > 0
                        /\ k \notin fresh' =>
                             /\ tokens'[k] < Minute
                             /\ due'[k] = updated'[k] + RetryAfter(Minute - tokens'[k])
      BY <2>1 DEF DueInv, RetryAfter
    <3>1. k # c /\ due'[k] = due[k]
      BY <1>p, <2>1 DEF BucketTypeOK
    <3>2. k \notin fresh' => k \notin fresh
      BY <2>3, <3>1
    <3> QED BY <1>p, <2>1, <2>3, <3>1, <3>2 DEF DueInv
  <2> QED BY <2>3, <2>4, <2>5 DEF BucketInv
<1>2. ASSUME NEW c \in Clients, Refuse(c) PROVE BucketInv'
  <2>1. rpm > 0 /\ Level(c) < Minute /\ Store(c, 0) /\ UNCHANGED <<now, rpm>>
        /\ due' = [due EXCEPT ![c] = now + RetryAfter(Minute - Level(c))]
    BY <1>2 DEF Refuse
  <2>2. 0 \in Nat /\ 0 <= Level(c) /\ Level(c) \in Nat
    BY <1>p, LevelType
  <2>3. /\ TableInv'
        /\ tokens' \in [Clients -> Nat] /\ updated' \in [Clients -> Nat]
        /\ tracked' \subseteq Clients /\ fresh' \subseteq Clients
        /\ tokens'[c] = Level(c) - 0 /\ updated'[c] = now
        /\ \A k \in Clients \ {c} : tokens'[k] = tokens[k] /\ updated'[k] = updated[k]
        /\ \A k \in Clients : k \in fresh => k = c \/ k \in fresh'
    BY <1>p, <2>1, <2>2, StoreKeeps
  <2>r. RetryAfter(Minute - Level(c)) \in Nat
    <3>1. Minute - Level(c) \in Nat /\ rpm \in Nat \ {0}
      BY <1>p, <2>1, <2>2, MinuteAssumption, RatesAssumption DEF BucketTypeOK
    <3> QED BY <3>1 DEF RetryAfter
  <2>4. BucketTypeOK'
    <3>1. now + RetryAfter(Minute - Level(c)) \in Nat
      BY <1>p, <2>r DEF BucketTypeOK
    <3>2. due' \in [Clients -> Nat]
      BY <1>p, <2>1, <3>1 DEF BucketTypeOK
    <3> QED BY <1>p, <2>1, <2>3, <3>2 DEF BucketTypeOK
  <2>5. DueInv'
    <3> SUFFICES ASSUME NEW k \in Clients, due'[k] # 0
                 PROVE  /\ rpm' > 0
                        /\ k \notin fresh' =>
                             /\ tokens'[k] < Minute
                             /\ due'[k] = updated'[k] + RetryAfter(Minute - tokens'[k])
      BY <2>1 DEF DueInv, RetryAfter
    <3>1. CASE k = c
      <4>1. tokens'[c] = Level(c)
        BY <2>2, <2>3
      <4>2. due'[c] = now + RetryAfter(Minute - Level(c))
        BY <1>p, <2>1 DEF BucketTypeOK
      <4> QED BY <2>1, <2>3, <3>1, <4>1, <4>2
    <3>2. CASE k # c
      <4>1. due'[k] = due[k] /\ tokens'[k] = tokens[k] /\ updated'[k] = updated[k]
        BY <1>p, <2>1, <2>3, <3>2 DEF BucketTypeOK
      <4>2. k \notin fresh' => k \notin fresh
        BY <2>3, <3>2
      <4> QED BY <1>p, <2>1, <4>1, <4>2 DEF DueInv
    <3> QED BY <3>1, <3>2
  <2> QED BY <2>3, <2>4, <2>5 DEF BucketInv
<1>3. ASSUME NEW r \in Rates, SetRate(r) PROVE BucketInv'
  <2> USE <1>3, <1>p DEF SetRate
  <2>1. BucketTypeOK'
    BY DEF BucketTypeOK
  <2>2. TableInv'
    <3>1. CASE r = 0
      BY <3>1, FS_EmptySet, TrackedAssumption DEF TableInv, IsIdle
    <3>2. CASE r # 0
      BY <3>2 DEF TableInv, IsIdle
    <3> QED BY <3>1, <3>2
  <2>3. DueInv'
    BY DEF DueInv
  <2> QED BY <2>1, <2>2, <2>3 DEF BucketInv
<1>4. CASE BucketTick
  <2>1. now' = now + 1 /\ now \in Nat /\ UNCHANGED <<rpm, tracked, tokens, updated, fresh, due>>
    BY <1>4, <1>p DEF BucketTick, Tick, tableVars, BucketTypeOK
  <2>2. BucketTypeOK'
    BY <1>p, <2>1 DEF BucketTypeOK
  <2>3. TableInv'
    BY <1>p, <2>1, IdleAssumption DEF TableInv, IsIdle, BucketTypeOK
  <2>4. DueInv'
    BY <1>p, <2>1 DEF DueInv, RetryAfter
  <2> QED BY <2>2, <2>3, <2>4 DEF BucketInv
<1>5. CASE UNCHANGED bucketVars
  BY <1>5, <1>p DEF bucketVars, tableVars, BucketInv, BucketTypeOK, TableInv, DueInv,
     IsIdle, RetryAfter
<1> QED BY <1>1, <1>2, <1>3, <1>4, <1>5 DEF BucketNext

\* The variables of the limiter keep their types.
THEOREM BucketsTyped == BucketSpec => []BucketTypeOK
<1>1. BucketInv => BucketTypeOK
  BY DEF BucketInv
<1> QED BY <1>1, BucketStarts, BucketKept, PTL DEF BucketSpec

\* Forgetting idle clients gives nothing away.
THEOREM BucketsExact == BucketSpec => []BucketsAreExact
<1>1. BucketInv => BucketsAreExact
  <2> SUFFICES ASSUME BucketInv PROVE BucketsAreExact
    OBVIOUS
  <2>p. BucketTypeOK /\ TableInv
    BY DEF BucketInv
  <2>1. ASSUME NEW c \in Clients \ fresh PROVE Level(c) = Filled(tokens[c], updated[c])
    <3>1. CASE c \in tracked
      BY <3>1 DEF Level
    <3>2. CASE c \notin tracked
      <4>1. IsIdle(c) /\ updated[c] \in Nat /\ tokens[c] \in Nat /\ now \in Nat
        BY <2>1, <2>p, <3>2 DEF TableInv, BucketTypeOK
      <4>2. updated[c] + Minute <= now
        BY <4>1, MinuteAssumption, IdleAssumption DEF IsIdle
      <4> QED BY <2>p, <3>2, <4>1, <4>2, IdleFull DEF Level
    <3> QED BY <3>1, <3>2
  <2> QED BY <2>p, <2>1 DEF TableInv, BucketsAreExact
<1> QED BY <1>1, BucketStarts, BucketKept, PTL DEF BucketSpec

\* A refused client that waits as told is admitted, and not a second earlier.
THEOREM RetryAfterExact == BucketSpec => []RetryAfterIsExact
<1>1. BucketInv /\ BucketsAreExact => RetryAfterIsExact
  <2> SUFFICES ASSUME BucketInv, BucketsAreExact, NEW c \in Clients, due[c] # 0
               PROVE  /\ now >= due[c] => Level(c) >= Minute
                      /\ now < due[c] /\ c \notin fresh => Level(c) < Minute
    BY DEF RetryAfterIsExact
  <2>p. BucketTypeOK /\ TableInv /\ DueInv /\ rpm > 0
    BY DEF BucketInv, DueInv
  <2>1. CASE c \in fresh
    <3>1. Level(c) = Capacity
      BY <2>p, <2>1 DEF TableInv, Level
    <3>2. rpm \in Nat \ {0} /\ 1 <= rpm
      BY <2>p, RatesAssumption DEF BucketTypeOK
    <3>3. 1 * Minute <= rpm * Minute
      BY <3>2, MinuteAssumption, TimesMonotone
    <3>4. rpm * Minute \in Nat
      BY <3>2, MinuteAssumption
    <3> QED BY <2>1, <3>1, <3>3, <3>4, MinuteAssumption DEF Capacity
  <2>2. CASE c \notin fresh
    <3>1. tokens[c] \in Nat /\ updated[c] \in Nat /\ updated[c] <= now
          /\ tokens[c] < Minute /\ due[c] = updated[c] + RetryAfter(Minute - tokens[c])
      BY <2>p, <2>2 DEF BucketTypeOK, TableInv, DueInv
    <3>2. Filled(tokens[c], updated[c]) >= Minute <=> now >= due[c]
      BY <2>p, <3>1, TokenWhenDue
    <3>3. Level(c) = Filled(tokens[c], updated[c])
      BY <2>2 DEF BucketsAreExact
    <3>4. Level(c) \in Nat /\ now \in Nat /\ due[c] \in Nat
      BY <2>p, LevelType DEF BucketTypeOK
    <3> QED BY <3>2, <3>3, <3>4, MinuteAssumption
  <2> QED BY <2>1, <2>2
<1> QED BY <1>1, BucketStarts, BucketKept, BucketsExact, PTL DEF BucketSpec

----------------------------------------------------------------------------
(* The login throttle *)

\* Times in the order they happened, none of them later than t.
InOrder(times, t) ==
    /\ \A i, j \in DOMAIN times : i <= j => times[i] <= times[j]
    /\ \A i \in DOMAIN times : times[i] <= t

\* q is what is left of the times when some that were too old at t are dropped.
TailOf(q, times, t) ==
    /\ Len(q) <= Len(times)
    /\ \A i \in DOMAIN q : q[i] = times[i + (Len(times) - Len(q))]
    /\ \A i \in 1 .. Len(times) - Len(q) : times[i] + Window < t

\* What is true of a key at time t, of its deque q, the end u of its lock and
\* its failures: a lock was set at a moment when the failures reached a limit.
KeyInv(q, u, times, t) ==
    /\ q \in Seq(Nat) /\ times \in Seq(Nat) /\ u \in Nat
    /\ InOrder(times, t) /\ TailOf(q, times, t)
    /\ u # 0 => \E l \in Lockouts, n \in Thresholds :
                    Cardinality(NotOlder(times, Window + l, u)) >= n

GuardInv ==
    /\ now \in Nat /\ limit \in Limits
    /\ DOMAIN hits = Keys /\ DOMAIN failed = Keys /\ DOMAIN lockedUntil = Keys
    /\ hits = [k \in Keys |-> hits[k]] /\ failed = [k \in Keys |-> failed[k]]
    /\ lockedUntil = [k \in Keys |-> lockedUntil[k]]
    /\ \A k \in Keys : KeyInv(hits[k], lockedUntil[k], failed[k], now)

\* Pruning drops what is older than the window, and nothing else: as many times
\* are left as there were failures within the window.
LEMMA PruningExact ==
    ASSUME now \in Nat, NEW f \in Seq(Nat), NEW h \in Seq(Nat),
           InOrder(f, now), TailOf(h, f, now)
    PROVE  /\ Recent(h) \in Seq(Nat) /\ TailOf(Recent(h), f, now)
           /\ Cardinality(NotOlder(f, Window, now)) = Len(Recent(h))
  <1> DEFINE D == Len(f) - Len(h)
             kept == {i \in DOMAIN h : h[i] + Window >= now}
             all == {i \in DOMAIN f : f[i] + Window >= now}
  <1>0. /\ Len(f) \in Nat /\ Len(h) \in Nat /\ Window \in Nat
        /\ D \in Nat /\ D = Len(f) - Len(h)
        /\ DOMAIN f = 1 .. Len(f) /\ DOMAIN h = 1 .. Len(h)
        /\ \A i \in DOMAIN f : f[i] \in Nat
        /\ \A i \in DOMAIN h : h[i] \in Nat /\ i + D \in DOMAIN f /\ h[i] = f[i + D]
        /\ \A i \in 1 .. D : f[i] + Window < now
    BY WindowAssumption DEF TailOf
  <1> HIDE DEF D
  <1>1. Recent(h) = IF kept = {} THEN <<>> ELSE SubSeq(h, Min(kept), Len(h))
    BY DEF Recent, NotOlder
  <1>2. CASE kept = {}
    <2>1. Recent(h) = <<>>
      BY <1>1, <1>2
    <2>2. ASSUME NEW i \in DOMAIN f PROVE f[i] + Window < now
      <3>1. CASE i <= D
        BY <1>0, <3>1
      <3>2. CASE i > D
        <4>1. i - D \in DOMAIN h /\ (i - D) + D = i
          BY <1>0, <3>2
        <4>2. h[i - D] = f[i] /\ i - D \notin kept
          BY <1>0, <1>2, <4>1
        <4>3. ~(h[i - D] + Window >= now)
          BY <4>1, <4>2
        <4>4. QED
          BY <1>0, <4>2, <4>3
      <3>3. QED
        BY <1>0, <3>1, <3>2
    <2>3. all = {}
      BY <1>0, <2>2
    <2>4. TailOf(<<>>, f, now)
      <3> DEFINE e == <<>>
      <3>1. Len(e) = 0 /\ DOMAIN e = {}
        OBVIOUS
      <3> HIDE DEF e
      <3>2. Len(f) - Len(e) = Len(f) /\ Len(e) <= Len(f)
        BY <1>0, <3>1
      <3>3. \A i \in 1 .. Len(f) - Len(e) : f[i] + Window < now
        BY <1>0, <2>2, <3>2
      <3>4. TailOf(e, f, now)
        BY <3>1, <3>2, <3>3 DEF TailOf
      <3>5. QED
        BY <3>4 DEF e
    <2> HIDE DEF all
    <2>5. Cardinality(all) = 0
      BY <2>3, FS_EmptySet
    <2>6. QED
      BY <2>1, <2>4, <2>5 DEF all, NotOlder
  <1>3. CASE kept # {}
    <2> DEFINE m == Min(kept)
               r == SubSeq(h, m, Len(h))
    <2>1. m \in kept /\ \A x \in kept : m <= x
      <3>1. kept \in SUBSET Nat
        BY <1>0
      <3> HIDE DEF kept
      <3>2. QED
        BY <1>3, <3>1, MinIsLeast
    <2>2. m \in 1 .. Len(h) /\ h[m] + Window >= now
      BY <1>0, <2>1
    <2> HIDE DEF m
    <2>b. /\ D \in Nat /\ m \in Nat /\ Len(h) \in Nat /\ Len(f) = Len(h) + D
          /\ 1 <= m /\ m <= Len(h)
      BY <1>0, <2>2
    <2>3. \A i \in DOMAIN h : i < m => h[i] + Window < now
      <3> SUFFICES ASSUME NEW i \in DOMAIN h, i < m PROVE h[i] + Window < now
        OBVIOUS
      <3>1. i \in Nat /\ m \in Nat /\ ~(m <= i)
        <4>1. Len(h) \in Nat /\ i \in 1 .. Len(h) /\ m \in 1 .. Len(h)
          BY <1>0, <2>2
        <4>2. QED
          BY <4>1
      <3>2. i \notin kept
        BY <2>1, <3>1
      <3>3. QED
        BY <1>0, <3>2
    <2> HIDE DEF kept
    <2>4. Recent(h) = r
      BY <1>1, <1>3 DEF m
    <2>5. /\ r \in Seq(Nat) /\ Len(r) = Len(h) - m + 1
          /\ \A i \in 1 .. Len(r) : r[i] = h[m + i - 1]
      <3> DEFINE n == Len(h)
      <3>1. m \in Int /\ n \in Int /\ m <= n /\ \A i \in m .. n : h[i] \in Nat
        BY <2>b, SMTT(30)
      <3>2. /\ r \in Seq(Nat) /\ Len(r) = n - m + 1
            /\ \A i \in 1 .. n - m + 1 : r[i] = h[m + i - 1]
        <4> HIDE DEF n
        <4>1. /\ SubSeq(h, m, n) \in Seq(Nat)
              /\ Len(SubSeq(h, m, n)) = IF m <= n THEN n - m + 1 ELSE 0
              /\ \A i \in 1 .. n - m + 1 : SubSeq(h, m, n)[i] = h[m + i - 1]
          BY <3>1, SubSeqProperties
        <4>2. r = SubSeq(h, m, n)
          BY DEF n
        <4> HIDE DEF r
        <4>3. QED
          BY <3>1, <4>1, <4>2
      <3> HIDE DEF r
      <3>3. QED
        BY <3>2
    <2> HIDE DEF r
    <2>6. Len(f) - Len(r) = D + m - 1 /\ Len(r) \in Nat /\ DOMAIN r = 1 .. Len(r)
      <3>1. Len(r) = Len(h) - m + 1 /\ DOMAIN r = 1 .. Len(r)
        BY <2>5
      <3>2. QED
        BY <2>b, <3>1
    <2>7. \A i \in 1 .. D + m - 1 : f[i] + Window < now
      <3> SUFFICES ASSUME NEW i \in 1 .. D + m - 1 PROVE f[i] + Window < now
        OBVIOUS
      <3>1. CASE i <= D
        BY <1>0, <2>2, <3>1
      <3>2. CASE i > D
        <4>1. i - D \in DOMAIN h /\ (i - D) + D = i /\ i - D < m
          <5>1. i - D \in 1 .. Len(h) /\ (i - D) + D = i /\ i - D < m
            BY <2>b, <3>2
          <5>2. QED
            BY <1>0, <5>1
        <4>2. QED
          BY <1>0, <2>3, <4>1
      <3>3. QED
        BY <2>b, <3>1, <3>2
    <2>8. \A i \in DOMAIN r : r[i] = f[i + (D + m - 1)]
      <3> SUFFICES ASSUME NEW i \in DOMAIN r PROVE r[i] = f[i + (D + m - 1)]
        OBVIOUS
      <3>1. /\ i \in Nat /\ m \in Nat /\ D \in Nat /\ Len(h) \in Nat
            /\ 1 <= i /\ 1 <= m /\ i <= Len(h) - m + 1
        BY <1>0, <2>2, <2>5, <2>6
      <3>2. m + i - 1 \in 1 .. Len(h) /\ (m + i - 1) + D = i + (D + m - 1)
        BY <3>1, SMTT(20)
      <3>3. QED
        BY <1>0, <2>5, <2>6, <3>2
    <2>9. TailOf(r, f, now)
      <3>1. Len(r) <= Len(f)
        BY <1>0, <2>2, <2>5
      <3>2. QED
        BY <2>6, <2>7, <2>8, <3>1 DEF TailOf
    <2>10. all = D + m .. Len(f)
      <3>0. m \in Nat /\ D \in Nat /\ m + D = D + m
        BY <1>0, <2>2
      <3>1. f[D + m] + Window >= now /\ D + m \in DOMAIN f
        BY <1>0, <2>2, <3>0
      <3>2. \A i \in DOMAIN f : i >= D + m => f[i] + Window >= now
        <4> SUFFICES ASSUME NEW i \in DOMAIN f, i >= D + m PROVE f[i] + Window >= now
          OBVIOUS
        <4>1. f[D + m] <= f[i] /\ f[i] \in Nat /\ f[D + m] \in Nat
          BY <1>0, <3>1 DEF InOrder
        <4>2. QED
          BY <1>0, <3>1, <4>1
      <3>3. \A i \in DOMAIN f : i < D + m => ~(f[i] + Window >= now)
        <4> SUFFICES ASSUME NEW i \in DOMAIN f, i < D + m PROVE ~(f[i] + Window >= now)
          OBVIOUS
        <4>1. i \in 1 .. D + m - 1 /\ f[i] \in Nat
          BY <1>0, <2>2
        <4>2. QED
          BY <1>0, <2>7, <4>1
      <3>4. QED
        BY <1>0, <2>2, <3>2, <3>3
    <2> HIDE DEF all
    <2>11. Cardinality(all) = Len(f) - (D + m) + 1
      <3>1. D + m \in Int /\ Len(f) \in Int /\ ~(D + m > Len(f))
        BY <1>0, <2>2
      <3>2. QED
        BY <2>10, <3>1, FS_Interval
    <2>12. Cardinality(all) = Len(r)
      BY <1>0, <2>2, <2>5, <2>11
    <2>13. QED
      BY <2>4, <2>5, <2>9, <2>12 DEF all, NotOlder
  <1>4. QED
    BY <1>2, <1>3

\* Of a sequence of times finitely many are not older than anything,
LEMMA NotOlderFinite ==
    ASSUME NEW times \in Seq(Nat), NEW span \in Nat, NEW t \in Nat
    PROVE  /\ IsFiniteSet(NotOlder(times, span, t))
           /\ Cardinality(NotOlder(times, span, t)) \in Nat
  <1>1. NotOlder(times, span, t) \in SUBSET (1 .. Len(times)) /\ 1 \in Int /\ Len(times) \in Int
    BY DEF NotOlder
  <1>2. IsFiniteSet(1 .. Len(times))
    BY <1>1, FS_Interval
  <1>3. IsFiniteSet(NotOlder(times, span, t))
    BY <1>1, <1>2, FS_Subset
  <1>4. QED
    BY <1>3, FS_CardinalityType

\* and with a longer span or at an earlier moment no fewer.
LEMMA NotOlderMore ==
    ASSUME NEW times \in Seq(Nat), NEW a \in Nat, NEW b \in Nat, NEW s \in Nat, NEW t \in Nat,
           a + t <= b + s
    PROVE  Cardinality(NotOlder(times, a, s)) <= Cardinality(NotOlder(times, b, t))
  <1>1. NotOlder(times, a, s) \in SUBSET NotOlder(times, b, t)
    BY DEF NotOlder
  <1>2. IsFiniteSet(NotOlder(times, b, t))
    BY NotOlderFinite
  <1>3. QED
    BY <1>1, <1>2, FS_Subset

\* Another failure makes them no fewer.
LEMMA NotOlderGrows ==
    ASSUME NEW times \in Seq(Nat), NEW x \in Nat, NEW span \in Nat, NEW t \in Nat
    PROVE  Cardinality(NotOlder(times, span, t)) <= Cardinality(NotOlder(Append(times, x), span, t))
  <1> DEFINE more == Append(times, x)
  <1>1. /\ more \in Seq(Nat) /\ Len(more) = Len(times) + 1 /\ Len(times) \in Nat
        /\ \A i \in 1 .. Len(times) : more[i] = times[i]
    OBVIOUS
  <1> HIDE DEF more
  <1>2. \A i \in DOMAIN times : i \in DOMAIN more /\ more[i] = times[i]
    BY <1>1
  <1>3. NotOlder(times, span, t) \in SUBSET NotOlder(more, span, t)
    BY <1>2 DEF NotOlder
  <1>4. IsFiniteSet(NotOlder(more, span, t))
    BY <1>1, NotOlderFinite
  <1>5. QED
    BY <1>3, <1>4, FS_Subset DEF more

\* The passing of time takes nothing back.
LEMMA KeyLater ==
    ASSUME NEW q, NEW u, NEW times, NEW t \in Nat, NEW later \in Nat, t <= later,
           KeyInv(q, u, times, t)
    PROVE  KeyInv(q, u, times, later)
  <1>1. \A i \in DOMAIN times : times[i] \in Nat
    BY DEF KeyInv
  <1>2. InOrder(times, later)
    BY <1>1 DEF KeyInv, InOrder
  <1>3. TailOf(q, times, later)
    <2>1. \A i \in 1 .. Len(times) - Len(q) : i \in DOMAIN times
      BY DEF KeyInv, TailOf
    <2>2. QED
      BY <1>1, <2>1, WindowAssumption DEF KeyInv, TailOf
  <1>4. QED
    BY <1>2, <1>3 DEF KeyInv

\* Neither does another failure, counted in the pruned deque.
LEMMA KeyFails ==
    ASSUME NEW q, NEW u, NEW times, now \in Nat, KeyInv(q, u, times, now)
    PROVE  KeyInv(Append(Recent(q), now), u, Append(times, now), now)
  <1> DEFINE r == Recent(q)
             more == Append(times, now)
             s == Append(r, now)
  <1>1. r \in Seq(Nat) /\ TailOf(r, times, now)
    BY PruningExact DEF KeyInv
  <1> HIDE DEF r
  <1>2. /\ times \in Seq(Nat) /\ Len(times) \in Nat /\ Len(r) \in Nat /\ Len(r) <= Len(times)
        /\ more \in Seq(Nat) /\ Len(more) = Len(times) + 1
        /\ \A i \in 1 .. Len(times) : more[i] = times[i]
        /\ more[Len(times) + 1] = now
        /\ s \in Seq(Nat) /\ Len(s) = Len(r) + 1 /\ \A i \in 1 .. Len(r) : s[i] = r[i]
        /\ s[Len(r) + 1] = now
    BY <1>1 DEF KeyInv, TailOf
  <1> HIDE DEF more, s
  <1>3. InOrder(more, now)
    <2>1. DOMAIN more = 1 .. Len(times) + 1 /\ DOMAIN times = 1 .. Len(times)
      BY <1>2
    <2>i. /\ \A i, j \in DOMAIN times : i <= j => times[i] <= times[j]
          /\ \A i \in DOMAIN times : times[i] <= now
      BY DEF KeyInv, InOrder
    <2>2. \A i \in DOMAIN more : more[i] \in Nat /\ more[i] <= now
      <3> SUFFICES ASSUME NEW i \in DOMAIN more PROVE more[i] \in Nat /\ more[i] <= now
        OBVIOUS
      <3>1. CASE i = Len(times) + 1
        BY <1>2, <3>1
      <3>2. CASE i \in DOMAIN times
        <4>1. more[i] = times[i] /\ times[i] <= now /\ times[i] \in Nat
          BY <1>2, <2>1, <2>i, <3>2
        <4>2. QED
          BY <4>1
      <3>3. i \in DOMAIN times \/ i = Len(times) + 1
        <4>1. Len(times) \in Nat /\ i \in 1 .. Len(times) + 1
          BY <1>2, <2>1
        <4>2. QED
          BY <2>1, <4>1
      <3>4. QED
        BY <3>1, <3>2, <3>3
    <2>3. ASSUME NEW i \in DOMAIN more, NEW j \in DOMAIN more, i <= j PROVE more[i] <= more[j]
      <3>1. CASE j = Len(times) + 1
        BY <1>2, <2>2, <3>1
      <3>2. CASE j # Len(times) + 1
        <4>1. i \in DOMAIN times /\ j \in DOMAIN times
          <5>1. /\ Len(times) \in Nat /\ i \in 1 .. Len(times) + 1 /\ i <= j
                /\ j \in 1 .. Len(times) + 1 /\ j # Len(times) + 1
            BY <1>2, <2>1, <2>3, <3>2
          <5>2. i \in 1 .. Len(times) /\ j \in 1 .. Len(times)
            BY <5>1
          <5>3. QED
            BY <2>1, <5>2
        <4>2. more[i] = times[i] /\ more[j] = times[j]
          BY <1>2, <2>1, <4>1
        <4>3. QED
          BY <2>3, <2>i, <4>1, <4>2
      <3>3. QED
        BY <3>1, <3>2
    <2>4. QED
      BY <2>2, <2>3 DEF InOrder
  <1>4. TailOf(s, more, now)
    <2> DEFINE D == Len(times) - Len(r)
    <2>1. /\ D \in Nat /\ Len(more) - Len(s) = D /\ Len(s) <= Len(more) /\ D <= Len(times)
          /\ DOMAIN r = 1 .. Len(r) /\ DOMAIN s = 1 .. Len(r) + 1
          /\ (Len(r) + 1) + D = Len(times) + 1 /\ Len(r) + D = Len(times)
      BY <1>2
    <2>2. \A i \in DOMAIN r : r[i] = times[i + D]
      BY <1>1 DEF TailOf
    <2>3. \A i \in 1 .. D : times[i] + Window < now
      BY <1>1 DEF TailOf
    <2> HIDE DEF D
    <2>4. ASSUME NEW i \in DOMAIN s PROVE s[i] = more[i + D]
      <3>1. CASE i = Len(r) + 1
        BY <1>2, <2>1, <3>1
      <3>2. CASE i # Len(r) + 1
        <4>1. /\ i \in 1 .. Len(r) /\ i \in Nat /\ 1 <= i /\ i <= Len(r)
              /\ D \in Nat /\ Len(r) \in Nat /\ Len(times) \in Nat /\ Len(r) + D = Len(times)
          BY <1>2, <2>1, <3>2
        <4>2. i + D \in 1 .. Len(times)
          BY <4>1
        <4>3. s[i] = r[i] /\ r[i] = times[i + D] /\ more[i + D] = times[i + D]
          BY <1>2, <2>1, <2>2, <4>1, <4>2
        <4>4. QED
          BY <4>3
      <3>3. QED
        BY <3>1, <3>2
    <2>5. \A i \in 1 .. D : more[i] + Window < now
      <3>1. \A i \in 1 .. D : i \in 1 .. Len(times)
        BY <1>2, <2>1
      <3>2. QED
        BY <1>2, <2>3, <3>1
    <2>6. QED
      BY <2>1, <2>4, <2>5 DEF TailOf
  <1>5. ASSUME u # 0
        PROVE  \E l \in Lockouts, n \in Thresholds :
                   Cardinality(NotOlder(more, Window + l, u)) >= n
    <2>1. PICK l \in Lockouts, n \in Thresholds :
              Cardinality(NotOlder(times, Window + l, u)) >= n
      BY <1>5 DEF KeyInv
    <2>2. Window + l \in Nat /\ u \in Nat /\ n \in Nat
      BY WindowAssumption, LimitsAssumption DEF Lockouts, Thresholds, KeyInv
    <2>3. Cardinality(NotOlder(times, Window + l, u)) <= Cardinality(NotOlder(more, Window + l, u))
      BY <1>2, <2>2, NotOlderGrows DEF more
    <2>4. /\ Cardinality(NotOlder(times, Window + l, u)) \in Nat
          /\ Cardinality(NotOlder(more, Window + l, u)) \in Nat
      BY <1>2, <2>2, NotOlderFinite
    <2>5. QED
      BY <2>1, <2>2, <2>3, <2>4
  <1>6. KeyInv(s, u, more, now)
    BY <1>2, <1>3, <1>4, <1>5 DEF KeyInv
  <1>7. QED
    BY <1>6 DEF s, more, r

\* A key that reached its limit may be locked,
LEMMA KeyLocks ==
    ASSUME NEW k \in Keys, now \in Nat, limit \in Limits, Full(k),
           NEW q, NEW u, NEW times, q = hits[k], KeyInv(q, u, times, now)
    PROVE  KeyInv(q, now + limit.lockout, times, now)
  <1>1. limit.lockout \in Lockouts /\ limit.lockout \in Nat \ {0} /\ Window \in Nat
    BY LimitsAssumption, WindowAssumption DEF Lockouts
  <1>2. MaxFor(k) \in Thresholds /\ MaxFor(k) \in Nat
    <2>1. limit.ip \in Nat /\ limit.acct \in Nat /\ MaxFor(k) # 0
      BY LimitsAssumption DEF Full, MaxFor
    <2>2. QED
      BY <2>1 DEF MaxFor, Thresholds
  <1>3. Cardinality(NotOlder(times, Window, now)) = Len(Recent(q))
    BY PruningExact DEF KeyInv
  <1>4. Cardinality(NotOlder(times, Window, now)) >= MaxFor(k)
    BY <1>3 DEF Full
  <1> DEFINE u2 == now + limit.lockout
             l == limit.lockout
             n == MaxFor(k)
  <1>5. /\ u2 \in Nat /\ Window + l \in Nat /\ Window + u2 <= (Window + l) + now
    BY <1>1
  <1>6. times \in Seq(Nat)
    BY DEF KeyInv
  <1> HIDE DEF u2, l, n
  <1>7. Cardinality(NotOlder(times, Window, now)) <= Cardinality(NotOlder(times, Window + l, u2))
    BY <1>1, <1>5, <1>6, NotOlderMore
  <1>8. /\ Cardinality(NotOlder(times, Window, now)) \in Nat
        /\ Cardinality(NotOlder(times, Window + l, u2)) \in Nat
    BY <1>1, <1>5, <1>6, NotOlderFinite
  <1>9. Cardinality(NotOlder(times, Window + l, u2)) >= n
    BY <1>2, <1>4, <1>7, <1>8 DEF n
  <1>10. l \in Lockouts /\ n \in Thresholds
    BY <1>1, <1>2 DEF l, n
  <1>11. KeyInv(q, u2, times, now)
    BY <1>5, <1>9, <1>10 DEF KeyInv
  <1>12. QED
    BY <1>11 DEF u2

\* and one that signed in starts anew.
LEMMA KeyClears == ASSUME NEW t \in Nat PROVE KeyInv(<<>>, 0, <<>>, t)
  <1> DEFINE e == <<>>
  <1>1. e \in Seq(Nat) /\ Len(e) = 0 /\ DOMAIN e = {} /\ Len(e) - Len(e) = 0
    OBVIOUS
  <1> HIDE DEF e
  <1>2. InOrder(e, t) /\ TailOf(e, e, t)
    BY <1>1 DEF InOrder, TailOf
  <1>3. KeyInv(e, 0, e, t)
    BY <1>1, <1>2 DEF KeyInv
  <1>4. QED
    BY <1>3 DEF e

LEMMA GuardStarts == GuardInit => GuardInv
  <1> SUFFICES ASSUME GuardInit PROVE GuardInv
    OBVIOUS
  <1>1. KeyInv(<<>>, 0, <<>>, 0)
    BY KeyClears
  <1>2. QED
    BY <1>1 DEF GuardInit, GuardInv

\* The throttle keeps its deques in step with the failures.
LEMMA GuardKept == ASSUME GuardInv, [GuardNext]_guardVars PROVE GuardInv'
  <1>0. now \in Nat /\ limit \in Limits /\ Keys = Addresses \cup Accounts
    BY DEF GuardInv, Keys
  <1>1. ASSUME NEW ip \in Addresses, NEW acct \in Accounts, Refuses(ip, acct), LockOut(ip, acct),
               UNCHANGED <<now, limit>>
        PROVE  GuardInv'
    <2>1. CASE Locked(ip) \/ Locked(acct)
      BY <1>1, <2>1 DEF LockOut, GuardInv
    <2>2. CASE ~(Locked(ip) \/ Locked(acct))
      <3>1. PICK k \in Keys : /\ Full(k)
                              /\ lockedUntil' = [lockedUntil EXCEPT ![k] = now + limit.lockout]
        BY <1>0, <1>1, <2>2 DEF Refuses, LockOut
      <3>2. KeyInv(hits[k], now + limit.lockout, failed[k], now)
        BY <1>0, <3>1, KeyLocks DEF GuardInv
      <3>3. /\ lockedUntil' = [x \in Keys |-> lockedUntil'[x]] /\ DOMAIN lockedUntil' = Keys
            /\ lockedUntil'[k] = now + limit.lockout
            /\ \A x \in Keys : x # k => lockedUntil'[x] = lockedUntil[x]
        BY <3>1 DEF GuardInv
      <3>4. UNCHANGED <<hits, failed, now, limit>>
        BY <1>1 DEF LockOut
      <3>5. ASSUME NEW x \in Keys PROVE KeyInv(hits[x], lockedUntil'[x], failed[x], now)
        BY <3>2, <3>3 DEF GuardInv
      <3>6. QED
        BY <3>3, <3>4, <3>5 DEF GuardInv
    <2>3. QED
      BY <2>1, <2>2
  <1>2. ASSUME NEW ks \in SUBSET Keys, RecordFailure(ks), UNCHANGED <<now, limit>>
        PROVE  GuardInv'
    <2>1. ASSUME NEW x \in Keys PROVE KeyInv(hits'[x], lockedUntil'[x], failed'[x], now')
      <3>1. KeyInv(hits[x], lockedUntil[x], failed[x], now)
        BY DEF GuardInv
      <3>2. KeyInv(Append(Recent(hits[x]), now), lockedUntil[x], Append(failed[x], now), now)
        BY <1>0, <3>1, KeyFails
      <3>3. CASE Enabled /\ x \in ks
        BY <1>2, <3>2, <3>3 DEF RecordFailure
      <3>4. CASE ~(Enabled /\ x \in ks)
        BY <1>2, <3>1, <3>4 DEF RecordFailure
      <3>5. QED
        BY <3>3, <3>4
    <2>2. QED
      BY <1>0, <1>2, <2>1 DEF RecordFailure, GuardInv
  <1>3. ASSUME NEW acct \in Accounts, RecordSuccess(acct), UNCHANGED <<now, limit>>
        PROVE  GuardInv'
    <2>1. ASSUME NEW x \in Keys PROVE KeyInv(hits'[x], lockedUntil'[x], failed'[x], now')
      <3>1. KeyInv(hits[x], lockedUntil[x], failed[x], now) /\ KeyInv(<<>>, 0, <<>>, now)
        BY <1>0, KeyClears DEF GuardInv
      <3>2. CASE x = acct
        BY <1>3, <3>1, <3>2 DEF RecordSuccess, GuardInv
      <3>3. CASE x # acct
        BY <1>3, <3>1, <3>3 DEF RecordSuccess, GuardInv
      <3>4. QED
        BY <3>2, <3>3
    <2>2. QED
      BY <1>0, <1>3, <2>1 DEF RecordSuccess, GuardInv
  <1>4. ASSUME UNCHANGED <<limit, hits, lockedUntil, failed>>, now' \in Nat, now <= now'
        PROVE  GuardInv'
    <2>1. ASSUME NEW x \in Keys PROVE KeyInv(hits[x], lockedUntil[x], failed[x], now')
      BY <1>0, <1>4, KeyLater DEF GuardInv
    <2>2. QED
      BY <1>4, <2>1 DEF GuardInv
  <1>5. ASSUME NEW ip \in Addresses, NEW acct \in Accounts, NEW pw, AttemptLogIn(ip, acct, pw)
        PROVE  GuardInv'
    <2>1. {ip, acct} \in SUBSET Keys
      BY <1>0
    <2>2. UNCHANGED <<hits, lockedUntil, failed, now, limit>> => GuardInv'
      BY <1>0, <1>4
    <2>3. QED
      BY <1>1, <1>2, <1>3, <1>5, <2>1, <2>2 DEF AttemptLogIn
  <1>6. ASSUME NEW ip \in Addresses, NEW acct \in Accounts, NEW accepted \in BOOLEAN,
               SignUp(ip, acct, accepted)
        PROVE  GuardInv'
    <2>1. {ip, acct} \in SUBSET Keys /\ {ip} \in SUBSET Keys
      BY <1>0
    <2>2. CASE Refuses(ip, acct)
      BY <1>1, <1>6, <2>2 DEF SignUp
    <2>3. CASE ~Refuses(ip, acct)
      <3>1. UNCHANGED <<now, limit>> /\ (RecordFailure({ip}) \/ RecordFailure({ip, acct}))
        BY <1>6, <2>3 DEF SignUp
      <3>2. QED
        BY <1>2, <2>1, <3>1
    <2>4. QED
      BY <2>2, <2>3
  <1>7. ASSUME NEW l \in Limits, ChangeLimits(l) PROVE GuardInv'
    BY <1>7 DEF ChangeLimits, GuardInv
  <1>8. CASE GuardTick
    BY <1>0, <1>4, <1>8 DEF GuardTick, Tick
  <1>9. CASE UNCHANGED guardVars
    BY <1>0, <1>4, <1>9 DEF guardVars
  <1>10. QED
    BY <1>5, <1>6, <1>7, <1>8, <1>9 DEF GuardNext

\* What check answers is what the failures say.
LEMMA GuardInvGives == GuardInv => ThrottleIsExact
  <1> SUFFICES ASSUME GuardInv, NEW ip \in Addresses, NEW acct \in Accounts
               PROVE  IF Refuses(ip, acct)
                        THEN \E k \in {ip, acct}, l \in Lockouts, n \in Thresholds :
                               FailuresWithin(k, Window + l) >= n
                        ELSE Enabled => \A k \in {ip, acct} :
                               MaxFor(k) > 0 => FailuresWithin(k, Window) < MaxFor(k)
    BY DEF ThrottleIsExact
  <1>0. now \in Nat /\ limit \in Limits /\ ip \in Keys /\ acct \in Keys /\ Window \in Nat
    BY WindowAssumption DEF GuardInv, Keys
  <1>1. ASSUME NEW k \in Keys
        PROVE  FailuresWithin(k, Window) = Len(Recent(hits[k])) /\ FailuresWithin(k, Window) \in Nat
    BY <1>0, PruningExact, NotOlderFinite DEF GuardInv, KeyInv, FailuresWithin
  <1>2. ASSUME NEW k \in Keys, lockedUntil[k] # 0, lockedUntil[k] >= now
        PROVE  \E l \in Lockouts, n \in Thresholds : FailuresWithin(k, Window + l) >= n
    <2>1. failed[k] \in Seq(Nat) /\ lockedUntil[k] \in Nat
      BY DEF GuardInv, KeyInv
    <2>2. PICK l \in Lockouts, n \in Thresholds :
              Cardinality(NotOlder(failed[k], Window + l, lockedUntil[k])) >= n
      BY <1>2 DEF GuardInv, KeyInv
    <2>3. Window + l \in Nat /\ n \in Nat
      BY <1>0, LimitsAssumption DEF Lockouts, Thresholds
    <2>4. (Window + l) + now <= (Window + l) + lockedUntil[k]
      BY <1>0, <1>2, <2>1, <2>3
    <2>5. Cardinality(NotOlder(failed[k], Window + l, lockedUntil[k])) <= FailuresWithin(k, Window + l)
      BY <1>0, <2>1, <2>3, <2>4, NotOlderMore DEF FailuresWithin
    <2>6. /\ Cardinality(NotOlder(failed[k], Window + l, lockedUntil[k])) \in Nat
          /\ FailuresWithin(k, Window + l) \in Nat
      BY <1>0, <2>1, <2>3, NotOlderFinite DEF FailuresWithin
    <2>7. QED
      BY <2>2, <2>3, <2>5, <2>6
  <1>3. ASSUME NEW k \in Keys, Locked(k) \/ Full(k)
        PROVE  \E l \in Lockouts, n \in Thresholds : FailuresWithin(k, Window + l) >= n
    <2>1. lockedUntil[k] \in Nat /\ KeyInv(hits[k], lockedUntil[k], failed[k], now)
      BY DEF GuardInv, KeyInv
    <2>2. CASE Locked(k)
      BY <1>0, <1>2, <2>1, <2>2 DEF Locked
    <2>3. CASE Full(k)
      <3>2. limit.lockout \in Nat \ {0} /\ limit.lockout \in Lockouts
        BY <1>0, LimitsAssumption DEF Lockouts
      <3>3. MaxFor(k) \in Thresholds /\ MaxFor(k) \in Nat
        <4>1. limit.ip \in Nat /\ limit.acct \in Nat /\ MaxFor(k) # 0
          BY <1>0, <2>3, LimitsAssumption DEF Full, MaxFor
        <4>2. QED
          BY <1>0, <4>1 DEF MaxFor, Thresholds
      <3>4. failed[k] \in Seq(Nat) /\ Window + limit.lockout \in Nat
            /\ Window + now <= (Window + limit.lockout) + now
        BY <1>0, <2>1, <3>2 DEF KeyInv
      <3>5. FailuresWithin(k, Window) <= FailuresWithin(k, Window + limit.lockout)
        BY <1>0, <3>4, NotOlderMore DEF FailuresWithin
      <3>6. FailuresWithin(k, Window + limit.lockout) \in Nat
        BY <1>0, <3>4, NotOlderFinite DEF FailuresWithin
      <3>7. FailuresWithin(k, Window) >= MaxFor(k)
        BY <1>1, <2>3 DEF Full
      <3>8. FailuresWithin(k, Window + limit.lockout) >= MaxFor(k)
        BY <1>1, <3>3, <3>5, <3>6, <3>7
      <3>9. QED
        BY <3>2, <3>3, <3>8
    <2>4. QED
      BY <1>3, <2>2, <2>3
  <1>4. CASE Refuses(ip, acct)
    BY <1>0, <1>3, <1>4 DEF Refuses
  <1>5. CASE ~Refuses(ip, acct)
    <2> SUFFICES ASSUME Enabled, NEW k \in {ip, acct}, MaxFor(k) > 0
                 PROVE  FailuresWithin(k, Window) < MaxFor(k)
      BY <1>5
    <2>1. ~Full(k) /\ k \in Keys
      BY <1>0, <1>5 DEF Refuses
    <2>2. MaxFor(k) \in Nat
      BY <1>0, LimitsAssumption DEF MaxFor
    <2>3. QED
      BY <1>1, <2>1, <2>2 DEF Full
  <1>6. QED
    BY <1>4, <1>5

\* Whatever failures, sign-ins, sign-ups and reloads came before, an attempt is
\* let through only below the limits, and refused only after failures enough.
THEOREM ThrottleExact == GuardSpec => []ThrottleIsExact
  <1>1. GuardInv /\ [GuardNext]_guardVars => GuardInv'
    BY GuardKept
  <1>2. QED
    BY <1>1, GuardStarts, GuardInvGives, PTL DEF GuardSpec

----------------------------------------------------------------------------
(* Routing *)

Tasks == [of : Providers, born : Nat, doing : {"due", "probing", "asleep"}]

RoutingTypeOK ==
    /\ file \in Configs /\ live \in Configs
    /\ restarts \in Nat
    /\ tasks \subseteq Tasks
    /\ shown \in [Providers -> {"on", "off", "unknown"}]

\* The loops of a configuration c after n restarts.
LoopsOf(c, n, T) ==
    /\ \A t \in T : t.of \in c.on /\ c.probing /\ t.born = n
    /\ \A p \in c.on : c.probing => \E t \in T : t.of = p
    /\ \A t1, t2 \in T : t1.of = t2.of => t1 = t2

ShownIs(c, s) == \A p \in c.listed : s[p] = IF p \in c.on THEN "on" ELSE "off"

RoutingInv ==
    /\ RoutingTypeOK
    /\ LoopsOf(live, restarts, tasks)
    /\ ShownIs(live, shown)
    /\ SwitchSurvivesReload

----------------------------------------------------------------------------
(* Configurations *)

LEMMA ConfigFields ==
    ASSUME NEW c \in Configs
    PROVE  /\ c.listed \subseteq Providers /\ c.on \subseteq c.listed
           /\ c.aliases \in AliasMaps /\ c.probing \in BOOLEAN
    BY DEF Configs

LEMMA SwitchedIsConfig ==
    ASSUME NEW c \in Configs, NEW p \in c.listed, NEW enabled \in BOOLEAN,
           NEW d, d = Switched(c, p, enabled)
    PROVE  /\ d \in Configs /\ d.listed = c.listed
           /\ enabled => d.on = c.on \cup {p}
           /\ ~enabled => d.on = c.on \ {p}
    BY DEF Configs, Switched

LEMMA RemainsAreConfigs ==
    ASSUME NEW c \in Configs
    PROVE  Remains(c) \subseteq Configs
<1>1. SUFFICES ASSUME NEW L \in SUBSET c.listed
               PROVE  [c EXCEPT !.listed = L, !.on = @ \cap L] \in Configs
  BY DEF Remains
<1>2. L \subseteq Providers
  BY ConfigFields
<1> QED
  BY <1>2 DEF Configs

----------------------------------------------------------------------------
(* Probe loops *)

LEMMA SpawnedLoops ==
    ASSUME NEW c \in Configs, NEW n \in Nat
    PROVE  Spawned(c, n) \subseteq Tasks /\ LoopsOf(c, n, Spawned(c, n))
<1> DEFINE S == IF c.probing THEN c.on ELSE {}
           L(p) == [of |-> p, born |-> n, doing |-> "due"]
<1>1. S \subseteq Providers /\ (c.probing => S = c.on) /\ S \subseteq c.on /\ (S # {} => c.probing)
  BY ConfigFields
<1>2. \A p : L(p).of = p /\ L(p).born = n /\ L(p).doing = "due"
  OBVIOUS
<1>3. \A p \in Providers : L(p) \in Tasks
  BY DEF Tasks
<1>4. Spawned(c, n) = {L(p) : p \in S}
  BY DEF Spawned
<1> HIDE DEF S, L
<1> QED
  BY <1>1, <1>2, <1>3, <1>4 DEF LoopsOf

\* A loop that goes on to another phase is still the same loop.
LEMMA LoopMoves ==
    ASSUME NEW T, T \subseteq Tasks, NEW c, NEW n, LoopsOf(c, n, T),
           NEW t \in T, NEW phase \in {"due", "probing", "asleep"},
           NEW U, U = (T \ {t}) \cup {[t EXCEPT !.doing = phase]}
    PROVE  U \subseteq Tasks /\ LoopsOf(c, n, U)
<1> DEFINE u == [t EXCEPT !.doing = phase]
<1>1. u \in Tasks /\ u.of = t.of /\ u.born = t.born
  BY DEF Tasks
<1> HIDE DEF u
<1>2. U = (T \ {t}) \cup {u}
  BY DEF u
<1> QED
  BY <1>1, <1>2 DEF LoopsOf

----------------------------------------------------------------------------
(* Steps *)

LEMMA InitHolds == RoutingInit => RoutingInv
<1> SUFFICES ASSUME RoutingInit PROVE RoutingInv
  OBVIOUS
<1>1. file \in Configs /\ live = file /\ restarts = 0 /\ tasks = Spawned(file, 0)
  BY DEF RoutingInit
<1>2. tasks \subseteq Tasks /\ LoopsOf(live, restarts, tasks)
  BY <1>1, SpawnedLoops
<1>3. shown \in [Providers -> {"on", "off", "unknown"}] /\ ShownIs(live, shown)
  BY <1>1, ConfigFields DEF RoutingInit, ShownIs
<1>4. SwitchSurvivesReload
  BY <1>1 DEF SwitchSurvivesReload
<1> QED
  BY <1>1, <1>2, <1>3, <1>4 DEF RoutingInv, RoutingTypeOK

LEMMA EditHolds ==
    ASSUME RoutingInv, NEW c \in Configs, NEW yaml \in BOOLEAN, EditFile(c, yaml)
    PROVE  RoutingInv'
<1>1. /\ file' = c /\ apart' = Providers
      /\ UNCHANGED <<live, shown, tasks, restarts>>
  BY DEF EditFile, probeVars
<1>2. SwitchSurvivesReload'
  BY <1>1, ConfigFields DEF SwitchSurvivesReload, RoutingInv, RoutingTypeOK
<1> QED
  BY <1>1, <1>2 DEF RoutingInv, RoutingTypeOK, LoopsOf, ShownIs

LEMMA ReloadHolds ==
    ASSUME RoutingInv, ReloadConfig
    PROVE  RoutingInv'
<1>1. /\ live' = file /\ file' = file /\ shown' = Registered(file)
      /\ restarts' = restarts + 1 /\ tasks' = Spawned(file, restarts + 1)
  BY DEF ReloadConfig, RestartProbes, fileVars
<1>2. file \in Configs /\ restarts \in Nat /\ shown \in [Providers -> {"on", "off", "unknown"}]
  BY DEF RoutingInv, RoutingTypeOK
<1>3. tasks' \subseteq Tasks /\ LoopsOf(live, restarts, tasks)'
  BY <1>1, <1>2, SpawnedLoops DEF LoopsOf
<1>4. shown' \in [Providers -> {"on", "off", "unknown"}] /\ ShownIs(live, shown)'
  BY <1>1, <1>2, ConfigFields DEF Registered, ShownIs
<1>5. SwitchSurvivesReload'
  BY <1>1 DEF SwitchSurvivesReload
<1> QED
  BY <1>1, <1>2, <1>3, <1>4, <1>5 DEF RoutingInv, RoutingTypeOK

LEMMA SwitchHolds ==
    ASSUME RoutingInv, NEW p \in Providers, NEW enabled \in BOOLEAN, NEW writing,
           SwitchProvider(p, enabled, writing)
    PROVE  RoutingInv'
<1> DEFINE new == Switched(live, p, enabled)
<1>1. /\ p \in live.listed /\ live' = new
      /\ shown' = [shown EXCEPT ![p] = IF enabled THEN "on" ELSE "off"]
      /\ restarts' = restarts + 1 /\ tasks' = Spawned(new, restarts + 1)
  BY DEF SwitchProvider, RestartProbes
<1>2. /\ live \in Configs /\ file \in Configs /\ restarts \in Nat
      /\ shown \in [Providers -> {"on", "off", "unknown"}]
      /\ ShownIs(live, shown) /\ SwitchSurvivesReload
  BY DEF RoutingInv, RoutingTypeOK
<1>3. /\ new \in Configs /\ new.listed = live.listed
      /\ enabled => new.on = live.on \cup {p}
      /\ ~enabled => new.on = live.on \ {p}
  BY <1>1, <1>2, SwitchedIsConfig
<1>4. \/ /\ readable /\ p \in file.listed /\ file' = Switched(file, p, enabled)
         /\ apart' = apart \ {p} /\ readable' = readable
      \/ file' \in Remains(file) /\ apart' = Providers
      \/ apart' = apart \cup {p} /\ file' = file /\ readable' = readable
  BY DEF SwitchProvider
<1> HIDE DEF new
<1>5. tasks' \subseteq Tasks /\ LoopsOf(live, restarts, tasks)'
  BY <1>1, <1>2, <1>3, SpawnedLoops DEF LoopsOf
<1>6. shown' \in [Providers -> {"on", "off", "unknown"}] /\ ShownIs(live, shown)'
  BY <1>1, <1>2, <1>3, ConfigFields DEF ShownIs
<1>7. file' \in Configs /\ SwitchSurvivesReload'
  <2>1. CASE /\ readable /\ p \in file.listed /\ file' = Switched(file, p, enabled)
             /\ apart' = apart \ {p} /\ readable' = readable
    <3>1. /\ file' \in Configs /\ file'.listed = file.listed
          /\ enabled => file'.on = file.on \cup {p}
          /\ ~enabled => file'.on = file.on \ {p}
      BY <1>2, <2>1, SwitchedIsConfig
    <3> QED
      BY <1>1, <1>2, <1>3, <2>1, <3>1 DEF SwitchSurvivesReload
  <2>2. CASE file' \in Remains(file) /\ apart' = Providers
    BY <1>1, <1>2, <1>3, <2>2, RemainsAreConfigs, ConfigFields DEF SwitchSurvivesReload
  <2>3. CASE apart' = apart \cup {p} /\ file' = file /\ readable' = readable
    BY <1>1, <1>2, <1>3, <2>3 DEF SwitchSurvivesReload
  <2> QED
    BY <1>4, <2>1, <2>2, <2>3
<1> QED
  BY <1>1, <1>2, <1>3, <1>5, <1>6, <1>7 DEF RoutingInv, RoutingTypeOK

LEMMA LoopStepHolds ==
    ASSUME RoutingInv, NEW t \in tasks, ProbeStarts(t) \/ ProbeEnds(t) \/ Wakes(t)
    PROVE  RoutingInv'
<1>1. PICK phase \in {"due", "probing", "asleep"} :
        tasks' = (tasks \ {t}) \cup {[t EXCEPT !.doing = phase]}
  BY DEF ProbeStarts, ProbeEnds, Wakes
<1>2. UNCHANGED <<file, readable, live, shown, apart, restarts>>
  BY DEF ProbeStarts, ProbeEnds, Wakes, fileVars, runningVars
<1>3. tasks \subseteq Tasks /\ LoopsOf(live, restarts, tasks)
  BY DEF RoutingInv, RoutingTypeOK
<1>4. tasks' \subseteq Tasks /\ LoopsOf(live, restarts, tasks')
  BY <1>1, <1>3, LoopMoves
<1> QED
  BY <1>2, <1>4 DEF RoutingInv, RoutingTypeOK, LoopsOf, ShownIs, SwitchSurvivesReload

\* A probe on request touches none of it.
LEMMA OtherStepHolds ==
    ASSUME RoutingInv, UNCHANGED <<fileVars, runningVars, tasks, restarts>>
    PROVE  RoutingInv'
    BY DEF RoutingInv, RoutingTypeOK, LoopsOf, ShownIs, SwitchSurvivesReload,
           fileVars, runningVars

LEMMA NextHolds == RoutingInv /\ [RoutingNext]_routingVars => RoutingInv'
<1> SUFFICES ASSUME RoutingInv, [RoutingNext]_routingVars PROVE RoutingInv'
  OBVIOUS
<1>1. CASE \E c \in Configs, yaml \in BOOLEAN : EditFile(c, yaml)
  BY <1>1, EditHolds
<1>2. CASE ReloadConfig
  BY <1>2, ReloadHolds
<1>3. CASE \E p \in Providers, enabled \in BOOLEAN, writing \in {"done", "refused", "torn"} :
             SwitchProvider(p, enabled, writing)
  BY <1>3, SwitchHolds
<1>4. CASE \E t \in tasks : ProbeStarts(t) \/ ProbeEnds(t) \/ Wakes(t)
  BY <1>4, LoopStepHolds
<1>5. CASE (\E p \in Providers : TestStarts(p)) \/ TestEnds \/ UNCHANGED routingVars
  BY <1>5, OtherStepHolds DEF TestStarts, TestEnds, routingVars, probeVars
<1> QED
  BY <1>1, <1>2, <1>3, <1>4, <1>5 DEF RoutingNext

LEMMA InvGives == RoutingInv => SwitchesInForce
  BY DEF RoutingInv, LoopsOf, ShownIs, SwitchesInForce, ProbesFollowConfig

\* The routes in use are always those of the running configuration: no switch
\* and no reload leaves a stale table behind (the Registry that patch_provider
\* and apply_config build).
THEOREM RoutesFresh == RoutingSpec => [](by_model = Registry(live))
<1>1. RoutingInit => by_model = Registry(live)
  BY DEF RoutingInit
<1>2. by_model = Registry(live) /\ [RoutingNext]_routingVars => (by_model = Registry(live))'
  <2> SUFFICES ASSUME by_model = Registry(live), [RoutingNext]_routingVars
               PROVE  (by_model = Registry(live))'
    OBVIOUS
  <2>1. CASE UNCHANGED <<live, by_model>>
    BY <2>1
  <2>2. CASE ReloadConfig
    BY <2>2 DEF ReloadConfig
  <2>3. CASE \E p \in Providers, enabled \in BOOLEAN, writing \in {"done", "refused", "torn"} :
               SwitchProvider(p, enabled, writing)
    BY <2>3 DEF SwitchProvider
  <2> QED
    BY <2>1, <2>2, <2>3 DEF RoutingNext, EditFile, ProbeStarts, ProbeEnds, Wakes,
       TestStarts, TestEnds, routingVars, runningVars
<1> QED
  BY <1>1, <1>2, PTL DEF RoutingSpec

\* In every reachable state, whatever switches, reloads, edits and failed
\* writes came before: one probe loop per enabled provider and none besides,
\* the dashboard shows the switches, and a reload would bring none back
\* (restart_health_tasks, register_provider, set_provider_enabled).
THEOREM SwitchesStay == RoutingSpec => []SwitchesInForce
<1>1. RoutingInv /\ [RoutingNext]_routingVars => RoutingInv'
  BY NextHolds
<1> QED
  BY InitHolds, <1>1, InvGives, PTL DEF RoutingSpec

----------------------------------------------------------------------------
(* Routes *)

\* Among the first providers, those that are on and list the model.
Able(c, s, m) == {n \in s : Order[n] \in c.on /\ m \in Serves[Order[n]]}

FirstOf(c, s, m) == IF Able(c, s, m) = {} THEN NoProvider ELSE Order[Min(Able(c, s, m))]

\* The loop of Registry, as a recursion over the providers looked at so far.
Entered(c, table, n) ==
    [m \in Models |-> IF table[m] = NoProvider /\ Order[n] \in c.on /\ m \in Serves[Order[n]]
                        THEN Order[n] ELSE table[m]]

Looped(c, g) ==
    g = [s \in SUBSET DOMAIN Order |->
            IF s = {} THEN [m \in Models |-> NoProvider]
            ELSE Entered(c, g[s \ {Max(s)}], Max(s))]

LEMMA Positions ==
    /\ Len(Order) \in Nat /\ DOMAIN Order = 1 .. Len(Order) /\ IsFiniteSet(DOMAIN Order)
    /\ \A n \in DOMAIN Order : n \in Nat /\ Order[n] \in Providers
  <1>1. /\ Len(Order) \in Nat /\ DOMAIN Order = 1 .. Len(Order)
        /\ \A n \in DOMAIN Order : n \in Nat
    BY OrderAssumption
  <1>2. \A n \in DOMAIN Order : Order[n] \in Providers
    BY DEF Providers, Range
  <1>3. IsFiniteSet(1 .. Len(Order))
    BY <1>1, FS_Interval
  <1>4. QED
    BY <1>1, <1>2, <1>3

\* One more provider matters only to the models that had none before.
LEMMA FirstStep ==
    ASSUME NEW c, NEW s \in SUBSET DOMAIN Order, s # {}, NEW m \in Models
    PROVE  LET n == Max(s)
               before == FirstOf(c, s \ {n}, m)
           IN  /\ n \in s
               /\ FirstOf(c, s, m) = IF before = NoProvider /\ Order[n] \in c.on /\ m \in Serves[Order[n]]
                                       THEN Order[n] ELSE before
  <1> DEFINE n == Max(s)
             t == s \ {n}
             A == Able(c, s, m)
             B == Able(c, t, m)
  <1>1. n \in s /\ n \in Nat /\ \A x \in t : x \in Nat /\ x < n
    <2>1. s \in SUBSET (1 .. Len(Order)) /\ Len(Order) \in Nat /\ \A x \in s : x \in Nat
      BY Positions
    <2>2. n \in s /\ \A x \in s : x <= n
      BY <2>1, MaxIsGreatest
    <2> HIDE DEF n
    <2>3. QED
      BY <2>1, <2>2
  <1> HIDE DEF n
  <1>2. B \in SUBSET t /\ t \in SUBSET s /\ A \in SUBSET Nat /\ B \in SUBSET Nat
    BY Positions DEF Able
  <1>3. A = IF Order[n] \in c.on /\ m \in Serves[Order[n]] THEN B \cup {n} ELSE B
    BY <1>1 DEF Able
  <1>4. \A x \in B : x < n /\ x \in Nat
    BY <1>1, <1>2
  <1> HIDE DEF A, B
  <1>5. CASE B = {}
    <2>1. FirstOf(c, t, m) = NoProvider
      BY <1>5 DEF FirstOf, B
    <2>2. CASE A = {}
      <3>1. ~(Order[n] \in c.on /\ m \in Serves[Order[n]])
        BY <1>3, <2>2
      <3>2. FirstOf(c, s, m) = NoProvider
        BY <2>2 DEF FirstOf, A
      <3>3. QED
        BY <1>1, <2>1, <3>1, <3>2 DEF n
    <2>3. CASE A # {}
      <3>1. A = {n} /\ Order[n] \in c.on /\ m \in Serves[Order[n]]
        BY <1>3, <1>5, <2>3
      <3>2. Min(A) = n
        BY <1>2, <2>3, <3>1, MinIsLeast
      <3>3. FirstOf(c, s, m) = Order[n]
        BY <2>3, <3>2 DEF FirstOf, A
      <3>4. QED
        BY <1>1, <2>1, <3>1, <3>3 DEF n
    <2>4. QED
      BY <2>2, <2>3
  <1>6. CASE B # {}
    <2>1. Min(B) \in B /\ \A x \in B : Min(B) <= x
      BY <1>2, <1>6, MinIsLeast
    <2>2. A # {} /\ Min(A) \in A /\ \A x \in A : Min(A) <= x
      BY <1>2, <1>3, <1>6, MinIsLeast
    <2>3. Min(B) \in Nat /\ Min(B) \in A /\ Min(A) \in Nat /\ Min(A) <= Min(B) /\ Min(B) < n
      BY <1>2, <1>3, <1>4, <2>1, <2>2
    <2>4. Min(A) # n
      BY <1>1, <2>3
    <2>5. Min(A) \in B
      BY <1>3, <2>2, <2>4
    <2>6. Min(A) = Min(B)
      BY <2>1, <2>3, <2>5
    <2>7. FirstOf(c, s, m) = Order[Min(B)] /\ FirstOf(c, t, m) = Order[Min(B)]
      BY <1>6, <2>2, <2>6 DEF FirstOf, A, B
    <2>8. Order[Min(B)] # NoProvider
      <3>1. Min(B) \in DOMAIN Order
        BY <1>2, <2>1
      <3>2. QED
        BY <3>1, Positions, ProvidersAssumption
    <2>9. QED
      BY <1>1, <2>7, <2>8 DEF n
  <1>7. QED
    BY <1>5, <1>6

\* The loop ends with the first provider of every model.
LEMMA RegistryFirst ==
    ASSUME NEW c
    PROVE  Registry(c) = [m \in Models |-> FirstOf(c, DOMAIN Order, m)]
  <1> DEFINE w == [s \in SUBSET DOMAIN Order |-> [m \in Models |-> FirstOf(c, s, m)]]
             iter == CHOOSE g : g = [s \in SUBSET DOMAIN Order |->
                        IF s = {} THEN [m \in Models |-> NoProvider]
                        ELSE LET n == Max(s)
                             IN  [m \in Models |->
                                   IF g[s \ {n}][m] = NoProvider /\ Order[n] \in c.on
                                        /\ m \in Serves[Order[n]]
                                     THEN Order[n] ELSE g[s \ {n}][m]]]
  <1>1. Registry(c) = iter[DOMAIN Order]
    BY DEF Registry, FoldLeft, MapThenFoldSet
  <1>2. Looped(c, w)
    <2>1. ASSUME NEW s \in SUBSET DOMAIN Order, s # {}
          PROVE  w[s] = Entered(c, w[s \ {Max(s)}], Max(s))
      <3>1. /\ s \ {Max(s)} \in SUBSET DOMAIN Order
            /\ w[s] = [m \in Models |-> FirstOf(c, s, m)]
            /\ w[s \ {Max(s)}] = [m \in Models |-> FirstOf(c, s \ {Max(s)}, m)]
        OBVIOUS
      <3> HIDE DEF w
      <3>2. \A m \in Models : w[s][m] = Entered(c, w[s \ {Max(s)}], Max(s))[m]
        BY <2>1, <3>1, FirstStep DEF Entered
      <3>3. QED
        BY <3>1, <3>2 DEF Entered
    <2>2. w[{}] = [m \in Models |-> NoProvider]
      BY DEF FirstOf, Able
    <2>3. w = [s \in SUBSET DOMAIN Order |-> w[s]]
      OBVIOUS
    <2> HIDE DEF w
    <2>4. QED
      BY <2>1, <2>2, <2>3 DEF Looped
  <1>3. Looped(c, iter)
    BY <1>2 DEF Looped, Entered
  <1> HIDE DEF w, iter
  <1>4. iter[DOMAIN Order] = w[DOMAIN Order]
    <2> DEFINE Bad == {s \in SUBSET DOMAIN Order : iter[s] # w[s]}
    <2>1. SUFFICES ASSUME Bad # {} PROVE FALSE
      OBVIOUS
    <2>2. PICK s \in Bad : \A u \in SUBSET s : u # s => u \notin Bad
      <3>1. Bad \in SUBSET SUBSET DOMAIN Order
        OBVIOUS
      <3> HIDE DEF Bad
      <3>2. QED
        BY <2>1, <3>1, SmallestSubset, Positions
    <2>3. CASE s = {}
      BY <1>2, <1>3, <2>2, <2>3 DEF Looped
    <2>4. CASE s # {}
      <3>1. Max(s) \in s
        <4>1. s \in SUBSET (1 .. Len(Order)) /\ Len(Order) \in Nat
          BY <2>2, Positions
        <4>2. QED
          BY <2>4, <4>1, MaxIsGreatest
      <3>2. iter[s \ {Max(s)}] = w[s \ {Max(s)}]
        BY <2>2, <3>1
      <3>3. QED
        BY <1>2, <1>3, <2>2, <2>4, <3>2, ZenonT(30) DEF Looped
    <2>5. QED
      BY <2>3, <2>4
  <1>5. QED
    BY <1>1, <1>4 DEF w

\* Of the running configuration that is what RoutesFollowConfig compares with.
LEMMA FirstIsServing ==
    ASSUME NEW m
    PROVE  FirstServing(m) = FirstOf(live, DOMAIN Order, m)
  <1> DEFINE able == Able(live, DOMAIN Order, m)
  <1>1. FirstServing(m) = IF able = {} THEN NoProvider
                          ELSE Order[CHOOSE n \in able : \A k \in able : n <= k]
    BY DEF FirstServing, Able
  <1>2. QED
    BY <1>1 DEF FirstOf, Min

\* A model is looked up in the table of the running configuration.
LEMMA LookupIsFirst ==
    ASSUME by_model = Registry(live), NEW m
    PROVE  ProviderOf(m) = FirstServing(m)
  <1>1. CASE m \in Models
    BY <1>1, RegistryFirst, FirstIsServing DEF ProviderOf
  <1>2. CASE m \notin Models
    <2>1. Able(live, DOMAIN Order, m) = {}
      BY <1>2, Positions DEF Able, Models
    <2>2. QED
      BY <1>2, <2>1, FirstIsServing DEF ProviderOf, FirstOf
  <1>3. QED
    BY <1>1, <1>2

\* Every request goes to the first enabled provider of the model it is sent with,
\* under its own name or the model its alias names, whatever was switched or
\* reloaded before.
THEOREM RoutesFollow == RoutingSpec => []RoutesFollowConfig
  <1>1. by_model = Registry(live) => RoutesFollowConfig
    <2> SUFFICES ASSUME by_model = Registry(live), NEW name \in Models \cup DOMAIN live.aliases
                 PROVE  /\ Resolve(name).provider = FirstServing(Resolve(name).model)
                        /\ name \notin DOMAIN live.aliases => Resolve(name).model = name
                        /\ name \in DOMAIN live.aliases =>
                             (FirstServing(live.aliases[name]) # NoProvider =>
                                Resolve(name).model = live.aliases[name])
      BY DEF RoutesFollowConfig
    <2>1. \A m : ProviderOf(m) = FirstServing(m)
      BY LookupIsFirst
    <2>2. Resolve(name).provider = FirstServing(Resolve(name).model)
      <3>1. Resolve(name).provider = ProviderOf(Resolve(name).model)
        BY DEF Resolve
      <3>2. QED
        BY <2>1, <3>1
    <2>3. CASE name \in DOMAIN live.aliases
      <3>1. ProviderOf(live.aliases[name]) # NoProvider => Resolve(name).model = live.aliases[name]
        BY <2>3 DEF Resolve
      <3>2. QED
        BY <2>1, <2>2, <2>3, <3>1
    <2>4. CASE name \notin DOMAIN live.aliases
      <3>1. Resolve(name).model = name
        BY <2>4 DEF Resolve
      <3>2. QED
        BY <2>2, <2>4, <3>1
    <2>5. QED
      BY <2>3, <2>4
  <1>2. QED
    BY <1>1, RoutesFresh, PTL

----------------------------------------------------------------------------
(* Usage windows *)

UsageRecord == [user : {"me", "other"}, at : Nat, status : {"ok", "error", "cancelled"},
                tokens : TokenCounts]

PointsRow == [delta : Int, at : Nat]

ErrorsOf == [r \in UsageRecord |-> IF r.status = "error" THEN 1 ELSE 0]
TokensOf == [r \in UsageRecord |-> r.tokens]

\* What all records of a sequence have together.
Weight(val, h) == SumFunctionOnSet([i \in DOMAIN h |-> val[h[i]]], DOMAIN h)

\* The totals hold at least what the history holds.
UsageInv ==
    /\ wall \in Nat /\ running \in Nat /\ carried \in Nat
    /\ lifetime \in [requests : Nat, errors : Nat, tokens : Nat]
    /\ history \in Seq(UsageRecord) /\ Len(history) <= HistorySize
    /\ points_log \in Seq(PointsRow)
    /\ Len(history) + running <= lifetime.requests + carried
    /\ Weight(ErrorsOf, history) <= lifetime.errors
    /\ Weight(TokensOf, history) <= lifetime.tokens

LEMMA WindowFields ==
    ASSUME NEW w \in Windows
    PROVE  /\ w.span \in Nat /\ w.bin \in Nat \ {0} /\ w.bins \in Nat \ {0}
           /\ w.span = w.bin * w.bins
  BY WindowsAssumption

LEMMA Quotient ==
    ASSUME NEW a \in Nat, NEW b \in Nat \ {0}
    PROVE  /\ a \div b \in Nat /\ a % b \in 0 .. b - 1
           /\ a = b * (a \div b) + (a % b)
  OBVIOUS

\* Both edges: a record is young enough for a window exactly if it falls into
\* one of its bins.
LEMMA EdgesAgree ==
    ASSUME wall \in Nat, NEW w \in Windows, NEW at \in Nat
    PROVE  Age(at) <= w.span <=> BucketIndex(at, w) \in 1 .. w.bins
  <1> DEFINE rel == at - (wall - w.span)
             q == rel \div w.bin
  <1>0. /\ w.span \in Nat /\ w.bin \in Nat \ {0} /\ w.bins \in Nat \ {0}
        /\ w.span = w.bin * w.bins /\ rel \in Int
    BY WindowFields
  <1>1. BucketIndex(at, w) = IF rel < 0 THEN 0 ELSE IF rel >= w.span THEN w.bins ELSE q + 1
    BY DEF BucketIndex
  <1>2. CASE rel < 0
    <2>1. at < wall /\ wall - at > w.span
      BY <1>0, <1>2
    <2>2. ~ (Age(at) <= w.span)
      BY <1>0, <2>1 DEF Age
    <2> HIDE DEF rel
    <2>3. BucketIndex(at, w) = 0
      BY <1>1, <1>2
    <2>4. QED
      BY <1>0, <2>2, <2>3
  <1>3. CASE rel >= w.span
    <2>1. at >= wall
      BY <1>0, <1>3
    <2>2. Age(at) <= w.span
      BY <1>0, <2>1 DEF Age
    <2> HIDE DEF rel
    <2>3. BucketIndex(at, w) = w.bins
      BY <1>0, <1>1, <1>3
    <2>4. QED
      BY <1>0, <2>2, <2>3
  <1>4. CASE 0 <= rel /\ rel < w.span
    <2>1. wall - at <= w.span
      BY <1>0, <1>4
    <2>2. Age(at) <= w.span
      BY <1>0, <2>1 DEF Age
    <2> HIDE DEF rel
    <2>3. BucketIndex(at, w) = q + 1
      BY <1>0, <1>1, <1>4
    <2>4. q \in Nat /\ w.bin * q <= rel
      <3>1. rel \in Nat
        BY <1>0, <1>4
      <3>2. /\ q \in Nat /\ rel % w.bin \in 0 .. w.bin - 1
            /\ rel = w.bin * q + (rel % w.bin)
        BY <1>0, <3>1, Quotient
      <3> HIDE DEF q
      <3>3. w.bin * q \in Nat
        BY <1>0, <3>2
      <3>4. QED
        BY <1>0, <3>1, <3>2, <3>3
    <2> HIDE DEF q
    <2>5. q < w.bins
      <3>1. SUFFICES ASSUME w.bins <= q PROVE FALSE
        BY <1>0, <2>4
      <3>2. w.bins * w.bin <= q * w.bin
        BY <1>0, <2>4, <3>1, TimesMonotone
      <3>3. /\ w.bins * w.bin = w.bin * w.bins /\ q * w.bin = w.bin * q
            /\ w.bin * q \in Nat /\ w.bin * w.bins \in Nat
        BY <1>0, <2>4
      <3>4. w.span <= w.bin * q
        BY <1>0, <3>2, <3>3
      <3>5. QED
        BY <1>0, <1>4, <2>4, <3>3, <3>4
    <2>6. QED
      BY <1>0, <2>2, <2>3, <2>4, <2>5
  <1>5. QED
    BY <1>0, <1>2, <1>3, <1>4

\* So what a window counts is what its bins count, whatever is counted.
LEMMA WindowIsCurve ==
    ASSUME wall \in Nat, NEW w \in Windows, NEW seq, NEW items, IsFiniteSet(items),
           \A i \in items : seq[i].at \in Nat, NEW f, \A i \in items : f[i] \in Int,
           NEW g, g = [b \in 1 .. w.bins |-> SumFunctionOnSet(f, Bucket(seq, items, w, b))]
    PROVE  SumFunctionOnSet(f, Within(seq, items, w)) = SumFunction(g)
  <1> DEFINE S == Within(seq, items, w)
             K == 1 .. w.bins
             cls == [i \in items |-> BucketIndex(seq[i].at, w)]
  <1>1. IsFiniteSet(S) /\ \A x \in S : f[x] \in Int
    BY FS_Subset DEF Within
  <1>2. \A i \in items : Age(seq[i].at) <= w.span <=> cls[i] \in K
    BY EdgesAgree
  <1>3. \A x \in S : cls[x] \in K
    BY <1>2 DEF Within
  <1>4. \A b \in K : Bucket(seq, items, w, b) = ClassOf(S, cls, b)
    BY <1>2 DEF Within, Bucket, ClassOf
  <1>5. IsFiniteSet(K)
    BY WindowFields, FS_Interval
  <1>6. ClassSums(f, S, cls, g, K)
    BY <1>4 DEF ClassSums
  <1>7. DOMAIN g = K
    OBVIOUS
  <1> HIDE DEF S, K, cls
  <1>8. SumFunctionOnSet(f, S) = SumFunctionOnSet(g, K)
    BY <1>1, <1>3, <1>5, <1>6, SumByClass
  <1>9. QED
    BY <1>7, <1>8 DEF S, SumFunction

\* A longer window counts no less.
LEMMA LongerWindow ==
    ASSUME NEW v \in Windows, NEW w \in Windows, v.span <= w.span, wall \in Nat,
           NEW seq, NEW items, IsFiniteSet(items), \A i \in items : seq[i].at \in Nat,
           NEW f, \A i \in items : f[i] \in Nat
    PROVE  SumFunctionOnSet(f, Within(seq, items, v)) <= SumFunctionOnSet(f, Within(seq, items, w))
  <1> DEFINE V == Within(seq, items, v)
             W == Within(seq, items, w)
  <1>1. V \in SUBSET W /\ IsFiniteSet(W) /\ \A i \in W : f[i] \in Nat
    <2>1. \A i \in items : Age(seq[i].at) \in Nat
      BY DEF Age
    <2>2. v.span \in Nat /\ w.span \in Nat
      BY WindowFields
    <2>3. V \in SUBSET W
      BY <2>1, <2>2 DEF Within
    <2>4. QED
      BY <2>3, FS_Subset DEF Within
  <1> HIDE DEF V, W
  <1>2. SumFunctionOnSet(f, V) <= SumFunctionOnSet(f, W)
    BY <1>1, SumOfPart
  <1>3. QED
    BY <1>2 DEF V, W

\* A record that comes adds its weight, and one that is pushed out takes some
\* away.
LEMMA NewestWeighs ==
    ASSUME NEW R, NEW val \in [R -> Nat], NEW h \in Seq(R), NEW r \in R, NEW N \in Nat \ {0},
           Len(h) <= N
    PROVE  LET k == Newest(Append(h, r), N)
           IN  /\ k \in Seq(R) /\ Len(k) <= N /\ Len(k) <= Len(h) + 1
               /\ Weight(val, h) \in Nat /\ Weight(val, k) \in Nat
               /\ Weight(val, k) <= Weight(val, h) + val[r]
  <1> DEFINE n == Len(h)
             a == Append(h, r)
             k == Newest(a, N)
             fh == [i \in DOMAIN h |-> val[h[i]]]
             fa == [i \in DOMAIN a |-> val[a[i]]]
             fk == [i \in DOMAIN k |-> val[k[i]]]
  <1>1. /\ n \in Nat /\ DOMAIN h = 1 .. n /\ a \in Seq(R) /\ Len(a) = n + 1
        /\ DOMAIN a = 1 .. n + 1 /\ a[n + 1] = r /\ \A i \in 1 .. n : a[i] = h[i] /\ h[i] \in R
    OBVIOUS
  <1>2. /\ IsFiniteSet(1 .. n) /\ IsFiniteSet(1 .. n + 1) /\ n + 1 \notin 1 .. n
        /\ (1 .. n) \cup {n + 1} = 1 .. n + 1
    <2>1. 1 \in Int /\ n \in Int /\ n + 1 \in Int
      BY <1>1
    <2> HIDE DEF n
    <2>2. IsFiniteSet(1 .. n) /\ IsFiniteSet(1 .. n + 1)
      BY <2>1, FS_Interval
    <2>3. QED
      BY <1>1, <2>2
  <1> HIDE DEF a, n
  <1>3. /\ \A i \in 1 .. n : fh[i] \in Nat /\ fa[i] = fh[i]
        /\ fa[n + 1] = val[r] /\ val[r] \in Nat /\ \A i \in 1 .. n + 1 : fa[i] \in Nat
    BY <1>1
  <1>4. Weight(val, h) = SumFunctionOnSet(fh, 1 .. n) /\ Weight(val, a) = SumFunctionOnSet(fa, 1 .. n + 1)
    BY <1>1 DEF Weight
  <1> HIDE DEF fh, fa
  <1>5. SumFunctionOnSet(fh, 1 .. n) \in Nat /\ SumFunctionOnSet(fa, 1 .. n + 1) \in Nat
    BY <1>2, <1>3, SumNat
  <1>6. SumFunctionOnSet(fa, 1 .. n + 1) = val[r] + SumFunctionOnSet(fh, 1 .. n)
    <2>1. SumFunctionOnSet(fa, 1 .. n) = SumFunctionOnSet(fh, 1 .. n)
      BY <1>2, <1>3, SumSame
    <2>2. \A i \in (1 .. n) \cup {n + 1} : fa[i] \in Int
      BY <1>2, <1>3
    <2>3. SumFunctionOnSet(fa, (1 .. n) \cup {n + 1}) = fa[n + 1] + SumFunctionOnSet(fa, 1 .. n)
      BY <1>2, <2>2, SumAdd
    <2>4. QED
      BY <1>2, <1>3, <2>1, <2>3
  <1>7. CASE n + 1 <= N
    <2>1. k = a
      BY <1>1, <1>7 DEF Newest
    <2>2. QED
      BY <1>1, <1>3, <1>4, <1>5, <1>6, <1>7, <2>1 DEF a, n
  <1>8. CASE ~ (n + 1 <= N)
    <2>1. n = N
      <3>1. n <= N
        BY DEF n
      <3>2. QED
        BY <1>1, <1>8, <3>1
    <2>2. k = SubSeq(a, 2, n + 1)
      BY <1>1, <1>8, <2>1 DEF Newest
    <2>3. /\ k \in Seq(R) /\ Len(k) = n /\ DOMAIN k = 1 .. n
          /\ \A i \in 1 .. n : k[i] = a[i + 1] /\ i + 1 \in 1 .. n + 1
      BY <1>1, <2>1, <2>2
    <2> DEFINE b == [i \in 1 .. n |-> i + 1]
    <2>4. \A x, y \in 1 .. n : b[x] = b[y] => x = y
      BY <1>1
    <2>5. Renamed(b, 1 .. n) \in SUBSET (1 .. n + 1)
      BY <1>1, <2>3 DEF Renamed
    <2>6. \A x \in 1 .. n : fa[b[x]] = fk[x] /\ fk[x] \in Nat
      BY <1>1, <2>3 DEF fa
    <2>7. Weight(val, k) = SumFunctionOnSet(fk, 1 .. n)
      BY <2>3 DEF Weight
    <2> HIDE DEF b, fk
    <2>8. SumFunctionOnSet(fa, Renamed(b, 1 .. n)) = SumFunctionOnSet(fk, 1 .. n)
      <3> DEFINE I == 1 .. n
      <3>1. /\ IsFiniteSet(I) /\ \A x, y \in I : b[x] = b[y] => x = y
            /\ \A x \in I : fa[b[x]] = fk[x] /\ fk[x] \in Int
        BY <1>2, <2>4, <2>6
      <3> HIDE DEF I
      <3>2. SumFunctionOnSet(fa, Renamed(b, I)) = SumFunctionOnSet(fk, I)
        BY <3>1, SumRenamed
      <3>3. QED
        BY <3>2 DEF I
    <2>9. SumFunctionOnSet(fa, Renamed(b, 1 .. n)) <= SumFunctionOnSet(fa, 1 .. n + 1)
      BY <1>2, <1>3, <2>5, SumOfPart
    <2>10. SumFunctionOnSet(fk, 1 .. n) \in Nat
      BY <1>2, <2>6, SumNat
    <2> HIDE DEF k
    <2>11. /\ k \in Seq(R) /\ Len(k) <= N /\ Len(k) <= n + 1 /\ Weight(val, k) \in Nat
           /\ Weight(val, k) <= Weight(val, h) + val[r]
      BY <1>1, <1>3, <1>4, <1>5, <1>6, <2>1, <2>3, <2>7, <2>8, <2>9, <2>10
    <2>12. QED
      BY <1>4, <1>5, <2>11 DEF k, a, n
  <1>9. QED
    BY <1>7, <1>8

LEMMA EmptyWeighs == ASSUME NEW val PROVE Weight(val, <<>>) = 0
  <1>1. DOMAIN <<>> = {}
    OBVIOUS
  <1>2. QED
    BY <1>1, SumOfNone DEF Weight

LEMMA UsageStarts == UsageInit => UsageInv
  BY EmptyWeighs, SizesAssumption DEF UsageInit, UsageInv, Nothing

LEMMA UsageKept == ASSUME UsageInv, [UsageNext]_usageVars PROVE UsageInv'
  <1>0. /\ HistorySize \in Nat \ {0} /\ TokenCounts \subseteq Nat
        /\ ErrorsOf \in [UsageRecord -> Nat] /\ TokensOf \in [UsageRecord -> Nat]
    BY SizesAssumption DEF ErrorsOf, TokensOf, UsageRecord
  <1>1. CASE BeginRequest
    <2>1. /\ lifetime' \in [requests : Nat, errors : Nat, tokens : Nat]
          /\ lifetime'.requests = lifetime.requests + 1
          /\ lifetime'.errors = lifetime.errors /\ lifetime'.tokens = lifetime.tokens
          /\ lifetime.requests \in Nat
      <3>1. lifetime' = [lifetime EXCEPT !.requests = @ + 1]
        BY <1>1 DEF BeginRequest
      <3>2. lifetime \in [requests : Nat, errors : Nat, tokens : Nat]
        BY DEF UsageInv
      <3>3. QED
        BY <3>1, <3>2
    <2>2. /\ running' = running + 1
          /\ UNCHANGED <<wall, history, carried, points_log>>
      BY <1>1 DEF BeginRequest
    <2>3. Len(history) + running' <= lifetime'.requests + carried
      <3>1. Len(history) \in Nat /\ running \in Nat /\ carried \in Nat
        BY DEF UsageInv
      <3>2. Len(history) + running <= lifetime.requests + carried
        BY DEF UsageInv
      <3>3. QED
        BY <2>1, <2>2, <3>1, <3>2
    <2>4. QED
      BY <2>1, <2>2, <2>3 DEF UsageInv, Weight
  <1>2. ASSUME NEW user \in {"me", "other"}, NEW status \in {"ok", "error", "cancelled"},
               NEW used \in TokenCounts, EndRequest(user, status, used)
        PROVE  UsageInv'
    <2> DEFINE r == [user |-> user, at |-> wall, status |-> status, tokens |-> used]
    <2>1. r \in UsageRecord /\ history \in Seq(UsageRecord) /\ Len(history) <= HistorySize
      BY DEF UsageInv, UsageRecord
    <2>2. /\ ErrorsOf[r] = IF status = "error" THEN 1 ELSE 0
          /\ TokensOf[r] = used /\ used \in Nat
      BY <1>0, <2>1 DEF ErrorsOf, TokensOf
    <2>3. history' = Newest(Append(history, r), HistorySize)
      BY <1>2 DEF EndRequest
    <2> HIDE DEF r
    <2>4. /\ history' \in Seq(UsageRecord) /\ Len(history') <= HistorySize
          /\ Len(history') <= Len(history) + 1
          /\ Weight(ErrorsOf, history) \in Nat /\ Weight(ErrorsOf, history') \in Nat
          /\ Weight(ErrorsOf, history') <= Weight(ErrorsOf, history) + ErrorsOf[r]
      BY <1>0, <2>1, <2>3, NewestWeighs
    <2>5. /\ Weight(TokensOf, history) \in Nat /\ Weight(TokensOf, history') \in Nat
          /\ Weight(TokensOf, history') <= Weight(TokensOf, history) + TokensOf[r]
      BY <1>0, <2>1, <2>3, NewestWeighs
    <2>6. /\ lifetime' \in [requests : Nat, errors : Nat, tokens : Nat]
          /\ lifetime'.requests = lifetime.requests
          /\ lifetime'.tokens = lifetime.tokens + used
          /\ lifetime'.errors = IF status = "error" THEN lifetime.errors + 1 ELSE lifetime.errors
      <3>1. lifetime' = [lifetime EXCEPT !.tokens = @ + used,
                                         !.errors = IF status = "error" THEN @ + 1 ELSE @]
        BY <1>2 DEF EndRequest
      <3>2. lifetime \in [requests : Nat, errors : Nat, tokens : Nat]
        BY DEF UsageInv
      <3> DEFINE e == IF status = "error" THEN lifetime.errors + 1 ELSE lifetime.errors
      <3>3. used \in Nat /\ e \in Nat
        BY <2>2, <3>2
      <3>4. lifetime' = [lifetime EXCEPT !.tokens = lifetime.tokens + used, !.errors = e]
        BY <3>1, <3>2
      <3> HIDE DEF e
      <3> DEFINE t == lifetime.tokens + used
      <3>5. t \in Nat
        BY <3>2, <3>3
      <3> HIDE DEF t
      <3>6. lifetime' = [requests |-> lifetime.requests, errors |-> e, tokens |-> t]
        BY <3>2, <3>4 DEF t
      <3>7. lifetime' \in [requests : Nat, errors : Nat, tokens : Nat]
        BY <3>2, <3>3, <3>5, <3>6
      <3>8. /\ lifetime'.requests = lifetime.requests
            /\ lifetime'.tokens = t /\ lifetime'.errors = e
        BY <3>6
      <3>9. QED
        BY <3>7, <3>8 DEF e, t
    <2>7. /\ running > 0 /\ running' = running - 1
          /\ UNCHANGED <<wall, carried, points_log>>
      BY <1>2 DEF EndRequest
    <2>8. /\ Weight(ErrorsOf, history') <= lifetime'.errors
          /\ Weight(TokensOf, history') <= lifetime'.tokens
      <3>1. /\ lifetime.errors \in Nat /\ lifetime.tokens \in Nat
            /\ Weight(ErrorsOf, history) <= lifetime.errors
            /\ Weight(TokensOf, history) <= lifetime.tokens
        BY DEF UsageInv
      <3>2. Weight(ErrorsOf, history') <= lifetime'.errors
        BY <2>2, <2>4, <2>6, <3>1
      <3>3. Weight(TokensOf, history') <= lifetime'.tokens
        BY <2>2, <2>5, <2>6, <3>1
      <3>4. QED
        BY <3>2, <3>3
    <2>9. Len(history') + running' <= lifetime'.requests + carried' /\ running' \in Nat
      <3>1. Len(history) \in Nat /\ Len(history') \in Nat
        BY <2>1, <2>4
      <3>2. QED
        BY <2>4, <2>6, <2>7, <3>1 DEF UsageInv
    <2>10. QED
      BY <2>4, <2>6, <2>7, <2>8, <2>9 DEF UsageInv
  <1>3. CASE ClearUsage
    BY <1>3, EmptyWeighs, SizesAssumption DEF ClearUsage, UsageInv, Nothing
  <1>4. CASE RestartGateway
    BY <1>4, EmptyWeighs, SizesAssumption DEF RestartGateway, UsageInv
  <1>5. ASSUME NEW delta \in {-1, 1}, LogPoints(delta) PROVE UsageInv'
    <2>1. [delta |-> delta, at |-> wall] \in PointsRow
      BY DEF UsageInv, PointsRow
    <2>2. QED
      BY <1>5, <2>1 DEF LogPoints, UsageInv
  <1>6. CASE WallTick
    BY <1>6 DEF WallTick, UsageInv
  <1>7. CASE SetClockBack
    BY <1>7 DEF SetClockBack, UsageInv
  <1>8. CASE UNCHANGED usageVars
    BY <1>8 DEF usageVars, UsageInv
  <1>9. QED
    BY <1>1, <1>2, <1>3, <1>4, <1>5, <1>6, <1>7, <1>8 DEF UsageNext

Figures(what) == [i \in DOMAIN history |-> Added(history[i])[what]]
Costs == [i \in DOMAIN points_log |-> IF points_log[i].delta < 0 THEN - points_log[i].delta ELSE 0]

LEMMA UsageSums ==
    ASSUME UsageInv
    PROVE  /\ \A items \in {DOMAIN history, MyHistory} :
                IsFiniteSet(items) /\ items \subseteq DOMAIN history
           /\ IsFiniteSet(MyLog) /\ MyLog \subseteq DOMAIN points_log
           /\ \A i \in DOMAIN history : history[i] \in UsageRecord /\ history[i].at \in Nat
           /\ \A i \in DOMAIN points_log : points_log[i].at \in Nat /\ Costs[i] \in Nat
           /\ \A what \in DOMAIN Nothing, i \in DOMAIN history : Figures(what)[i] \in Nat
           /\ \A what, items : Sums(what, items) = SumFunctionOnSet(Figures(what), items)
           /\ \A rows : Spent(rows) = SumFunctionOnSet(Costs, rows)
  <1>1. /\ history \in Seq(UsageRecord) /\ Len(history) \in Nat /\ DOMAIN history = 1 .. Len(history)
        /\ points_log \in Seq(PointsRow) /\ Len(points_log) \in Nat
        /\ DOMAIN points_log = 1 .. Len(points_log)
    BY DEF UsageInv
  <1>2. IsFiniteSet(DOMAIN history) /\ IsFiniteSet(DOMAIN points_log)
    BY <1>1, FS_Interval
  <1>3. MyHistory \in SUBSET DOMAIN history /\ MyLog \in SUBSET DOMAIN points_log
    BY DEF MyHistory, MyLog, Latest
  <1>4. IsFiniteSet(MyHistory) /\ IsFiniteSet(MyLog)
    BY <1>2, <1>3, FS_Subset
  <1>5. \A i \in DOMAIN history : history[i] \in UsageRecord /\ history[i].at \in Nat
    <2>1. \A i \in DOMAIN history : history[i] \in UsageRecord
      BY <1>1
    <2>2. QED
      BY <2>1 DEF UsageRecord
  <1>6. \A i \in DOMAIN points_log : points_log[i].at \in Nat /\ Costs[i] \in Nat
    <2> SUFFICES ASSUME NEW i \in DOMAIN points_log PROVE points_log[i].at \in Nat /\ Costs[i] \in Nat
      OBVIOUS
    <2>1. points_log[i].at \in Nat /\ points_log[i].delta \in Int
      <3>1. points_log[i] \in PointsRow
        BY <1>1
      <3>2. QED
        BY <3>1 DEF PointsRow
    <2>2. QED
      BY <2>1 DEF Costs
  <1>7. ASSUME NEW what \in DOMAIN Nothing, NEW i \in DOMAIN history
        PROVE  Figures(what)[i] \in Nat
    <2>1. history[i].tokens \in Nat
      BY <1>5, SizesAssumption DEF UsageRecord
    <2>2. what \in {"requests", "errors", "tokens"}
      BY DEF Nothing
    <2>3. QED
      BY <2>1, <2>2 DEF Figures, Added
  <1>8. QED
    BY <1>2, <1>3, <1>4, <1>5, <1>6, <1>7 DEF Sums, Spent, Figures, Costs

LEMMA SeriesHold == UsageInv => SeriesAddUp
  <1> SUFFICES ASSUME UsageInv, NEW w \in Windows
               PROVE  /\ \A items \in {DOMAIN history, MyHistory}, what \in DOMAIN Nothing :
                           Sums(what, Within(history, items, w))
                             = SumFunction([b \in 1 .. w.bins |-> Sums(what, Bucket(history, items, w, b))])
                      /\ Spent(Within(points_log, MyLog, w))
                             = SumFunction([b \in 1 .. w.bins |-> Spent(Bucket(points_log, MyLog, w, b))])
    BY DEF SeriesAddUp
  <1>0. wall \in Nat
    BY DEF UsageInv
  <1>1. ASSUME NEW items \in {DOMAIN history, MyHistory}, NEW what \in DOMAIN Nothing
        PROVE  Sums(what, Within(history, items, w))
                 = SumFunction([b \in 1 .. w.bins |-> Sums(what, Bucket(history, items, w, b))])
    <2> DEFINE f == Figures(what)
               g == [b \in 1 .. w.bins |-> Sums(what, Bucket(history, items, w, b))]
    <2>1. /\ IsFiniteSet(items) /\ \A i \in items : history[i].at \in Nat /\ f[i] \in Int
      BY UsageSums
    <2>2. g = [b \in 1 .. w.bins |-> SumFunctionOnSet(f, Bucket(history, items, w, b))]
      BY UsageSums
    <2>3. Sums(what, Within(history, items, w)) = SumFunctionOnSet(f, Within(history, items, w))
      BY UsageSums
    <2> HIDE DEF f, g
    <2>4. SumFunctionOnSet(f, Within(history, items, w)) = SumFunction(g)
      BY <1>0, <2>1, <2>2, WindowIsCurve
    <2>5. QED
      BY <2>3, <2>4 DEF g
  <1>2. Spent(Within(points_log, MyLog, w))
          = SumFunction([b \in 1 .. w.bins |-> Spent(Bucket(points_log, MyLog, w, b))])
    <2> DEFINE f == Costs
               g == [b \in 1 .. w.bins |-> Spent(Bucket(points_log, MyLog, w, b))]
    <2>1. /\ IsFiniteSet(MyLog) /\ \A i \in MyLog : points_log[i].at \in Nat /\ f[i] \in Int
      BY UsageSums
    <2>2. g = [b \in 1 .. w.bins |-> SumFunctionOnSet(f, Bucket(points_log, MyLog, w, b))]
      BY UsageSums
    <2>3. Spent(Within(points_log, MyLog, w)) = SumFunctionOnSet(f, Within(points_log, MyLog, w))
      BY UsageSums
    <2> HIDE DEF f, g
    <2>4. SumFunctionOnSet(f, Within(points_log, MyLog, w)) = SumFunction(g)
      BY <1>0, <2>1, <2>2, WindowIsCurve
    <2>5. QED
      BY <2>3, <2>4 DEF g
  <1>3. QED
    BY <1>1, <1>2

\* What a window shows is at most what the whole history has.
LEMMA ShownInHistory ==
    ASSUME UsageInv, NEW w \in Windows, NEW what \in DOMAIN Nothing
    PROVE  /\ Sums(what, Within(history, DOMAIN history, w)) \in Nat
           /\ SumFunctionOnSet(Figures(what), DOMAIN history) \in Nat
           /\ Sums(what, Within(history, DOMAIN history, w))
                <= SumFunctionOnSet(Figures(what), DOMAIN history)
  <1> DEFINE f == Figures(what)
             D == DOMAIN history
             W == Within(history, D, w)
  <1>1. IsFiniteSet(D) /\ W \in SUBSET D /\ \A i \in D : f[i] \in Nat
    BY UsageSums DEF Within
  <1>2. Sums(what, W) = SumFunctionOnSet(f, W)
    BY UsageSums
  <1> HIDE DEF f, D, W
  <1>3. SumFunctionOnSet(f, W) <= SumFunctionOnSet(f, D) /\ SumFunctionOnSet(f, D) \in Nat
    BY <1>1, SumOfPart, SumNat
  <1>4. IsFiniteSet(W) /\ \A i \in W : f[i] \in Nat
    BY <1>1, FS_Subset
  <1>5. SumFunctionOnSet(f, W) \in Nat
    BY <1>4, SumNat
  <1>6. QED
    BY <1>2, <1>3, <1>5 DEF f, D, W

LEMMA WindowsHold == UsageInv => WindowsNest
  <1> SUFFICES ASSUME UsageInv PROVE WindowsNest
    OBVIOUS
  <1>0. /\ wall \in Nat /\ history \in Seq(UsageRecord) /\ Len(history) \in Nat
        /\ DOMAIN history = 1 .. Len(history) /\ IsFiniteSet(DOMAIN history)
    BY UsageSums DEF UsageInv
  <1>1. ASSUME NEW v \in Windows, NEW w \in Windows, v.span <= w.span
        PROVE  /\ \A items \in {DOMAIN history, MyHistory}, what \in DOMAIN Nothing :
                    Sums(what, Within(history, items, v)) <= Sums(what, Within(history, items, w))
               /\ Spent(Within(points_log, MyLog, v)) <= Spent(Within(points_log, MyLog, w))
    <2>1. ASSUME NEW items \in {DOMAIN history, MyHistory}, NEW what \in DOMAIN Nothing
          PROVE  Sums(what, Within(history, items, v)) <= Sums(what, Within(history, items, w))
      <3>1. /\ IsFiniteSet(items)
            /\ \A i \in items : history[i].at \in Nat /\ Figures(what)[i] \in Nat
        BY UsageSums
      <3>2. SumFunctionOnSet(Figures(what), Within(history, items, v))
              <= SumFunctionOnSet(Figures(what), Within(history, items, w))
        BY <1>0, <1>1, <3>1, LongerWindow
      <3>3. QED
        BY <3>2, UsageSums
    <2>2. Spent(Within(points_log, MyLog, v)) <= Spent(Within(points_log, MyLog, w))
      <3>1. IsFiniteSet(MyLog) /\ \A i \in MyLog : points_log[i].at \in Nat /\ Costs[i] \in Nat
        BY UsageSums
      <3>2. SumFunctionOnSet(Costs, Within(points_log, MyLog, v))
              <= SumFunctionOnSet(Costs, Within(points_log, MyLog, w))
        BY <1>0, <1>1, <3>1, LongerWindow
      <3>3. QED
        BY <3>2, UsageSums
    <2>3. QED
      BY <2>1, <2>2
  <1> DEFINE D == DOMAIN history
             cancelled == {i \in D : history[i].status = "cancelled"}
  <1>2. SumFunctionOnSet(Figures("tokens"), D) <= lifetime.tokens
    <2>1. Weight(TokensOf, history) = SumFunctionOnSet([i \in D |-> TokensOf[history[i]]], D)
      BY DEF Weight
    <2>2. \A i \in D : Figures("tokens")[i] = [j \in D |-> TokensOf[history[j]]][i]
      BY UsageSums DEF Figures, Added, TokensOf
    <2>3. SumFunctionOnSet(Figures("tokens"), D) = SumFunctionOnSet([i \in D |-> TokensOf[history[i]]], D)
      BY <1>0, <2>2, SumSame
    <2>4. QED
      BY <2>1, <2>3 DEF UsageInv
  <1>3. SumFunctionOnSet(Figures("requests"), D) <= lifetime.requests + carried
    <2>1. \A i \in D : Figures("requests")[i] = 1
      BY DEF Figures, Added
    <2>2. SumFunctionOnSet(Figures("requests"), D) = Cardinality(D)
      BY <1>0, <2>1, SumOfOnes
    <2>3. Cardinality(D) = Len(history)
      BY <1>0, FS_Interval
    <2>4. QED
      BY <1>0, <2>2, <2>3 DEF UsageInv
  <1>4. SumFunctionOnSet(Figures("errors"), D) <= lifetime.errors + Cardinality(cancelled)
    <2> DEFINE f == Figures("errors")
               e == [i \in D |-> ErrorsOf[history[i]]]
               rest == D \ cancelled
    <2>1. Weight(ErrorsOf, history) = SumFunctionOnSet(e, D)
      BY DEF Weight
    <2>2. \A i \in D : /\ f[i] = IF history[i].status # "ok" THEN 1 ELSE 0
                       /\ e[i] = IF history[i].status = "error" THEN 1 ELSE 0
                       /\ history[i].status \in {"ok", "error", "cancelled"}
      BY UsageSums DEF Figures, Added, ErrorsOf, UsageRecord
    <2> HIDE DEF f, e
    <2>3. /\ \A i \in cancelled : f[i] = 1
          /\ \A i \in rest : f[i] = e[i]
          /\ \A i \in D : e[i] \in Nat
          /\ \A i \in cancelled \cup rest : f[i] \in Int
      BY <2>2
    <2>4. /\ IsFiniteSet(cancelled) /\ IsFiniteSet(rest) /\ cancelled \cap rest = {}
          /\ cancelled \cup rest = D /\ rest \in SUBSET D
      BY <1>0, FS_Subset
    <2> HIDE DEF cancelled, rest, D
    <2>5. SumFunctionOnSet(f, cancelled) = Cardinality(cancelled) /\ Cardinality(cancelled) \in Nat
      BY <2>3, <2>4, SumOfOnes, FS_CardinalityType
    <2>6. SumFunctionOnSet(f, rest) = SumFunctionOnSet(e, rest)
      BY <2>3, <2>4, SumSame
    <2>7. SumFunctionOnSet(e, rest) <= SumFunctionOnSet(e, D)
      BY <1>0, <2>3, <2>4, SumOfPart DEF D
    <2>8. SumFunctionOnSet(f, cancelled \cup rest) = SumFunctionOnSet(f, cancelled) + SumFunctionOnSet(f, rest)
      BY <2>3, <2>4, SumOfUnion
    <2>9. SumFunctionOnSet(e, D) \in Nat /\ SumFunctionOnSet(e, rest) \in Nat
      <3>1. \A i \in rest : e[i] \in Nat
        BY <2>3, <2>4
      <3>2. IsFiniteSet(D)
        BY <1>0 DEF D
      <3>3. QED
        BY <2>3, <2>4, <3>1, <3>2, SumNat
    <2>10. SumFunctionOnSet(e, D) <= lifetime.errors /\ lifetime.errors \in Nat
      BY <2>1 DEF UsageInv
    <2>11. SumFunctionOnSet(f, D) <= lifetime.errors + Cardinality(cancelled)
      BY <2>4, <2>5, <2>6, <2>7, <2>8, <2>9, <2>10
    <2>12. QED
      BY <2>11 DEF f
  <1>5. ASSUME NEW w \in Windows
        PROVE  /\ Sums("tokens", Within(history, D, w)) <= lifetime.tokens
               /\ Sums("requests", Within(history, D, w)) <= lifetime.requests + carried
               /\ Sums("errors", Within(history, D, w)) <= lifetime.errors + Cardinality(cancelled)
    <2>1. {"tokens", "requests", "errors"} = DOMAIN Nothing
      BY DEF Nothing
    <2>2. /\ lifetime.tokens \in Nat /\ lifetime.requests + carried \in Nat
          /\ lifetime.errors + Cardinality(cancelled) \in Nat
      <3>1. lifetime \in [requests : Nat, errors : Nat, tokens : Nat] /\ carried \in Nat
        BY DEF UsageInv
      <3>2. IsFiniteSet(cancelled)
        BY <1>0, FS_Subset
      <3>3. Cardinality(cancelled) \in Nat
        BY <3>2, FS_CardinalityType
      <3>4. QED
        BY <3>1, <3>3
    <2> HIDE DEF cancelled
    <2>3. /\ Sums("tokens", Within(history, D, w)) <= SumFunctionOnSet(Figures("tokens"), D)
          /\ Sums("tokens", Within(history, D, w)) \in Nat
          /\ SumFunctionOnSet(Figures("tokens"), D) \in Nat
      BY <2>1, ShownInHistory
    <2>4. /\ Sums("requests", Within(history, D, w)) <= SumFunctionOnSet(Figures("requests"), D)
          /\ Sums("requests", Within(history, D, w)) \in Nat
          /\ SumFunctionOnSet(Figures("requests"), D) \in Nat
      BY <2>1, ShownInHistory
    <2>5. /\ Sums("errors", Within(history, D, w)) <= SumFunctionOnSet(Figures("errors"), D)
          /\ Sums("errors", Within(history, D, w)) \in Nat
          /\ SumFunctionOnSet(Figures("errors"), D) \in Nat
      BY <2>1, ShownInHistory
    <2> HIDE DEF D
    <2>6. QED
      BY <1>2, <1>3, <1>4, <2>2, <2>3, <2>4, <2>5
  <1>6. QED
    BY <1>1, <1>5 DEF WindowsNest

\* Whatever requests ended, totals were cleared and clocks set back: every figure
\* is the sum of its curve, and no more than the figures it is part of.
THEOREM UsageFits == UsageSpec => []UsageAddsUp
  <1>1. UsageInv => UsageAddsUp
    BY SeriesHold, WindowsHold DEF UsageAddsUp
  <1>2. UsageInv /\ [UsageNext]_usageVars => UsageInv'
    BY UsageKept
  <1>3. QED
    BY <1>1, <1>2, UsageStarts, PTL DEF UsageSpec
=============================================================================
