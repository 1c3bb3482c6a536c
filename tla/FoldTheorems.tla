---------------------------- MODULE FoldTheorems ----------------------------
(***************************************************************************)
(* Two folds: the sum over a finite set (SumFunctionOnSet) and the         *)
(* concatenation of a list of sequences (FlattenSeq), both as the library  *)
(* defines them by recursion; and what a loop over a sequence gathers.     *)
(*                                                                         *)
(* Induction is over the set of the counterexamples: if a statement is     *)
(* false of a subset of S, it is false of a smallest one, and true of all  *)
(* subsets of that one (SmallestSubset); the same for natural numbers      *)
(* (LeastNatural).  Both follow from the well-founded orderings of the     *)
(* library.  UpTo and Grows are the inductions up to a bound and along a   *)
(* sequence: the statement is a set, never an operator.                    *)
(***************************************************************************)
EXTENDS Integers, Sequences, FiniteSets, Functions, SequencesExt, WellFoundedInduction,
        FiniteSetTheorems, SequenceTheorems, TLAPS

\* A set of naturals that is not empty has a least element.
LEMMA LeastNatural ==
    ASSUME NEW T \in SUBSET Nat, T # {}
    PROVE  \E n \in T : \A m \in T : n <= m
  <1> DEFINE R == OpToRel(<, Nat)
  <1>1. IsWellFoundedOn(R, Nat)
    BY NatLessThanWellFounded
  <1>2. \A a, b \in Nat : a < b => <<a, b>> \in R
    BY DEF OpToRel
  <1> HIDE DEF R
  <1>3. PICK n \in T : \A m \in T : ~ (<<m, n>> \in R)
    BY <1>1, WFMin
  <1>4. ASSUME NEW m \in T
        PROVE  n <= m
    <2>1. m \in Nat /\ n \in Nat
      OBVIOUS
    <2>2. ~ (m < n)
      BY <1>2, <1>3, <2>1
    <2>3. QED
      BY <2>1, <2>2
  <1>5. QED
    BY <1>4

\* Among subsets of a finite set there is one that contains no other.
LEMMA SmallestSubset ==
    ASSUME NEW S, IsFiniteSet(S), NEW Bad \in SUBSET SUBSET S, Bad # {}
    PROVE  \E T \in Bad : \A U \in SUBSET T : U # T => U \notin Bad
  <1> DEFINE R == StrictSubsetOrdering(S)
  <1>1. IsWellFoundedOn(R, SUBSET S)
    BY FS_StrictSubsetOrderingWellFounded, FS_FiniteSubsetsOfFinite
  <1>2. \A T, U \in SUBSET S : U \subseteq T /\ U # T => <<U, T>> \in R
    BY DEF StrictSubsetOrdering
  <1> HIDE DEF R
  <1>3. PICK T \in Bad : \A U \in Bad : ~ (<<U, T>> \in R)
    BY <1>1, WFMin
  <1>4. ASSUME NEW U \in SUBSET T, U # T, U \in Bad
        PROVE  FALSE
    BY <1>2, <1>3, <1>4
  <1>5. QED
    BY <1>4

----------------------------------------------------------------------------
(* The recursion has exactly one solution. *)

Chosen(s) == CHOOSE x \in s : TRUE

SolvesSum(f, g, S) ==
    g = [s \in SUBSET S |-> IF s = {} THEN 0 ELSE f[Chosen(s)] + g[s \ {Chosen(s)}]]

LEMMA ChosenIn ==
    ASSUME NEW s, s # {}
    PROVE  Chosen(s) \in s
  BY DEF Chosen

LEMMA SumsValue ==
    ASSUME NEW f, NEW g, NEW S, SolvesSum(f, g, S), NEW s \in SUBSET S
    PROVE  g[s] = IF s = {} THEN 0 ELSE f[Chosen(s)] + g[s \ {Chosen(s)}]
  <1> DEFINE v(t) == IF t = {} THEN 0 ELSE f[Chosen(t)] + g[t \ {Chosen(t)}]
  <1>1. g = [t \in SUBSET S |-> v(t)]
    BY DEF SolvesSum
  <1> HIDE DEF v
  <1>2. g[s] = v(s)
    BY <1>1
  <1>3. QED
    BY <1>2 DEF v

LEMMA SumsAgree ==
    ASSUME NEW f, NEW S, IsFiniteSet(S), NEW g, NEW T, NEW h, SolvesSum(f, g, S), SolvesSum(f, h, T)
    PROVE  \A s \in SUBSET S : s \subseteq T => g[s] = h[s]
  <1> DEFINE Bad == {s \in SUBSET S : s \subseteq T /\ g[s] # h[s]}
  <1>1. SUFFICES ASSUME Bad # {} PROVE FALSE
    OBVIOUS
  <1>2. PICK s \in Bad : \A u \in SUBSET s : u # s => u \notin Bad
    <2>1. Bad \in SUBSET SUBSET S
      OBVIOUS
    <2> HIDE DEF Bad
    <2>2. QED
      BY <1>1, <2>1, SmallestSubset
  <1> DEFINE u == s \ {Chosen(s)}
  <1>3. s # {} => u # s /\ u \subseteq s /\ g[u] = h[u]
    BY <1>2, ChosenIn
  <1>4. g[s] = h[s]
    BY <1>2, <1>3, SumsValue
  <1>5. QED
    BY <1>2, <1>4

LEMMA SumsExist ==
    ASSUME NEW f, NEW S, IsFiniteSet(S)
    PROVE  \E g : SolvesSum(f, g, S)
  <1> DEFINE Bad == {s \in SUBSET S : ~ \E g : SolvesSum(f, g, s)}
  <1>1. SUFFICES ASSUME Bad # {} PROVE FALSE
    OBVIOUS
  <1>2. PICK T \in Bad : \A u \in SUBSET T : u # T => u \notin Bad
    <2>1. Bad \in SUBSET SUBSET S
      OBVIOUS
    <2> HIDE DEF Bad
    <2>2. QED
      BY <1>1, <2>1, SmallestSubset
  <1> DEFINE sol(s) == CHOOSE g : SolvesSum(f, g, s)
             val(s) == IF s = {} THEN 0
                       ELSE f[Chosen(s)] + sol(s \ {Chosen(s)})[s \ {Chosen(s)}]
             h == [s \in SUBSET T |-> val(s)]
  <1>3. \A s \in SUBSET T : s # T => SolvesSum(f, sol(s), s)
    BY <1>2
  <1>4. \A s \in SUBSET T : IsFiniteSet(s)
    BY <1>2, FS_Subset
  <1> HIDE DEF sol
  <1>5. ASSUME NEW s \in SUBSET T, s # T
        PROVE  sol(s)[s] = val(s)
    <2>1. CASE s = {}
      BY <1>3, <1>5, <2>1, SumsValue
    <2>2. CASE s # {}
      <3> DEFINE u == s \ {Chosen(s)}
      <3>1. u \in SUBSET s /\ u # T
        BY <1>5, ChosenIn
      <3>2. SolvesSum(f, sol(s), s) /\ SolvesSum(f, sol(u), u)
        BY <1>3, <1>5, <3>1
      <3>3. sol(s)[u] = sol(u)[u]
        BY <1>4, <3>1, <3>2, SumsAgree
      <3>4. sol(s)[s] = f[Chosen(s)] + sol(s)[u]
        BY <2>2, <3>2, SumsValue
      <3>5. QED
        BY <2>2, <3>3, <3>4
    <2>3. QED
      BY <2>1, <2>2
  <1>6. ASSUME NEW s \in SUBSET T, s # {}
        PROVE  val(s) = f[Chosen(s)] + h[s \ {Chosen(s)}]
    <2> DEFINE u == s \ {Chosen(s)}
    <2>1. u \in SUBSET T /\ u # T
      BY <1>6, ChosenIn
    <2>2. h[u] = val(u)
      BY <2>1
    <2>3. sol(u)[u] = h[u]
      BY <1>5, <2>1, <2>2
    <2>4. QED
      BY <1>6, <2>3
  <1>7. \A s \in SUBSET T : val(s) = IF s = {} THEN 0 ELSE f[Chosen(s)] + h[s \ {Chosen(s)}]
    BY <1>6
  <1>8. SolvesSum(f, h, T)
    BY <1>7 DEF SolvesSum
  <1>9. QED
    BY <1>2, <1>8

\* The library's sum is that solution.
LEMMA SumIsSolution ==
    ASSUME NEW f, NEW S, IsFiniteSet(S)
    PROVE  \E g : SolvesSum(f, g, S) /\ SumFunctionOnSet(f, S) = g[S]
  <1> DEFINE iter == CHOOSE g : g = [s \in SUBSET S |->
                         IF s = {} THEN 0
                         ELSE LET x == CHOOSE x \in s : TRUE IN f[x] + g[s \ {x}]]
  <1>1. SumFunctionOnSet(f, S) = iter[S]
    BY DEF SumFunctionOnSet, FoldFunctionOnSet, MapThenFoldSet
  <1>2. \E g : SolvesSum(f, g, S)
    BY SumsExist
  <1>3. SolvesSum(f, iter, S)
    BY <1>2 DEF SolvesSum, Chosen
  <1>4. QED
    BY <1>1, <1>3

LEMMA SumRecursion ==
    ASSUME NEW f, NEW S, IsFiniteSet(S)
    PROVE  SumFunctionOnSet(f, S) =
               IF S = {} THEN 0 ELSE f[Chosen(S)] + SumFunctionOnSet(f, S \ {Chosen(S)})
  <1>1. PICK g : SolvesSum(f, g, S) /\ SumFunctionOnSet(f, S) = g[S]
    BY SumIsSolution
  <1>2. CASE S = {}
    BY <1>1, <1>2, SumsValue
  <1>3. CASE S # {}
    <2> DEFINE U == S \ {Chosen(S)}
    <2>1. IsFiniteSet(U)
      BY FS_Subset
    <2>2. PICK h : SolvesSum(f, h, U) /\ SumFunctionOnSet(f, U) = h[U]
      BY <2>1, SumIsSolution
    <2>3. g[U] = h[U]
      BY <1>1, <2>2, SumsAgree
    <2>4. g[S] = f[Chosen(S)] + g[U]
      BY <1>1, <1>3, SumsValue
    <2>5. QED
      BY <1>1, <1>3, <2>2, <2>3, <2>4
  <1>4. QED
    BY <1>2, <1>3

----------------------------------------------------------------------------
(* Sums of integers *)

\* Nothing adds up to zero.
LEMMA SumOfNone ==
    ASSUME NEW f
    PROVE  SumFunctionOnSet(f, {}) = 0
  BY SumRecursion, FS_EmptySet

LEMMA SumInt ==
    ASSUME NEW S, IsFiniteSet(S), NEW f, \A x \in S : f[x] \in Int
    PROVE  SumFunctionOnSet(f, S) \in Int
  <1> DEFINE Bad == {s \in SUBSET S : SumFunctionOnSet(f, s) \notin Int}
  <1>1. SUFFICES ASSUME Bad # {} PROVE FALSE
    <2>1. S \notin Bad => SumFunctionOnSet(f, S) \in Int
      OBVIOUS
    <2>2. QED
      BY <2>1
  <1>2. PICK s \in Bad : \A u \in SUBSET s : u # s => u \notin Bad
    <2>1. Bad \in SUBSET SUBSET S
      OBVIOUS
    <2> HIDE DEF Bad
    <2>2. QED
      BY <1>1, <2>1, SmallestSubset
  <1>3. IsFiniteSet(s)
    BY FS_Subset
  <1>4. s # {}
    BY SumOfNone
  <1> DEFINE u == s \ {Chosen(s)}
  <1>5. Chosen(s) \in S /\ u \in SUBSET S /\ u # s
    BY <1>4, ChosenIn
  <1>6. SumFunctionOnSet(f, u) \in Int
    BY <1>2, <1>5
  <1>7. SumFunctionOnSet(f, s) = f[Chosen(s)] + SumFunctionOnSet(f, u)
    BY <1>3, <1>4, SumRecursion
  <1>8. QED
    BY <1>5, <1>6, <1>7

\* A sum is one of its terms and the sum of the others, whichever is taken out.
LEMMA SumTakeOut ==
    ASSUME NEW S, IsFiniteSet(S), NEW f, \A x \in S : f[x] \in Int, NEW e \in S
    PROVE  SumFunctionOnSet(f, S) = f[e] + SumFunctionOnSet(f, S \ {e})
  <1> DEFINE Bad == {s \in SUBSET S : \E x \in s :
                       SumFunctionOnSet(f, s) # f[x] + SumFunctionOnSet(f, s \ {x})}
  <1>1. SUFFICES ASSUME Bad # {} PROVE FALSE
    <2>1. S \notin Bad =>
             ~ \E x \in S : SumFunctionOnSet(f, S) # f[x] + SumFunctionOnSet(f, S \ {x})
      OBVIOUS
    <2> HIDE DEF Bad
    <2>2. QED
      BY <2>1
  <1>2. PICK s \in Bad : \A u \in SUBSET s : u # s => u \notin Bad
    <2>1. Bad \in SUBSET SUBSET S
      OBVIOUS
    <2> HIDE DEF Bad
    <2>2. QED
      BY <1>1, <2>1, SmallestSubset
  <1>3. PICK x \in s : SumFunctionOnSet(f, s) # f[x] + SumFunctionOnSet(f, s \ {x})
    OBVIOUS
  <1> DEFINE y == Chosen(s)
             u == s \ {y}
  <1>4. IsFiniteSet(s) /\ s # {} /\ y \in s /\ s \in SUBSET S
    BY <1>3, ChosenIn, FS_Subset
  <1>5. SumFunctionOnSet(f, s) = f[y] + SumFunctionOnSet(f, u)
    BY <1>4, SumRecursion
  <1>6. x # y
    BY <1>3, <1>5
  <1>7. x \in u /\ u # s /\ u \in SUBSET s /\ u \notin Bad
    BY <1>2, <1>4, <1>6
  <1>8. SumFunctionOnSet(f, u) = f[x] + SumFunctionOnSet(f, u \ {x})
    BY <1>4, <1>7
  <1> DEFINE t == s \ {x}
  <1>9. y \in t /\ t # s /\ t \in SUBSET s /\ t \notin Bad
    BY <1>2, <1>4, <1>6
  <1>10. SumFunctionOnSet(f, t) = f[y] + SumFunctionOnSet(f, t \ {y})
    BY <1>4, <1>9
  <1>11. t \ {y} = u \ {x}
    OBVIOUS
  <1>12. /\ f[x] \in Int /\ f[y] \in Int /\ SumFunctionOnSet(f, t \ {y}) \in Int
    <2>1. IsFiniteSet(t \ {y}) /\ \A z \in t \ {y} : f[z] \in Int
      BY <1>4, FS_Subset
    <2>2. QED
      BY <1>4, <2>1, SumInt
  <1> HIDE DEF y, u, t, Bad
  <1>13. SumFunctionOnSet(f, s) = f[x] + SumFunctionOnSet(f, t)
    <2>1. SumFunctionOnSet(f, u) = f[x] + SumFunctionOnSet(f, t \ {y})
      BY <1>8, <1>11
    <2>2. SumFunctionOnSet(f, s) = f[y] + (f[x] + SumFunctionOnSet(f, t \ {y}))
      BY <1>5, <2>1
    <2>3. QED
      BY <1>10, <1>12, <2>2
  <1>14. QED
    BY <1>3, <1>13 DEF t

\* One term more.
LEMMA SumAdd ==
    ASSUME NEW S, IsFiniteSet(S), NEW e, e \notin S,
           NEW f, \A x \in S \cup {e} : f[x] \in Int
    PROVE  SumFunctionOnSet(f, S \cup {e}) = f[e] + SumFunctionOnSet(f, S)
  <1>1. IsFiniteSet(S \cup {e}) /\ (S \cup {e}) \ {e} = S
    BY FS_AddElement
  <1>2. QED
    BY <1>1, SumTakeOut

\* Only the values on the set matter.
LEMMA SumSame ==
    ASSUME NEW S, IsFiniteSet(S), NEW f, NEW g, \A x \in S : f[x] = g[x]
    PROVE  SumFunctionOnSet(f, S) = SumFunctionOnSet(g, S)
  <1> DEFINE Bad == {s \in SUBSET S : SumFunctionOnSet(f, s) # SumFunctionOnSet(g, s)}
  <1>1. SUFFICES ASSUME Bad # {} PROVE FALSE
    <2>1. S \in SUBSET S
      OBVIOUS
    <2>2. QED
      BY <2>1
  <1>2. PICK s \in Bad : \A u \in SUBSET s : u # s => u \notin Bad
    <2>1. Bad \in SUBSET SUBSET S
      OBVIOUS
    <2> HIDE DEF Bad
    <2>2. QED
      BY <1>1, <2>1, SmallestSubset
  <1>3. IsFiniteSet(s) /\ s # {}
    BY SumOfNone, FS_Subset
  <1> DEFINE u == s \ {Chosen(s)}
  <1>4. Chosen(s) \in S /\ u \in SUBSET S /\ u \in SUBSET s /\ u # s
    BY <1>3, ChosenIn
  <1>5. SumFunctionOnSet(f, u) = SumFunctionOnSet(g, u)
    BY <1>2, <1>4
  <1>6. /\ SumFunctionOnSet(f, s) = f[Chosen(s)] + SumFunctionOnSet(f, u)
        /\ SumFunctionOnSet(g, s) = g[Chosen(s)] + SumFunctionOnSet(g, u)
    BY <1>3, SumRecursion
  <1>7. QED
    BY <1>4, <1>5, <1>6

\* When one term changes the sum changes by as much.
LEMMA SumChange ==
    ASSUME NEW S, IsFiniteSet(S), NEW e \in S,
           NEW f, \A x \in S : f[x] \in Int, NEW g, \A x \in S : g[x] \in Int,
           \A x \in S : x # e => g[x] = f[x]
    PROVE  SumFunctionOnSet(g, S) = SumFunctionOnSet(f, S) - f[e] + g[e]
  <1> DEFINE T == S \ {e}
  <1>1. IsFiniteSet(T)
    BY FS_Subset
  <1>2. SumFunctionOnSet(f, T) = SumFunctionOnSet(g, T) /\ SumFunctionOnSet(f, T) \in Int
    BY <1>1, SumSame, SumInt
  <1>3. /\ SumFunctionOnSet(f, S) = f[e] + SumFunctionOnSet(f, T)
        /\ SumFunctionOnSet(g, S) = g[e] + SumFunctionOnSet(g, T)
    BY SumTakeOut
  <1>4. QED
    BY <1>2, <1>3

\* No terms but zeros.
LEMMA SumOfZeros ==
    ASSUME NEW S, IsFiniteSet(S), NEW f, \A x \in S : f[x] = 0
    PROVE  SumFunctionOnSet(f, S) = 0
  <1> DEFINE Bad == {s \in SUBSET S : SumFunctionOnSet(f, s) # 0}
  <1>1. SUFFICES ASSUME Bad # {} PROVE FALSE
    <2>1. S \in SUBSET S
      OBVIOUS
    <2>2. QED
      BY <2>1
  <1>2. PICK s \in Bad : \A u \in SUBSET s : u # s => u \notin Bad
    <2>1. Bad \in SUBSET SUBSET S
      OBVIOUS
    <2> HIDE DEF Bad
    <2>2. QED
      BY <1>1, <2>1, SmallestSubset
  <1>3. IsFiniteSet(s) /\ s # {}
    BY SumOfNone, FS_Subset
  <1> DEFINE u == s \ {Chosen(s)}
  <1>4. Chosen(s) \in S /\ u \in SUBSET S /\ u \in SUBSET s /\ u # s
    BY <1>3, ChosenIn
  <1>5. SumFunctionOnSet(f, u) = 0
    BY <1>2, <1>4
  <1>6. SumFunctionOnSet(f, s) = f[Chosen(s)] + SumFunctionOnSet(f, u)
    BY <1>3, SumRecursion
  <1>7. QED
    BY <1>4, <1>5, <1>6

\* The sum of two disjoint sets is the sum of their sums.
LEMMA SumOfUnion ==
    ASSUME NEW S, IsFiniteSet(S), NEW T, IsFiniteSet(T), S \cap T = {},
           NEW f, \A x \in S \cup T : f[x] \in Int
    PROVE  SumFunctionOnSet(f, S \cup T) = SumFunctionOnSet(f, S) + SumFunctionOnSet(f, T)
  <1> DEFINE Bad == {s \in SUBSET S : SumFunctionOnSet(f, s \cup T) # SumFunctionOnSet(f, s) + SumFunctionOnSet(f, T)}
  <1>1. SUFFICES ASSUME Bad # {} PROVE FALSE
    <2>1. S \in SUBSET S
      OBVIOUS
    <2>2. QED
      BY <2>1
  <1>2. PICK s \in Bad : \A u \in SUBSET s : u # s => u \notin Bad
    <2>1. Bad \in SUBSET SUBSET S
      OBVIOUS
    <2> HIDE DEF Bad
    <2>2. QED
      BY <1>1, <2>1, SmallestSubset
  <1>3. /\ IsFiniteSet(s) /\ IsFiniteSet(s \cup T)
        /\ \A x \in s \cup T : f[x] \in Int
        /\ SumFunctionOnSet(f, T) \in Int
    BY FS_Subset, FS_Union, SumInt
  <1>4. s # {}
    <2>1. SUFFICES ASSUME s = {} PROVE FALSE
      OBVIOUS
    <2>2. s \cup T = T /\ SumFunctionOnSet(f, s) = 0
      BY <2>1, SumOfNone
    <2>3. SumFunctionOnSet(f, s \cup T) = SumFunctionOnSet(f, s) + SumFunctionOnSet(f, T)
      BY <1>3, <2>2
    <2>4. QED
      BY <2>3
  <1>5. PICK e \in s : TRUE
    BY <1>4
  <1> DEFINE u == s \ {e}
  <1>6. /\ e \in S /\ e \in s \cup T /\ u \in SUBSET s /\ u # s /\ u \in SUBSET S
        /\ (s \cup T) \ {e} = u \cup T
    OBVIOUS
  <1>7. /\ SumFunctionOnSet(f, s) = f[e] + SumFunctionOnSet(f, u)
        /\ SumFunctionOnSet(f, s \cup T) = f[e] + SumFunctionOnSet(f, u \cup T)
    BY <1>3, <1>6, SumTakeOut
  <1>8. /\ IsFiniteSet(u) /\ \A x \in u : f[x] \in Int
        /\ f[e] \in Int
    BY <1>3, <1>6, FS_Subset
  <1>9. SumFunctionOnSet(f, u) \in Int
    BY <1>8, SumInt
  <1>10. SumFunctionOnSet(f, u \cup T) = SumFunctionOnSet(f, u) + SumFunctionOnSet(f, T)
    BY <1>2, <1>6
  <1> HIDE DEF u
  <1>11. SumFunctionOnSet(f, s \cup T) = SumFunctionOnSet(f, s) + SumFunctionOnSet(f, T)
    BY <1>3, <1>7, <1>8, <1>9, <1>10
  <1>12. QED
    BY <1>11

\* Smaller terms give a smaller sum.
LEMMA SumLess ==
    ASSUME NEW S, IsFiniteSet(S),
           NEW f, \A x \in S : f[x] \in Int, NEW g, \A x \in S : g[x] \in Int,
           \A x \in S : f[x] <= g[x]
    PROVE  SumFunctionOnSet(f, S) <= SumFunctionOnSet(g, S)
  <1> DEFINE Bad == {s \in SUBSET S : ~ (SumFunctionOnSet(f, s) <= SumFunctionOnSet(g, s))}
  <1>1. SUFFICES ASSUME Bad # {} PROVE FALSE
    <2>1. S \in SUBSET S
      OBVIOUS
    <2>2. QED
      BY <2>1
  <1>2. PICK s \in Bad : \A u \in SUBSET s : u # s => u \notin Bad
    <2>1. Bad \in SUBSET SUBSET S
      OBVIOUS
    <2> HIDE DEF Bad
    <2>2. QED
      BY <1>1, <2>1, SmallestSubset
  <1>3. IsFiniteSet(s) /\ s # {}
    <2>1. SUFFICES ASSUME s = {} PROVE FALSE
      BY FS_Subset
    <2>2. SumFunctionOnSet(f, s) = 0 /\ SumFunctionOnSet(g, s) = 0
      BY <2>1, SumOfNone
    <2>3. QED
      BY <2>2
  <1> DEFINE u == s \ {Chosen(s)}
  <1>4. Chosen(s) \in S /\ u \in SUBSET S /\ u \in SUBSET s /\ u # s
    BY <1>3, ChosenIn
  <1>5. SumFunctionOnSet(f, u) <= SumFunctionOnSet(g, u)
    BY <1>2, <1>4
  <1>6. /\ SumFunctionOnSet(f, s) = f[Chosen(s)] + SumFunctionOnSet(f, u)
        /\ SumFunctionOnSet(g, s) = g[Chosen(s)] + SumFunctionOnSet(g, u)
    BY <1>3, SumRecursion
  <1>7. SumFunctionOnSet(f, u) \in Int /\ SumFunctionOnSet(g, u) \in Int
    BY <1>4, FS_Subset, SumInt
  <1>8. QED
    BY <1>4, <1>5, <1>6, <1>7

\* Sums of naturals are naturals, and a part is no more than the whole.
LEMMA SumNat ==
    ASSUME NEW S, IsFiniteSet(S), NEW f, \A x \in S : f[x] \in Nat
    PROVE  SumFunctionOnSet(f, S) \in Nat
  <1> DEFINE z == [x \in S |-> 0]
  <1>1. \A x \in S : z[x] \in Int /\ z[x] <= f[x] /\ f[x] \in Int
    OBVIOUS
  <1>2. SumFunctionOnSet(z, S) = 0
    BY SumOfZeros
  <1> HIDE DEF z
  <1>3. SumFunctionOnSet(z, S) <= SumFunctionOnSet(f, S) /\ SumFunctionOnSet(f, S) \in Int
    BY <1>1, SumLess, SumInt
  <1>4. QED
    BY <1>2, <1>3

LEMMA SumOfPart ==
    ASSUME NEW S, IsFiniteSet(S), NEW T \in SUBSET S, NEW f, \A x \in S : f[x] \in Nat
    PROVE  SumFunctionOnSet(f, T) <= SumFunctionOnSet(f, S)
  <1> DEFINE U == S \ T
  <1>1. IsFiniteSet(T) /\ IsFiniteSet(U) /\ T \cap U = {} /\ T \cup U = S
    BY FS_Subset
  <1>2. SumFunctionOnSet(f, S) = SumFunctionOnSet(f, T) + SumFunctionOnSet(f, U)
    <2>1. \A x \in T \cup U : f[x] \in Int
      OBVIOUS
    <2> HIDE DEF U
    <2>2. SumFunctionOnSet(f, T \cup U) = SumFunctionOnSet(f, T) + SumFunctionOnSet(f, U)
      BY <1>1, <2>1, SumOfUnion
    <2>3. QED
      BY <1>1, <2>2
  <1>3. SumFunctionOnSet(f, T) \in Nat /\ SumFunctionOnSet(f, U) \in Nat
    BY <1>1, SumNat
  <1>4. QED
    BY <1>2, <1>3

\* The others may as well count as 0: the sum over a part, taken over the whole.
LEMMA SumOfChosen ==
    ASSUME NEW S, IsFiniteSet(S), NEW T \in SUBSET S, NEW f, \A x \in S : f[x] \in Int,
           NEW g, \A x \in S : g[x] = IF x \in T THEN f[x] ELSE 0
    PROVE  SumFunctionOnSet(g, S) = SumFunctionOnSet(f, T)
  <1> DEFINE U == S \ T
  <1>1. IsFiniteSet(T) /\ IsFiniteSet(U) /\ T \cap U = {} /\ T \cup U = S
    BY FS_Subset
  <1>2. \A x \in T : g[x] = f[x]
    OBVIOUS
  <1>3. \A x \in U : g[x] = 0
    OBVIOUS
  <1>4. \A x \in T \cup U : g[x] \in Int
    OBVIOUS
  <1> HIDE DEF U
  <1>5. SumFunctionOnSet(g, T \cup U) = SumFunctionOnSet(g, T) + SumFunctionOnSet(g, U)
    BY <1>1, <1>4, SumOfUnion
  <1>6. SumFunctionOnSet(g, T) = SumFunctionOnSet(f, T)
    BY <1>1, <1>2, SumSame
  <1>7. SumFunctionOnSet(g, U) = 0
    BY <1>1, <1>3, SumOfZeros
  <1>8. SumFunctionOnSet(f, T) \in Int
    <2>1. \A x \in T : f[x] \in Int
      OBVIOUS
    <2>2. QED
      BY <1>1, <2>1, SumInt
  <1>9. QED
    BY <1>1, <1>5, <1>6, <1>7, <1>8

\* Ones add up to the size of the set.
LEMMA SumOfOnes ==
    ASSUME NEW S, IsFiniteSet(S), NEW f, \A x \in S : f[x] = 1
    PROVE  SumFunctionOnSet(f, S) = Cardinality(S)
  <1> DEFINE Bad == {s \in SUBSET S : SumFunctionOnSet(f, s) # Cardinality(s)}
  <1>1. SUFFICES ASSUME Bad # {} PROVE FALSE
    <2>1. S \in SUBSET S
      OBVIOUS
    <2>2. QED
      BY <2>1
  <1>2. PICK T \in Bad : \A U \in SUBSET T : U # T => U \notin Bad
    <2>1. Bad \in SUBSET SUBSET S
      OBVIOUS
    <2> HIDE DEF Bad
    <2>2. QED
      BY <1>1, <2>1, SmallestSubset
  <1>3. IsFiniteSet(T)
    BY <1>2, FS_Subset
  <1>4. CASE T = {}
    <2>1. SumFunctionOnSet(f, {}) = 0 /\ Cardinality({}) = 0
      BY SumOfNone, FS_EmptySet
    <2>2. QED
      BY <1>2, <1>4, <2>1
  <1>5. CASE T # {}
    <2>1. PICK e \in T : TRUE
      BY <1>5
    <2> DEFINE U == T \ {e}
    <2>2. U \in SUBSET T /\ U # T /\ T \in SUBSET S /\ e \notin U /\ T = U \cup {e}
      BY <1>2, <2>1
    <2>3. SumFunctionOnSet(f, U) = Cardinality(U)
      BY <1>2, <2>2
    <2>4. SumFunctionOnSet(f, T) = f[e] + SumFunctionOnSet(f, U)
      BY <1>2, <1>3, <2>1, SumTakeOut
    <2>5. IsFiniteSet(U) /\ Cardinality(U) \in Nat
      BY <1>3, <2>2, FS_Subset, FS_CardinalityType
    <2> HIDE DEF U
    <2>6. Cardinality(T) = Cardinality(U) + 1
      BY <2>2, <2>5, FS_AddElement
    <2>7. f[e] = 1
      BY <1>2, <2>1
    <2>8. SumFunctionOnSet(f, T) = Cardinality(T)
      BY <2>3, <2>4, <2>5, <2>6, <2>7
    <2>9. QED
      BY <1>2, <2>8
  <1>6. QED
    BY <1>4, <1>5

ClassOf(S, cls, k) == {x \in S : cls[x] = k}

\* g has the sum of f over each of the classes K.
ClassSums(f, S, cls, g, K) == \A k \in K : g[k] = SumFunctionOnSet(f, ClassOf(S, cls, k))

\* A sum taken class by class, for a partition into the classes K.
LEMMA SumByClass ==
    ASSUME NEW S, IsFiniteSet(S), NEW f, \A x \in S : f[x] \in Int,
           NEW K, IsFiniteSet(K), NEW cls, \A x \in S : cls[x] \in K,
           NEW g, ClassSums(f, S, cls, g, K)
    PROVE  SumFunctionOnSet(f, S) = SumFunctionOnSet(g, K)
  <1> DEFINE Of(s) == {x \in S : cls[x] \in s}
             Bad == {s \in SUBSET K : SumFunctionOnSet(f, Of(s)) # SumFunctionOnSet(g, s)}
  <1>0. \A k \in K : g[k] \in Int
    <2> SUFFICES ASSUME NEW k \in K PROVE g[k] \in Int
      OBVIOUS
    <2> DEFINE R == ClassOf(S, cls, k)
    <2>1. IsFiniteSet(R) /\ \A x \in R : f[x] \in Int
      BY FS_Subset DEF ClassOf
    <2> HIDE DEF R
    <2>2. SumFunctionOnSet(f, R) \in Int
      BY <2>1, SumInt
    <2>3. QED
      BY <2>2 DEF R, ClassSums
  <1>1. SUFFICES ASSUME Bad # {} PROVE FALSE
    <2>1. K \in SUBSET K /\ Of(K) = S
      OBVIOUS
    <2>2. QED
      BY <2>1
  <1>2. PICK T \in Bad : \A U \in SUBSET T : U # T => U \notin Bad
    <2>1. Bad \in SUBSET SUBSET K
      OBVIOUS
    <2> HIDE DEF Bad
    <2>2. QED
      BY <1>1, <2>1, SmallestSubset
  <1>3. IsFiniteSet(T) /\ T \in SUBSET K
    BY <1>2, FS_Subset
  <1>4. CASE T = {}
    <2>1. Of(T) = {}
      BY <1>4
    <2>2. SumFunctionOnSet(f, {}) = 0 /\ SumFunctionOnSet(g, {}) = 0
      BY SumOfNone
    <2>3. QED
      BY <1>2, <1>4, <2>1, <2>2
  <1>5. CASE T # {}
    <2>1. PICK e \in T : TRUE
      BY <1>5
    <2> DEFINE U == T \ {e}
               R == ClassOf(S, cls, e)
               V == Of(U)
    <2>2. U \in SUBSET T /\ U # T /\ U \in SUBSET K /\ e \in K
      BY <1>3, <2>1
    <2>3. SumFunctionOnSet(f, V) = SumFunctionOnSet(g, U)
      BY <1>2, <2>2
    <2>4. Of(T) = V \cup R /\ V \cap R = {}
      BY <2>1 DEF ClassOf
    <2>5. IsFiniteSet(V) /\ IsFiniteSet(R) /\ \A x \in V \cup R : f[x] \in Int
      BY FS_Subset DEF ClassOf
    <2>6. g[e] = SumFunctionOnSet(f, R)
      BY <2>2 DEF ClassSums
    <2>7. SumFunctionOnSet(g, T) = g[e] + SumFunctionOnSet(g, U)
      BY <1>0, <1>3, <2>1, SumTakeOut
    <2> HIDE DEF V, R, U
    <2>8. SumFunctionOnSet(f, V \cup R) = SumFunctionOnSet(f, V) + SumFunctionOnSet(f, R)
      BY <2>4, <2>5, SumOfUnion
    <2>9. SumFunctionOnSet(f, V) \in Int /\ SumFunctionOnSet(f, R) \in Int
      BY <2>5, SumInt
    <2>10. SumFunctionOnSet(f, Of(T)) = SumFunctionOnSet(g, T)
      <3>1. SumFunctionOnSet(f, Of(T)) = SumFunctionOnSet(f, V) + SumFunctionOnSet(f, R)
        BY <2>4, <2>8, Zenon
      <3>2. SumFunctionOnSet(g, T) = SumFunctionOnSet(f, R) + SumFunctionOnSet(f, V)
        BY <2>3, <2>6, <2>7, Zenon
      <3>3. QED
        BY <2>9, <3>1, <3>2
    <2>11. QED
      BY <1>2, <2>10
  <1>6. QED
    BY <1>4, <1>5

Renamed(b, S) == {b[x] : x \in S}

\* The sum does not depend on the names of the elements.
LEMMA SumRenamed ==
    ASSUME NEW S, IsFiniteSet(S), NEW f, \A x \in S : f[x] \in Int,
           NEW b, \A x, y \in S : b[x] = b[y] => x = y,
           NEW g, \A x \in S : g[b[x]] = f[x]
    PROVE  SumFunctionOnSet(g, Renamed(b, S)) = SumFunctionOnSet(f, S)
  <1> DEFINE Of(s) == {b[x] : x \in s}
             Bad == {s \in SUBSET S : ~ (/\ IsFiniteSet(Of(s))
                                         /\ SumFunctionOnSet(g, Of(s)) = SumFunctionOnSet(f, s))}
  <1>1. SUFFICES ASSUME Bad # {} PROVE FALSE
    <2>1. S \in SUBSET S /\ Of(S) = Renamed(b, S)
      BY DEF Renamed
    <2>2. QED
      BY <2>1
  <1>2. PICK T \in Bad : \A U \in SUBSET T : U # T => U \notin Bad
    <2>1. Bad \in SUBSET SUBSET S
      OBVIOUS
    <2> HIDE DEF Bad
    <2>2. QED
      BY <1>1, <2>1, SmallestSubset
  <1>3. IsFiniteSet(T) /\ T \in SUBSET S
    BY <1>2, FS_Subset
  <1>4. CASE T = {}
    <2>1. Of(T) = {}
      BY <1>4
    <2>2. SumFunctionOnSet(f, {}) = 0 /\ SumFunctionOnSet(g, {}) = 0 /\ IsFiniteSet({})
      BY SumOfNone, FS_EmptySet
    <2>3. QED
      BY <1>2, <1>4, <2>1, <2>2
  <1>5. CASE T # {}
    <2>1. PICK e \in T : TRUE
      BY <1>5
    <2> DEFINE U == T \ {e}
               V == Of(U)
    <2>2. U \in SUBSET T /\ U # T /\ U \in SUBSET S
      BY <1>3, <2>1
    <2>3. SumFunctionOnSet(g, V) = SumFunctionOnSet(f, U) /\ IsFiniteSet(V)
      BY <1>2, <2>2
    <2>4. Of(T) = V \cup {b[e]} /\ b[e] \notin V
      BY <1>3, <2>1
    <2>5. /\ \A y \in V \cup {b[e]} : g[y] \in Int
          /\ g[b[e]] = f[e]
      BY <1>3, <2>1, <2>2
    <2>6. SumFunctionOnSet(f, T) = f[e] + SumFunctionOnSet(f, U)
      BY <1>3, <2>1, SumTakeOut
    <2> HIDE DEF V, U
    <2>7. SumFunctionOnSet(g, V \cup {b[e]}) = g[b[e]] + SumFunctionOnSet(g, V)
      BY <2>3, <2>4, <2>5, SumAdd
    <2>8. IsFiniteSet(V \cup {b[e]})
      BY <2>3, FS_AddElement
    <2>9. SumFunctionOnSet(g, Of(T)) = SumFunctionOnSet(f, T) /\ IsFiniteSet(Of(T))
      BY <2>3, <2>4, <2>5, <2>6, <2>7, <2>8
    <2>10. QED
      BY <1>2, <2>9
  <1>6. QED
    BY <1>4, <1>5

----------------------------------------------------------------------------
\* Induction up to a bound.
LEMMA UpTo ==
    ASSUME NEW n \in Nat, NEW T, 0 \in T, \A k \in 0 .. n - 1 : k \in T => k + 1 \in T
    PROVE  \A k \in 0 .. n : k \in T
  <1> DEFINE Bad == {k \in 0 .. n : k \notin T}
  <1>1. SUFFICES ASSUME Bad # {} PROVE FALSE
    OBVIOUS
  <1>2. PICK k \in Bad : \A j \in Bad : k <= j
    <2>1. Bad \in SUBSET Nat
      OBVIOUS
    <2> HIDE DEF Bad
    <2>2. QED
      BY <1>1, <2>1, LeastNatural
  <1>3. k \in 1 .. n /\ k - 1 \in 0 .. n - 1 /\ k - 1 \in 0 .. n /\ (k - 1) + 1 = k
    OBVIOUS
  <1>4. k - 1 \in T
    BY <1>2, <1>3
  <1>5. QED
    BY <1>3, <1>4

\* A loop over a sequence has a table of its intermediate results.
Loops(c, base, step, s) == c[0] = base /\ \A k \in 1 .. Len(s) : c[k] = step[<<c[k - 1], s[k]>>]

\* It exists whenever the step stays in the type.
LEMMA LoopRuns ==
    ASSUME NEW A, NEW M, NEW base \in A, NEW step \in [A \X M -> A], NEW s \in Seq(M)
    PROVE  \E c \in [0 .. Len(s) -> A] : Loops(c, base, step, s)
  <1> DEFINE n == Len(s)
             Runs(c, k) == c[0] = base /\ \A j \in 1 .. k : c[j] = step[<<c[j - 1], s[j]>>]
             T == {k \in 0 .. n : \E c \in [0 .. k -> A] : Runs(c, k)}
  <1>1. n \in Nat /\ \A k \in 1 .. n : s[k] \in M
    OBVIOUS
  <1> HIDE DEF n
  <1>2. 0 \in T
    <2>1. [k \in 0 .. 0 |-> base] \in [0 .. 0 -> A] /\ Runs([k \in 0 .. 0 |-> base], 0)
      OBVIOUS
    <2>2. 0 \in 0 .. n
      BY <1>1
    <2> DEFINE c == [k \in 0 .. 0 |-> base]
    <2>3. c \in [0 .. 0 -> A] /\ Runs(c, 0)
      BY <2>1
    <2> HIDE DEF c
    <2>4. QED
      BY <2>2, <2>3
  <1>3. ASSUME NEW k \in 0 .. n - 1, k \in T
        PROVE  k + 1 \in T
    <2>1. PICK c \in [0 .. k -> A] : Runs(c, k)
      BY <1>3
    <2> DEFINE d == [j \in 0 .. k + 1 |-> IF j = k + 1 THEN step[<<c[k], s[k + 1]>>] ELSE c[j]]
    <2>2. /\ k \in Nat /\ k + 1 \in 1 .. n /\ k + 1 \in 0 .. n /\ 0 \in 0 .. k /\ k \in 0 .. k
          /\ 0 \in 0 .. k + 1 /\ \A j \in 1 .. k : j \in 0 .. k /\ j - 1 \in 0 .. k
          /\ \A j \in 0 .. k : j \in 0 .. k + 1 /\ j # k + 1
          /\ \A j \in 1 .. k + 1 : j \in 1 .. k \/ j = k + 1
          /\ k + 1 \in 0 .. k + 1 /\ (k + 1) - 1 = k
          /\ \A j \in 0 .. k + 1 : j \in 0 .. k \/ j = k + 1
      BY <1>1
    <2>3. <<c[k], s[k + 1]>> \in A \X M
      BY <1>1, <2>2
    <2>4. \A j \in 0 .. k + 1 : d[j] \in A
      BY <2>2, <2>3
    <2>5. d \in [0 .. k + 1 -> A]
      BY <2>4
    <2>6. \A j \in 0 .. k : d[j] = c[j]
      BY <2>2
    <2>7. d[k + 1] = step[<<c[k], s[k + 1]>>]
      BY <2>2
    <2> HIDE DEF d
    <2>8. Runs(d, k + 1)
      <3>1. d[0] = base
        BY <2>1, <2>2, <2>6
      <3>2. ASSUME NEW j \in 1 .. k + 1 PROVE d[j] = step[<<d[j - 1], s[j]>>]
        <4>1. CASE j = k + 1
          BY <2>2, <2>6, <2>7, <4>1
        <4>2. CASE j \in 1 .. k
          BY <2>1, <2>2, <2>6, <4>2
        <4>3. QED
          BY <2>2, <4>1, <4>2
      <3>3. QED
        BY <3>1, <3>2
    <2>9. QED
      BY <2>2, <2>5, <2>8
  <1>4. n \in 0 .. n
    BY <1>1
  <1>5. n \in T
    <2> HIDE DEF T
    <2>1. QED
      BY <1>1, <1>2, <1>3, <1>4, UpTo
  <1>6. QED
    BY <1>5 DEF Loops, n

\* What FlattenSeq computes: the concatenation of longer and longer prefixes.
Flattens(c, ss) ==
    /\ c[0] = <<>>
    /\ \A k \in 1 .. Len(ss) : c[k] = c[k - 1] \o ss[k]
    /\ FlattenSeq(ss) = c[Len(ss)]

\* FlattenSeq has such a table.
LEMMA FlattenTable ==
    ASSUME NEW S, NEW ss \in Seq(Seq(S))
    PROVE  \E c \in [0 .. Len(ss) -> Seq(S)] : Flattens(c, ss)
  <1> DEFINE n == Len(ss)
             A == Seq(S)
             step == [p \in A \X A |-> p[1] \o p[2]]
  <1>1. n \in Nat /\ \A k \in 1 .. n : ss[k] \in A
    OBVIOUS
  <1>2. PICK c \in [0 .. n -> A] : Loops(c, <<>>, step, ss)
    <2>1. step \in [A \X A -> A]
      <3>1. \A p \in A \X A : p[1] \o p[2] \in A
        OBVIOUS
      <3> HIDE DEF A
      <3>2. QED
        BY <3>1
    <2>2. <<>> \in A /\ ss \in Seq(A)
      OBVIOUS
    <2> HIDE DEF A, step
    <2>3. QED
      BY <2>1, <2>2, LoopRuns
  <1>3. c[0] = <<>> /\ \A k \in 1 .. n : c[k] = c[k - 1] \o ss[k]
    <2>1. c[0] = <<>> /\ \A k \in 1 .. n : c[k] = step[<<c[k - 1], ss[k]>>]
      BY <1>2 DEF Loops
    <2>2. \A k \in 1 .. n : c[k - 1] \in A /\ ss[k] \in A
      <3>1. \A k \in 1 .. n : k - 1 \in 0 .. n
        BY <1>1
      <3> HIDE DEF A
      <3>2. QED
        BY <1>1, <1>2, <3>1
    <2>3. \A a, b \in A : step[<<a, b>>] = a \o b
      OBVIOUS
    <2> HIDE DEF A, step
    <2>4. QED
      BY <2>1, <2>2, <2>3
  <1>4. FlattenSeq(ss) = c[n]
    <2>1. CASE n = 0
      BY <1>3, <2>1 DEF FlattenSeq
    <2>2. CASE n # 0
      <3>0. c[1] = ss[1]
        <4>1. 1 \in 1 .. n /\ 1 - 1 = 0
          BY <1>1, <2>2
        <4>2. c[1] = <<>> \o ss[1] /\ ss[1] \in Seq(S)
          BY <1>1, <1>3, <4>1
        <4>3. QED
          BY <4>2, ConcatEmptySeq
      <3> DEFINE F(f) == [i \in 1 .. n |-> IF i = 1 THEN ss[i] ELSE f[i - 1] \o ss[i]]
                 fl == CHOOSE f : f = F(f)
                 g == [i \in 1 .. n |-> c[i]]
      <3>1. FlattenSeq(ss) = fl[n]
        BY <2>2 DEF FlattenSeq
      <3>2. g = F(g)
        <4>1. c[1] = ss[1]
          BY <3>0
        <4>2. \A i \in 1 .. n : i # 1 => g[i - 1] = c[i - 1] /\ i - 1 \in 1 .. n
          BY <1>1
        <4>3. \A i \in 1 .. n : c[i] = IF i = 1 THEN ss[i] ELSE g[i - 1] \o ss[i]
          <5> HIDE DEF g
          <5>1. QED
            BY <1>3, <4>1, <4>2
        <4>4. QED
          BY <4>3
      <3>3. fl = F(fl)
        <4> HIDE DEF F
        <4>1. QED
          BY <3>2
      <3> HIDE DEF fl, g
      <3>4. \A i \in 1 .. n : fl[i] = IF i = 1 THEN ss[i] ELSE fl[i - 1] \o ss[i]
        BY <3>3
      <3> DEFINE T == {k \in 0 .. n : k # 0 => fl[k] = c[k]}
      <3>5. 0 \in T
        BY <1>1
      <3>6. ASSUME NEW k \in 0 .. n - 1, k \in T PROVE k + 1 \in T
        <4>1. k + 1 \in 1 .. n /\ k + 1 \in 0 .. n /\ (k + 1) - 1 = k /\ (k + 1 = 1 <=> k = 0)
          BY <1>1
        <4>2. fl[k + 1] = IF k = 0 THEN ss[1] ELSE fl[k] \o ss[k + 1]
          BY <3>4, <4>1
        <4>3. c[k + 1] = c[k] \o ss[k + 1]
          BY <1>3, <4>1
        <4>4. CASE k = 0
          BY <3>0, <4>1, <4>2, <4>4
        <4>5. CASE k # 0
          BY <3>6, <4>1, <4>2, <4>3, <4>5
        <4>6. QED
          BY <4>4, <4>5
      <3> HIDE DEF T
      <3>7. n \in T
        <4>1. \A k \in 0 .. n : k \in T
          BY <1>1, <3>5, <3>6, UpTo
        <4>2. QED
          BY <1>1, <4>1
      <3>8. QED
        BY <2>2, <3>1, <3>7 DEF T
    <2>3. QED
      BY <2>1, <2>2
  <1>5. QED
    BY <1>3, <1>4 DEF Flattens

\* Nothing gives nothing.
LEMMA FlattenOfNone == FlattenSeq(<<>>) = <<>>
  BY DEF FlattenSeq

\* The type of what is flattened.
LEMMA FlattenTyped ==
    ASSUME NEW S, NEW ss \in Seq(Seq(S))
    PROVE  FlattenSeq(ss) \in Seq(S)
  <1>1. PICK c \in [0 .. Len(ss) -> Seq(S)] : Flattens(c, ss)
    BY FlattenTable
  <1>2. Len(ss) \in 0 .. Len(ss)
    OBVIOUS
  <1>3. QED
    BY <1>1, <1>2 DEF Flattens

\* Flattening two lists of sequences one after the other.
LEMMA FlattenCat ==
    ASSUME NEW S, NEW as \in Seq(Seq(S)), NEW bs \in Seq(Seq(S))
    PROVE  FlattenSeq(as \o bs) = FlattenSeq(as) \o FlattenSeq(bs)
  <1> DEFINE cs == as \o bs
             m == Len(as)
             n == Len(bs)
  <1>1. /\ m \in Nat /\ n \in Nat /\ cs \in Seq(Seq(S)) /\ Len(cs) = m + n
        /\ \A k \in 1 .. m : cs[k] = as[k]
        /\ \A k \in 1 .. n : cs[m + k] = bs[k] /\ bs[k] \in Seq(S)
    <2>1. /\ m \in Nat /\ n \in Nat /\ cs \in Seq(Seq(S)) /\ Len(cs) = m + n
          /\ \A i \in 1 .. m + n : cs[i] = IF i <= m THEN as[i] ELSE bs[i - m]
      <3>1. /\ as \o bs \in Seq(Seq(S)) /\ Len(as \o bs) = Len(as) + Len(bs)
            /\ \A i \in 1 .. Len(as) + Len(bs) : (as \o bs)[i] =
                     IF i <= Len(as) THEN as[i] ELSE bs[i - Len(as)]
        BY ConcatProperties
      <3>2. Len(as) \in Nat /\ Len(bs) \in Nat
        BY LenProperties
      <3>3. QED
        BY <3>1, <3>2
    <2>2. \A k \in 1 .. n : bs[k] \in Seq(S)
      OBVIOUS
    <2> HIDE DEF cs, m, n
    <2>3. \A k \in 1 .. m : k \in 1 .. m + n /\ k <= m
      BY <2>1
    <2>4. \A k \in 1 .. n : m + k \in 1 .. m + n /\ ~ (m + k <= m) /\ (m + k) - m = k
      BY <2>1
    <2>5. QED
      BY <2>1, <2>2, <2>3, <2>4
  <1>2. PICK a \in [0 .. m -> Seq(S)] : Flattens(a, as)
    BY FlattenTable
  <1>3. PICK b \in [0 .. n -> Seq(S)] : Flattens(b, bs)
    BY FlattenTable
  <1>4. PICK c \in [0 .. m + n -> Seq(S)] : Flattens(c, cs)
    <2> HIDE DEF cs
    <2>1. PICK c \in [0 .. Len(cs) -> Seq(S)] : Flattens(c, cs)
      BY <1>1, FlattenTable
    <2>2. QED
      BY <1>1, <2>1
  <1> HIDE DEF cs, m, n
  <1>5. /\ a[0] = <<>> /\ \A k \in 1 .. m : a[k] = a[k - 1] \o as[k]
        /\ b[0] = <<>> /\ \A k \in 1 .. n : b[k] = b[k - 1] \o bs[k]
        /\ c[0] = <<>> /\ \A k \in 1 .. m + n : c[k] = c[k - 1] \o cs[k]
    BY <1>1, <1>2, <1>3, <1>4 DEF Flattens, m, n
  <1>6. c[m] = a[m]
    <2> DEFINE T == {k \in 0 .. m : c[k] = a[k]}
    <2>1. 0 \in T
      BY <1>1, <1>5
    <2>2. ASSUME NEW k \in 0 .. m - 1, k \in T PROVE k + 1 \in T
      <3>1. k + 1 \in 1 .. m /\ k + 1 \in 1 .. m + n /\ (k + 1) - 1 = k /\ k + 1 \in 0 .. m
        BY <1>1
      <3>2. c[k + 1] = c[k] \o cs[k + 1] /\ a[k + 1] = a[k] \o as[k + 1]
        BY <1>5, <3>1
      <3>3. QED
        BY <1>1, <2>2, <3>1, <3>2
    <2> HIDE DEF T
    <2>3. \A k \in 0 .. m : k \in T
      BY <1>1, <2>1, <2>2, UpTo
    <2>4. QED
      BY <1>1, <2>3 DEF T
  <1>7. c[m + n] = a[m] \o b[n]
    <2> DEFINE T == {k \in 0 .. n : c[m + k] = a[m] \o b[k]}
    <2>1. 0 \in T
      <3>1. 0 \in 0 .. n /\ m + 0 = m /\ a[m] \in Seq(S) /\ m \in 0 .. m
        BY <1>1, <1>2
      <3>2. a[m] \o b[0] = a[m]
        BY <1>5, <3>1, ConcatEmptySeq
      <3>3. QED
        BY <1>6, <3>1, <3>2
    <2>2. ASSUME NEW k \in 0 .. n - 1, k \in T PROVE k + 1 \in T
      <3>1. /\ k + 1 \in 1 .. n /\ m + (k + 1) \in 1 .. m + n /\ (k + 1) - 1 = k
            /\ (m + (k + 1)) - 1 = m + k /\ k + 1 \in 0 .. n
            /\ k \in 0 .. n /\ m \in 0 .. m
        <4>1. k \in Int /\ 0 <= k /\ k <= n - 1 /\ m \in Nat /\ n \in Nat
          BY <1>1
        <4>2. QED
          BY <4>1
      <3>2. c[m + (k + 1)] = c[m + k] \o bs[k + 1] /\ b[k + 1] = b[k] \o bs[k + 1]
        BY <1>1, <1>5, <3>1
      <3>3. a[m] \in Seq(S) /\ b[k] \in Seq(S) /\ bs[k + 1] \in Seq(S)
        BY <1>1, <3>1
      <3>4. (a[m] \o b[k]) \o bs[k + 1] = a[m] \o (b[k] \o bs[k + 1])
        <4>1. \A u, v, w \in Seq(S) : (u \o v) \o w = u \o (v \o w)
          BY ConcatAssociative, SMTT(20)
        <4>2. QED
          BY <3>3, <4>1
      <3>5. QED
        BY <2>2, <3>1, <3>2, <3>4
    <2> HIDE DEF T
    <2>3. \A k \in 0 .. n : k \in T
      BY <1>1, <2>1, <2>2, UpTo
    <2>4. n \in 0 .. n
      BY <1>1
    <2>5. n \in T
      BY <2>3, <2>4
    <2>6. QED
      BY <2>5 DEF T
  <1>8. FlattenSeq(cs) = c[m + n] /\ FlattenSeq(as) = a[m] /\ FlattenSeq(bs) = b[n]
    BY <1>1, <1>2, <1>3, <1>4 DEF Flattens, m, n
  <1>9. QED
    BY <1>7, <1>8 DEF cs

\* A list of one sequence.
LEMMA FlattenOfOne ==
    ASSUME NEW S, NEW b \in Seq(S)
    PROVE  FlattenSeq(<<b>>) = b
  <1>1. Len(<<b>>) = 1 /\ <<b>> \in Seq(Seq(S)) /\ <<b>>[1] = b
    OBVIOUS
  <1>2. PICK c \in [0 .. 1 -> Seq(S)] : Flattens(c, <<b>>)
    BY <1>1, FlattenTable
  <1>3. FlattenSeq(<<b>>) = <<>> \o b
    <2> DEFINE ss == <<b>>
    <2>1. Len(ss) = 1 /\ ss[1] = b
      OBVIOUS
    <2>2. Flattens(c, ss)
      BY <1>2
    <2> HIDE DEF ss
    <2>3. c[1] = c[1 - 1] \o b /\ c[0] = <<>> /\ FlattenSeq(ss) = c[1]
      BY <2>1, <2>2 DEF Flattens
    <2>4. FlattenSeq(ss) = <<>> \o b
      BY <2>3
    <2>5. QED
      BY <2>4 DEF ss
  <1>4. QED
    BY <1>3, ConcatEmptySeq

Has(s, x) == \E i \in DOMAIN s : s[i] = x

\* The elements of a concatenation.
LEMMA CatHas ==
    ASSUME NEW S, NEW s \in Seq(S), NEW t \in Seq(S), NEW x
    PROVE  Has(s \o t, x) <=> Has(s, x) \/ Has(t, x)
  <1>1. /\ Len(s) \in Nat /\ Len(t) \in Nat /\ DOMAIN s = 1 .. Len(s) /\ DOMAIN t = 1 .. Len(t)
        /\ DOMAIN (s \o t) = 1 .. Len(s) + Len(t)
        /\ \A i \in 1 .. Len(s) : (s \o t)[i] = s[i] /\ i \in 1 .. Len(s) + Len(t)
        /\ \A i \in 1 .. Len(t) : (s \o t)[Len(s) + i] = t[i] /\ Len(s) + i \in 1 .. Len(s) + Len(t)
    OBVIOUS
  <1>2. \A i \in 1 .. Len(s) + Len(t) : i \in 1 .. Len(s) \/ \E j \in 1 .. Len(t) : i = Len(s) + j
    <2>1. \A i \in 1 .. Len(s) + Len(t) :
             i \in 1 .. Len(s) \/ (i - Len(s) \in 1 .. Len(t) /\ i = Len(s) + (i - Len(s)))
      BY <1>1
    <2>2. QED
      BY <2>1
  <1>3. ASSUME Has(s \o t, x) PROVE Has(s, x) \/ Has(t, x)
    <2>1. PICK i \in 1 .. Len(s) + Len(t) : (s \o t)[i] = x
      BY <1>1, <1>3 DEF Has
    <2>2. CASE i \in 1 .. Len(s)
      BY <1>1, <2>1, <2>2 DEF Has
    <2>3. CASE \E j \in 1 .. Len(t) : i = Len(s) + j
      BY <1>1, <2>1, <2>3 DEF Has
    <2>4. QED
      BY <1>2, <2>2, <2>3
  <1>4. ASSUME NEW i \in 1 .. Len(s), s[i] = x PROVE Has(s \o t, x)
    BY <1>1, <1>4 DEF Has
  <1>5. ASSUME NEW i \in 1 .. Len(t), t[i] = x PROVE Has(s \o t, x)
    <2>1. Len(s) + i \in DOMAIN (s \o t) /\ (s \o t)[Len(s) + i] = x
      BY <1>1, <1>5
    <2>2. QED
      BY <2>1 DEF Has
  <1>6. Has(s, x) \/ Has(t, x) => Has(s \o t, x)
    BY <1>1, <1>4, <1>5 DEF Has
  <1>7. QED
    BY <1>3, <1>6

\* The elements of a flattened sequence are those of its sequences.
LEMMA FlattenHas ==
    ASSUME NEW S, NEW ss \in Seq(Seq(S)), NEW x
    PROVE  Has(FlattenSeq(ss), x) <=> \E k \in DOMAIN ss : Has(ss[k], x)
  <1> DEFINE n == Len(ss)
  <1>1. n \in Nat /\ DOMAIN ss = 1 .. n /\ \A k \in 1 .. n : ss[k] \in Seq(S)
    OBVIOUS
  <1>2. PICK c \in [0 .. n -> Seq(S)] : Flattens(c, ss)
    BY FlattenTable
  <1>3. /\ c[0] = <<>> /\ \A k \in 1 .. n : c[k] = c[k - 1] \o ss[k]
        /\ FlattenSeq(ss) = c[n]
    BY <1>2 DEF Flattens
  <1> HIDE DEF n
  <1> DEFINE T == {k \in 0 .. n : Has(c[k], x) <=> \E j \in 1 .. k : Has(ss[j], x)}
  <1>4. 0 \in T
    <2>1. ~ Has(c[0], x)
      BY <1>3 DEF Has
    <2>2. ~ \E j \in 1 .. 0 : Has(ss[j], x)
      OBVIOUS
    <2>3. QED
      BY <1>1, <2>1, <2>2
  <1>5. ASSUME NEW k \in 0 .. n - 1, k \in T PROVE k + 1 \in T
    <2>1. k + 1 \in 1 .. n /\ (k + 1) - 1 = k /\ k \in 0 .. n /\ k + 1 \in 0 .. n
      BY <1>1
    <2>2. c[k + 1] = c[k] \o ss[k + 1] /\ c[k] \in Seq(S) /\ ss[k + 1] \in Seq(S)
      BY <1>1, <1>3, <2>1
    <2>3. Has(c[k + 1], x) <=> Has(c[k], x) \/ Has(ss[k + 1], x)
      BY <2>2, CatHas
    <2>4. \A j : j \in 1 .. k + 1 <=> j \in 1 .. k \/ j = k + 1
      BY <1>1
    <2>5. QED
      BY <1>5, <2>1, <2>3, <2>4
  <1> HIDE DEF T
  <1>6. \A k \in 0 .. n : k \in T
    BY <1>1, <1>4, <1>5, UpTo
  <1>7. n \in T
    BY <1>1, <1>6
  <1>8. Has(c[n], x) <=> \E j \in 1 .. n : Has(ss[j], x)
    BY <1>7 DEF T
  <1>9. QED
    BY <1>1, <1>3, <1>8

----------------------------------------------------------------------------
Each(g, s) == [k \in DOMAIN s |-> g[s[k]]]

\* What the elements of a sequence contribute, one after the other.
Gather(g, s) == FlattenSeq(Each(g, s))

\* g gives an element of B for every element of M.
Gives(g, M, B) == \A x \in M : g[x] \in B

\* Type, length and elements of Each.
LEMMA EachTyped ==
    ASSUME NEW M, NEW B, NEW g, Gives(g, M, B), NEW s \in Seq(M)
    PROVE  /\ Each(g, s) \in Seq(B) /\ Len(Each(g, s)) = Len(s) /\ DOMAIN Each(g, s) = DOMAIN s
           /\ \A k \in DOMAIN s : Each(g, s)[k] = g[s[k]]
  <1> DEFINE n == Len(s)
             e == [k \in 1 .. n |-> g[s[k]]]
  <1>1. n \in Nat /\ DOMAIN s = 1 .. n /\ \A k \in 1 .. n : s[k] \in M
    OBVIOUS
  <1> HIDE DEF n
  <1>2. \A k \in 1 .. n : g[s[k]] \in B
    BY <1>1 DEF Gives
  <1>3. e \in [1 .. n -> B]
    BY <1>2
  <1>4. e \in Seq(B)
    <2> HIDE DEF e
    <2>1. QED
      BY <1>1, <1>3, SeqDef
  <1>5. DOMAIN e = 1 .. n /\ \A k \in 1 .. n : e[k] = g[s[k]]
    OBVIOUS
  <1>6. Each(g, s) = e
    BY <1>1 DEF Each
  <1> HIDE DEF e
  <1>7. DOMAIN e = 1 .. Len(e) /\ Len(e) \in Nat
    BY <1>4, LenProperties
  <1>8. Len(e) = n
    BY <1>1, <1>5, <1>7
  <1>9. QED
    BY <1>1, <1>4, <1>5, <1>6, <1>8 DEF n

\* The type of what is gathered.
LEMMA GatherTyped ==
    ASSUME NEW M, NEW S, NEW g, Gives(g, M, Seq(S)), NEW s \in Seq(M)
    PROVE  Each(g, s) \in Seq(Seq(S)) /\ Gather(g, s) \in Seq(S)
  <1>1. Each(g, s) \in Seq(Seq(S))
    BY EachTyped
  <1>2. QED
    BY <1>1, FlattenTyped DEF Gather

\* Nothing is gathered from nothing.
LEMMA GatherOfNone == ASSUME NEW g PROVE Gather(g, <<>>) = <<>>
  <1>1. Each(g, <<>>) = <<>>
    BY DEF Each
  <1>2. QED
    BY <1>1, FlattenOfNone DEF Gather

\* Each of a concatenation.
LEMMA EachCat ==
    ASSUME NEW M, NEW B, NEW g, Gives(g, M, B), NEW s \in Seq(M), NEW t \in Seq(M)
    PROVE  Each(g, s \o t) = Each(g, s) \o Each(g, t)
  <1> DEFINE a == Each(g, s)
             b == Each(g, t)
             u == s \o t
             c == Each(g, u)
             m == Len(s)
             n == Len(t)
  <1>1. /\ m \in Nat /\ n \in Nat /\ DOMAIN s = 1 .. m /\ DOMAIN t = 1 .. n
        /\ u \in Seq(M) /\ Len(u) = m + n /\ DOMAIN u = 1 .. m + n
    OBVIOUS
  <1>2. \A i \in 1 .. m + n : u[i] = IF i <= m THEN s[i] ELSE t[i - m]
    BY ConcatProperties
  <1>3. a \in Seq(B) /\ Len(a) = m /\ \A i \in 1 .. m : a[i] = g[s[i]]
    <2>1. a \in Seq(B) /\ Len(a) = Len(s) /\ \A k \in DOMAIN s : a[k] = g[s[k]]
      BY EachTyped
    <2>2. QED
      BY <1>1, <2>1
  <1>4. b \in Seq(B) /\ Len(b) = n /\ \A i \in 1 .. n : b[i] = g[t[i]]
    <2>1. b \in Seq(B) /\ Len(b) = Len(t) /\ \A k \in DOMAIN t : b[k] = g[t[k]]
      BY EachTyped
    <2>2. QED
      BY <1>1, <2>1
  <1> HIDE DEF u
  <1>5. c \in Seq(B) /\ Len(c) = m + n /\ \A i \in 1 .. m + n : c[i] = g[u[i]]
    <2>1. c \in Seq(B) /\ Len(c) = Len(u) /\ \A k \in DOMAIN u : c[k] = g[u[k]]
      BY <1>1, EachTyped
    <2>2. QED
      BY <1>1, <2>1
  <1> HIDE DEF a, b, c, m, n
  <1>6. /\ a \o b \in Seq(B) /\ Len(a \o b) = m + n
        /\ \A i \in 1 .. m + n : (a \o b)[i] = IF i <= m THEN a[i] ELSE b[i - m]
    BY <1>1, <1>3, <1>4, ConcatProperties
  <1>7. ASSUME NEW i \in 1 .. m + n PROVE c[i] = (a \o b)[i]
    <2>1. CASE i <= m
      <3>1. i \in 1 .. m
        BY <1>1, <2>1
      <3>2. c[i] = g[s[i]]
        BY <1>2, <1>5, <2>1
      <3>3. (a \o b)[i] = a[i]
        BY <1>6, <2>1
      <3>4. QED
        BY <1>3, <3>1, <3>2, <3>3
    <2>2. CASE ~ (i <= m)
      <3>1. i - m \in 1 .. n
        BY <1>1, <2>2
      <3>2. c[i] = g[t[i - m]]
        BY <1>2, <1>5, <2>2
      <3>3. (a \o b)[i] = b[i - m]
        BY <1>6, <2>2
      <3>4. QED
        BY <1>4, <3>1, <3>2, <3>3
    <2>3. QED
      BY <2>1, <2>2
  <1>8. c = a \o b
    BY <1>1, <1>5, <1>6, <1>7, SeqEqual
  <1>9. QED
    BY <1>8 DEF a, b, c, u

\* What is gathered from a concatenation.
LEMMA GatherCat ==
    ASSUME NEW M, NEW S, NEW g, Gives(g, M, Seq(S)), NEW s \in Seq(M), NEW t \in Seq(M)
    PROVE  Gather(g, s \o t) = Gather(g, s) \o Gather(g, t)
  <1>1. Each(g, s) \in Seq(Seq(S)) /\ Each(g, t) \in Seq(Seq(S))
    <2>1. Each(g, s) \in Seq(Seq(S))
      BY GatherTyped
    <2>2. Each(g, t) \in Seq(Seq(S))
      BY GatherTyped
    <2>3. QED
      BY <2>1, <2>2
  <1>2. Each(g, s \o t) = Each(g, s) \o Each(g, t)
    BY EachCat
  <1>3. FlattenSeq(Each(g, s) \o Each(g, t)) = FlattenSeq(Each(g, s)) \o FlattenSeq(Each(g, t))
    BY <1>1, FlattenCat
  <1>4. QED
    BY <1>2, <1>3 DEF Gather

\* What is gathered from one element.
LEMMA GatherOfOne ==
    ASSUME NEW M, NEW S, NEW g, Gives(g, M, Seq(S)), NEW x \in M
    PROVE  Gather(g, <<x>>) = g[x]
  <1>1. Each(g, <<x>>) = <<g[x]>>
    BY DEF Each
  <1>2. g[x] \in Seq(S)
    BY DEF Gives
  <1>3. QED
    BY <1>1, <1>2, FlattenOfOne DEF Gather

\* One element more at the end contributes at the end.
LEMMA GatherOneMore ==
    ASSUME NEW M, NEW S, NEW g, Gives(g, M, Seq(S)), NEW s \in Seq(M), NEW x \in M
    PROVE  Gather(g, Append(s, x)) = Gather(g, s) \o g[x]
  <1> DEFINE t == <<x>>
  <1>1. Append(s, x) = s \o t /\ t \in Seq(M)
    OBVIOUS
  <1>2. Gather(g, t) = g[x]
    BY GatherOfOne
  <1> HIDE DEF t
  <1>3. Gather(g, s \o t) = Gather(g, s) \o Gather(g, t)
    BY <1>1, GatherCat
  <1>4. QED
    BY <1>1, <1>2, <1>3

\* The elements of what is gathered.
LEMMA GatherHas ==
    ASSUME NEW M, NEW S, NEW g, Gives(g, M, Seq(S)), NEW s \in Seq(M), NEW y
    PROVE  Has(Gather(g, s), y) <=> \E k \in DOMAIN s : Has(g[s[k]], y)
  <1> DEFINE ss == Each(g, s)
  <1>1. ss \in Seq(Seq(S)) /\ DOMAIN ss = DOMAIN s /\ \A k \in DOMAIN s : ss[k] = g[s[k]]
    <2>1. ss \in Seq(Seq(S))
      BY GatherTyped
    <2>2. QED
      BY <2>1 DEF Each
  <1> HIDE DEF ss
  <1>2. Has(FlattenSeq(ss), y) <=> \E k \in DOMAIN ss : Has(ss[k], y)
    BY <1>1, FlattenHas
  <1>3. QED
    BY <1>1, <1>2 DEF Gather, ss

\* A loop that gathers has a table too.
LEMMA GatherTable ==
    ASSUME NEW M, NEW S, NEW g, Gives(g, M, Seq(S)), NEW s \in Seq(M)
    PROVE  \E d \in [0 .. Len(s) -> Seq(S)] :
             /\ d[0] = <<>> /\ d[Len(s)] = Gather(g, s)
             /\ \A k \in 1 .. Len(s) : d[k] = d[k - 1] \o g[s[k]]
  <1>1. Each(g, s) \in Seq(Seq(S))
    BY GatherTyped
  <1>2. Len(Each(g, s)) = Len(s) /\ \A k \in DOMAIN s : Each(g, s)[k] = g[s[k]]
    BY EachTyped
  <1>3. PICK d \in [0 .. Len(s) -> Seq(S)] : Flattens(d, Each(g, s))
    <2>1. \E d \in [0 .. Len(Each(g, s)) -> Seq(S)] : Flattens(d, Each(g, s))
      BY <1>1, FlattenTable
    <2>2. QED
      BY <1>2, <2>1
  <1>4. DOMAIN s = 1 .. Len(s)
    OBVIOUS
  <1>5. d[0] = <<>> /\ d[Len(s)] = Gather(g, s)
    BY <1>2, <1>3 DEF Flattens, Gather
  <1>6. \A k \in 1 .. Len(s) : d[k] = d[k - 1] \o Each(g, s)[k]
    BY <1>2, <1>3 DEF Flattens
  <1>7. \A k \in 1 .. Len(s) : d[k] = d[k - 1] \o g[s[k]]
    BY <1>2, <1>4, <1>6
  <1>8. QED
    BY <1>5, <1>7

\* Induction over sequences.
LEMMA Grows ==
    ASSUME NEW M, NEW P, <<>> \in P, \A s \in Seq(M), x \in M : s \in P => Append(s, x) \in P
    PROVE  \A s \in Seq(M) : s \in P
  <1>1. SUFFICES ASSUME NEW s \in Seq(M) PROVE s \in P
    OBVIOUS
  <1> DEFINE n == Len(s)
             Prefix(k) == [i \in 1 .. k |-> s[i]]
             T == {k \in 0 .. n : Prefix(k) \in P}
  <1>2. n \in Nat /\ DOMAIN s = 1 .. n /\ \A k \in 1 .. n : s[k] \in M
    OBVIOUS
  <1> HIDE DEF n
  <1>3. \A k \in 0 .. n : Prefix(k) \in Seq(M)
    <2>1. SUFFICES ASSUME NEW k \in 0 .. n PROVE Prefix(k) \in Seq(M)
      OBVIOUS
    <2>2. k \in Nat /\ \A i \in 1 .. k : s[i] \in M
      BY <1>2
    <2>3. Prefix(k) \in [1 .. k -> M]
      BY <2>2
    <2> HIDE DEF Prefix
    <2>4. QED
      BY <2>2, <2>3, SeqDef
  <1>4. 0 \in T
    <2>1. Prefix(0) = <<>>
      OBVIOUS
    <2>2. 0 \in 0 .. n
      BY <1>2
    <2> HIDE DEF Prefix
    <2>3. QED
      BY <2>1, <2>2
  <1>5. ASSUME NEW k \in 0 .. n - 1, k \in T PROVE k + 1 \in T
    <2>1. k \in 0 .. n /\ k + 1 \in 0 .. n /\ k + 1 \in 1 .. n /\ k \in Nat
      BY <1>2
    <2>2. Append(Prefix(k), s[k + 1]) = Prefix(k + 1)
      <3> DEFINE p == Prefix(k)
                 q == Prefix(k + 1)
      <3>1. /\ DOMAIN p = 1 .. k /\ DOMAIN q = 1 .. k + 1
            /\ \A i \in 1 .. k : p[i] = s[i] /\ q[i] = s[i]
            /\ q[k + 1] = s[k + 1]
        BY <2>1
      <3>2. p \in Seq(M) /\ q \in Seq(M)
        BY <1>3, <2>1
      <3> HIDE DEF p, q
      <3>3. Len(p) = k /\ Len(q) = k + 1
        BY <2>1, <3>1, <3>2, LenProperties
      <3> DEFINE a == Append(p, s[k + 1])
      <3>4. /\ a \in Seq(M) /\ Len(a) = k + 1 /\ a[k + 1] = s[k + 1]
            /\ \A i \in 1 .. k : a[i] = p[i]
        BY <1>2, <2>1, <3>2, <3>3, AppendProperties
      <3> HIDE DEF a
      <3>5. \A i \in 1 .. k + 1 : i \in 1 .. k \/ i = k + 1
        BY <2>1
      <3>6. a = q
        BY <3>1, <3>2, <3>3, <3>4, <3>5, SeqEqual
      <3>7. QED
        BY <3>6 DEF a, p, q
    <2>3. Prefix(k) \in P /\ Prefix(k) \in Seq(M) /\ s[k + 1] \in M
      BY <1>2, <1>3, <1>5, <2>1
    <2> HIDE DEF Prefix
    <2>4. Prefix(k + 1) \in P
      BY <2>2, <2>3
    <2>5. QED
      BY <2>1, <2>4
  <1>6. n \in T
    <2> HIDE DEF T
    <2>1. QED
      BY <1>2, <1>4, <1>5, UpTo, SMTT(20)
  <1>7. Prefix(n) = s
    BY <1>2
  <1>8. QED
    BY <1>6, <1>7

\* Elements that contribute nothing.
LEMMA GatherNothing ==
    ASSUME NEW M, NEW g, \A x \in M : g[x] = <<>>, NEW s \in Seq(M)
    PROVE  Gather(g, s) = <<>>
  <1> DEFINE P == {t \in Seq(M) : Gather(g, t) = <<>>}
  <1>1. <<>> \in P
    BY GatherOfNone
  <1>2. ASSUME NEW t \in Seq(M), NEW x \in M, t \in P PROVE Append(t, x) \in P
    <2>1. Gives(g, M, Seq(M))
      <3> DEFINE none == <<>>
      <3>1. none \in Seq(M)
        OBVIOUS
      <3>2. \A y \in M : g[y] = none
        OBVIOUS
      <3> HIDE DEF none
      <3>3. QED
        BY <3>1, <3>2 DEF Gives
    <2>2. Gather(g, Append(t, x)) = Gather(g, t) \o g[x]
      BY <2>1, GatherOneMore
    <2>3. Gather(g, t) = <<>> /\ g[x] = <<>>
      BY <1>2
    <2>4. Gather(g, Append(t, x)) = <<>>
      BY <2>2, <2>3
    <2>5. Append(t, x) \in Seq(M)
      OBVIOUS
    <2>6. QED
      BY <2>4, <2>5
  <1> HIDE DEF P
  <1>3. s \in P
    BY <1>1, <1>2, Grows
  <1>4. QED
    BY <1>3 DEF P

\* Elements that contribute themselves.
LEMMA GatherSingles ==
    ASSUME NEW M, NEW g, \A x \in M : g[x] = <<x>>, NEW s \in Seq(M)
    PROVE  Gather(g, s) = s
  <1> DEFINE P == {t \in Seq(M) : Gather(g, t) = t}
  <1>1. <<>> \in P
    BY GatherOfNone
  <1>2. ASSUME NEW t \in Seq(M), NEW x \in M, t \in P PROVE Append(t, x) \in P
    <2>1. Gives(g, M, Seq(M))
      <3>1. \A y \in M : <<y>> \in Seq(M)
        OBVIOUS
      <3>2. QED
        BY <3>1 DEF Gives
    <2>2. Gather(g, Append(t, x)) = Gather(g, t) \o g[x]
      BY <2>1, GatherOneMore
    <2>3. Gather(g, t) = t /\ g[x] = <<x>>
      BY <1>2
    <2>4. Append(t, x) = t \o <<x>> /\ Append(t, x) \in Seq(M)
      OBVIOUS
    <2>5. Gather(g, Append(t, x)) = Append(t, x)
      BY <2>2, <2>3, <2>4
    <2>6. QED
      BY <2>4, <2>5
  <1> HIDE DEF P
  <1>3. s \in P
    BY <1>1, <1>2, Grows
  <1>4. QED
    BY <1>3 DEF P

\* What is gathered from what was gathered.
LEMMA GatherTwice ==
    ASSUME NEW M, NEW N, NEW S, NEW g, Gives(g, M, Seq(N)), NEW h, Gives(h, N, Seq(S)),
           NEW f, \A x \in M : f[x] = Gather(h, g[x]), NEW s \in Seq(M)
    PROVE  Gather(h, Gather(g, s)) = Gather(f, s)
  <1> DEFINE P == {t \in Seq(M) : Gather(h, Gather(g, t)) = Gather(f, t)}
  <1>1. <<>> \in P
    BY GatherOfNone
  <1>2. ASSUME NEW t \in Seq(M), NEW x \in M, t \in P PROVE Append(t, x) \in P
    <2>1. Gives(f, M, Seq(S))
      <3>1. ASSUME NEW y \in M PROVE f[y] \in Seq(S)
        <4>1. g[y] \in Seq(N)
          BY DEF Gives
        <4>2. Gather(h, g[y]) \in Seq(S)
          BY <4>1, GatherTyped
        <4>3. QED
          BY <4>2
      <3>2. QED
        BY <3>1 DEF Gives
    <2>2. Gather(g, Append(t, x)) = Gather(g, t) \o g[x]
      BY GatherOneMore
    <2>3. Gather(f, Append(t, x)) = Gather(f, t) \o f[x]
      BY <2>1, GatherOneMore
    <2>4. Gather(g, t) \in Seq(N)
      BY GatherTyped
    <2>5. g[x] \in Seq(N)
      BY DEF Gives
    <2>6. Gather(h, Gather(g, t) \o g[x]) = Gather(h, Gather(g, t)) \o Gather(h, g[x])
      BY <2>4, <2>5, GatherCat
    <2>7. Gather(h, Gather(g, t)) = Gather(f, t) /\ f[x] = Gather(h, g[x])
      BY <1>2
    <2>8. Gather(h, Gather(g, Append(t, x))) = Gather(f, Append(t, x))
      BY <2>2, <2>3, <2>6, <2>7
    <2>9. Append(t, x) \in Seq(M)
      OBVIOUS
    <2>10. QED
      BY <2>8, <2>9
  <1> HIDE DEF P
  <1>3. s \in P
    BY <1>1, <1>2, Grows
  <1>4. QED
    BY <1>3 DEF P
=============================================================================
