---------------------------- MODULE NumberFacts -----------------------------
(***************************************************************************)
(* Facts about sets of numbers which several proofs need.  The induction   *)
(* in them is that of the well-founded order of the naturals.              *)
(***************************************************************************)
EXTENDS Naturals, FiniteSetsExt, FiniteSetTheorems, FunctionTheorems, WellFoundedInduction, TLAPS

\* A set of naturals that is not empty has a least element.
LEMMA LeastNumber ==
  ASSUME NEW S, S \subseteq Nat, S # {}
  PROVE  \E m \in S : \A n \in S : m <= n
<1> DEFINE R == OpToRel(<, Nat)
<1>1. IsWellFoundedOn(R, Nat)
  BY NatLessThanWellFounded
<1>2. \A x, y \in Nat : <<x, y>> \in R <=> x < y
  BY DEF OpToRel
<1> HIDE DEF R
<1>3. PICK m \in S : \A n \in S : ~ (<<n, m>> \in R)
  BY <1>1, WFMin
<1>4. \A n \in S : m <= n
  <2> TAKE n \in S
  <2>1. n \in Nat /\ m \in Nat /\ ~ (n < m)
    BY <1>2, <1>3
  <2>2. QED
    BY <2>1
<1>5. QED
  BY <1>4

\* Max returns the greatest element of a bounded set that is not empty.
LEMMA MaxIsGreatest ==
  ASSUME NEW n \in Nat, NEW S, S \subseteq 1 .. n, S # {}
  PROVE  /\ Max(S) \in S
         /\ \A m \in S : m <= Max(S)
<1> DEFINE Distances == {d \in Nat : \E m \in S : d = n - m}
<1>1. Distances \subseteq Nat /\ Distances # {}
  <2>1. PICK m \in S : TRUE
    OBVIOUS
  <2>2. n - m \in Distances
    OBVIOUS
  <2>3. QED
    BY <2>2
<1>2. PICK d \in Distances : \A e \in Distances : d <= e
  BY <1>1, LeastNumber
<1>3. PICK g \in S : d = n - g
  OBVIOUS
<1>4. \A m \in S : g >= m
  <2> TAKE m \in S
  <2>1. n - m \in Distances
    OBVIOUS
  <2>2. n - g <= n - m
    BY <1>2, <1>3, <2>1
  <2>3. QED
    BY <2>2
<1>5. QED
  BY <1>4 DEF Max

\* The subsets of a set with one element more are twice as many.
LEMMA SubsetsDouble ==
  ASSUME NEW S, IsFiniteSet(S), NEW x, x \notin S
  PROVE  Cardinality(SUBSET (S \union {x})) = 2 * Cardinality(SUBSET S)
<1> DEFINE With == {A \in SUBSET (S \union {x}) : x \in A}
           Extend == [A \in SUBSET S |-> A \union {x}]
<1>1. IsFiniteSet(SUBSET S) /\ Cardinality(SUBSET S) \in Nat
  BY FS_SUBSET, FS_CardinalityType
<1>2. Extend \in [SUBSET S -> With]
  OBVIOUS
<1>3. \A A, B \in SUBSET S : Extend[A] = Extend[B] => A = B
  OBVIOUS
<1>4. \A B \in With : \E A \in SUBSET S : Extend[A] = B
  <2> TAKE B \in With
  <2>1. B \ {x} \in SUBSET S /\ Extend[B \ {x}] = B
    OBVIOUS
  <2>2. QED
    BY <2>1
<1>5. IsFiniteSet(With) /\ Cardinality(With) = Cardinality(SUBSET S)
  <2> HIDE DEF Extend, With
  <2>1. Extend \in Bijection(SUBSET S, With)
    BY <1>2, <1>3, <1>4, Fun_IsBij
  <2>2. ExistsBijection(SUBSET S, With)
    BY <2>1, Fun_ExistsBij
  <2>3. QED
    BY <1>1, <2>2, FS_Bijection
<1>6. SUBSET (S \union {x}) = (SUBSET S) \union With
  <2>1. \A A : A \in SUBSET (S \union {x}) <=> A \in SUBSET S \/ A \in With
    OBVIOUS
  <2>2. QED
    BY <2>1
<1>7. (SUBSET S) \intersect With = {}
  <2>1. \A A : ~ (A \in SUBSET S /\ A \in With)
    OBVIOUS
  <2>2. QED
    BY <2>1
<1>8. QED
  <2> HIDE DEF With
  <2>1. Cardinality((SUBSET S) \union With) =
          Cardinality(SUBSET S) + Cardinality(With) - Cardinality((SUBSET S) \intersect With)
    BY <1>1, <1>5, FS_Union
  <2>2. Cardinality((SUBSET S) \intersect With) = 0
    BY <1>7, FS_EmptySet
  <2>3. Cardinality(SUBSET (S \union {x})) = Cardinality(SUBSET S) + Cardinality(SUBSET S) - 0
    BY <1>5, <1>6, <2>1, <2>2
  <2>4. QED
    BY <1>1, <2>3

\* Powers of two, by the number of subsets of 1 .. n.
LEMMA PowersOfTwo ==
  ASSUME NEW n \in Nat
  PROVE  2 ^ n \in Nat /\ 2 ^ (n + 1) = 2 * 2 ^ n
<1>1. IsFiniteSet(1 .. n) /\ Cardinality(1 .. n) = n
  BY FS_Interval
<1>2. IsFiniteSet(1 .. n + 1) /\ Cardinality(1 .. n + 1) = n + 1
  BY FS_Interval
<1>3. Cardinality(SUBSET (1 .. n)) = 2 ^ n /\ Cardinality(SUBSET (1 .. n)) \in Nat
  BY <1>1, FS_SUBSET, FS_CardinalityType
<1>4. Cardinality(SUBSET (1 .. n + 1)) = 2 ^ (n + 1)
  BY <1>2, FS_SUBSET
<1>5. 1 .. n + 1 = (1 .. n) \union {n + 1} /\ n + 1 \notin 1 .. n
  OBVIOUS
<1>6. Cardinality(SUBSET (1 .. n + 1)) = 2 * Cardinality(SUBSET (1 .. n))
  BY <1>1, <1>5, SubsetsDouble
<1>7. QED
  BY <1>3, <1>4, <1>6

\* Two sets together have no more elements than each of them by itself.
LEMMA UnionIsBounded ==
  ASSUME NEW S, IsFiniteSet(S), NEW T, IsFiniteSet(T)
  PROVE  /\ IsFiniteSet(S \union T) /\ Cardinality(S \union T) \in Nat
         /\ Cardinality(S \union T) <= Cardinality(S) + Cardinality(T)
<1>1. IsFiniteSet(S \union T) /\ IsFiniteSet(S \intersect T)
  BY FS_Union, FS_Intersection
<1>2. /\ Cardinality(S) \in Nat /\ Cardinality(T) \in Nat
      /\ Cardinality(S \union T) \in Nat /\ Cardinality(S \intersect T) \in Nat
  BY <1>1, FS_CardinalityType
<1>3. Cardinality(S \union T) = Cardinality(S) + Cardinality(T) - Cardinality(S \intersect T)
  BY FS_Union
<1>4. QED
  BY <1>1, <1>2, <1>3

-----------------------------------------------------------------------------
(* Sums over finite sets.                                                  *)

\* The sum of a function over a finite set.
SumOf(f, S) == MapThenSumSet(LAMBDA x : f[x], S)

\* What the fold of MapThenSumSet computes on the subsets of a set.
Chosen(s) == CHOOSE x \in s : TRUE

Fold(f, g, s) == IF s = {} THEN 0 ELSE f[Chosen(s)] + g[s \ {Chosen(s)}]

IsFold(f, g, F) == g = [s \in F |-> Fold(f, g, s)]

\* CHOOSE finds an element where there is one.
LEMMA ChosenIsIn ==
  ASSUME NEW s, s # {}
  PROVE  Chosen(s) \in s
PROOF BY DEF Chosen

\* One element less.
LEMMA OneLess ==
  ASSUME NEW s, IsFiniteSet(s), NEW x \in s
  PROVE  /\ IsFiniteSet(s \ {x})
         /\ Cardinality(s) \in Nat /\ Cardinality(s \ {x}) \in Nat
         /\ Cardinality(s) = Cardinality(s \ {x}) + 1
PROOF
<1>1. IsFiniteSet(s \ {x}) /\ Cardinality(s \ {x}) = Cardinality(s) - 1
  BY FS_RemoveElement
<1>2. Cardinality(s) \in Nat /\ Cardinality(s \ {x}) \in Nat
  BY <1>1, FS_CardinalityType
<1> QED BY <1>1, <1>2

\* The fold is defined on the subsets of a finite set.
LEMMA FoldExists ==
  ASSUME NEW f, NEW S, IsFiniteSet(S)
  PROVE  \E g : IsFold(f, g, SUBSET S)
PROOF
<1> DEFINE Small(n) == {s \in SUBSET S : Cardinality(s) <= n}
           Missing == {n \in Nat : ~ \E g : IsFold(f, g, Small(n))}
<1>1. \A s \in SUBSET S : IsFiniteSet(s) /\ Cardinality(s) \in Nat
  BY FS_Subset, FS_CardinalityType
<1>2. Missing = {}
  <2> SUFFICES ASSUME Missing # {} PROVE FALSE
    OBVIOUS
  <2>1. PICK n \in Missing : \A m \in Missing : n <= m
    BY LeastNumber
  <2>2. CASE n = 0
    <3> DEFINE g == [s \in Small(0) |-> 0]
    <3>1. ASSUME NEW s \in Small(0) PROVE s = {}
      BY <1>1, <3>1, FS_EmptySet
    <3>2. \A s \in Small(0) : Fold(f, g, s) = 0
      BY <3>1 DEF Fold
    <3>3. IsFold(f, g, Small(0))
      <4> HIDE DEF Small
      <4> QED BY <3>2 DEF IsFold
    <3> QED BY <2>1, <2>2, <3>3
  <2>3. CASE n # 0
    <3>1. n - 1 \in Nat /\ n - 1 \notin Missing
      <4>1. n \in Nat
        BY <2>1
      <4>2. n - 1 \in Nat /\ ~ (n <= n - 1)
        BY <2>3, <4>1
      <4> QED BY <2>1, <4>2
    <3>2. PICK g : IsFold(f, g, Small(n - 1))
      BY <3>1
    <3> DEFINE h == [s \in Small(n) |-> Fold(f, g, s)]
    <3>3. ASSUME NEW s \in Small(n)
          PROVE  Fold(f, h, s) = Fold(f, g, s)
      <4>1. CASE s = {}
        BY <4>1 DEF Fold
      <4>2. CASE s # {}
        <5> DEFINE t == s \ {Chosen(s)}
        <5>1. t \in Small(n - 1) /\ t \in Small(n)
          <6>1. Chosen(s) \in s /\ IsFiniteSet(s) /\ s \subseteq S /\ Cardinality(s) <= n
            BY <1>1, <3>3, <4>2, ChosenIsIn
          <6>2. /\ Cardinality(s) \in Nat /\ Cardinality(t) \in Nat
                /\ Cardinality(s) = Cardinality(t) + 1
            BY <6>1, OneLess
          <6> QED BY <2>1, <6>1, <6>2
        <5> HIDE DEF Small, t
        <5>2. g[t] = Fold(f, g, t)
          BY <3>2, <5>1 DEF IsFold
        <5>3. h[t] = Fold(f, g, t)
          BY <5>1
        <5> QED BY <4>2, <5>2, <5>3 DEF Fold, t
      <4> QED BY <4>1, <4>2
    <3>4. IsFold(f, h, Small(n))
      <4> HIDE DEF Small
      <4>1. h = [s \in Small(n) |-> Fold(f, h, s)]
        BY <3>3
      <4> QED BY <4>1 DEF IsFold
    <3> QED BY <2>1, <3>4
  <2> QED BY <2>2, <2>3
<1>3. Cardinality(S) \in Nat
  BY FS_CardinalityType
<1>4. Small(Cardinality(S)) = SUBSET S
  <2>1. ASSUME NEW s \in SUBSET S PROVE Cardinality(s) <= Cardinality(S)
    BY <2>1, FS_Subset
  <2> QED BY <2>1
<1>5. \E g : IsFold(f, g, Small(Cardinality(S)))
  BY <1>2, <1>3
<1> QED BY <1>4, <1>5

\* The sum is what such a fold computes.
LEMMA SumIsFold ==
  ASSUME NEW f, NEW S, IsFiniteSet(S)
  PROVE  \E g : IsFold(f, g, SUBSET S) /\ SumOf(f, S) = g[S]
PROOF
<1>1. \E g : g = [s \in SUBSET S |-> IF s = {} THEN 0 ELSE f[Chosen(s)] + g[s \ {Chosen(s)}]]
  <2>1. PICK g : IsFold(f, g, SUBSET S)
    BY FoldExists
  <2>2. g = [s \in SUBSET S |-> IF s = {} THEN 0 ELSE f[Chosen(s)] + g[s \ {Chosen(s)}]]
    BY <2>1 DEF IsFold, Fold
  <2> QED BY <2>2
<1>2. \E g : /\ g = [s \in SUBSET S |-> IF s = {} THEN 0 ELSE f[Chosen(s)] + g[s \ {Chosen(s)}]]
             /\ SumOf(f, S) = g[S]
  BY <1>1 DEF SumOf, MapThenSumSet, MapThenFoldSet, Chosen
<1> QED BY <1>2 DEF IsFold, Fold

\* The equations of the fold.
LEMMA FoldParts ==
  ASSUME NEW f, NEW g, NEW S, IsFold(f, g, SUBSET S)
  PROVE  /\ g[{}] = 0
         /\ \A s \in SUBSET S : s # {} =>
              g[s] = f[Chosen(s)] + g[s \ {Chosen(s)}]
PROOF BY DEF IsFold, Fold

\* Among finite sets there is a smallest: what holds of a set whenever it holds of
\* those with fewer elements holds of all.
LEMMA SmallestSet ==
  ASSUME NEW F, F # {}, \A s \in F : IsFiniteSet(s)
  PROVE  \E s \in F : \A t \in F : Cardinality(s) <= Cardinality(t)
PROOF
<1> DEFINE Sizes == {Cardinality(s) : s \in F}
<1>1. Sizes \subseteq Nat /\ Sizes # {}
  BY FS_CardinalityType
<1>2. PICK n \in Sizes : \A m \in Sizes : n <= m
  BY <1>1, LeastNumber
<1> QED BY <1>2

\* A fold of natural numbers is one: a smallest set of which it is not has an
\* element, and is not the smallest.
LEMMA FoldType ==
  ASSUME NEW f, NEW g, NEW S, IsFiniteSet(S), \A x \in S : f[x] \in Nat,
         IsFold(f, g, SUBSET S)
  PROVE  \A s \in SUBSET S : g[s] \in Nat
PROOF
<1> DEFINE Bad == {s \in SUBSET S : g[s] \notin Nat}
<1> SUFFICES ASSUME Bad # {} PROVE FALSE
  OBVIOUS
<1>1. \A s \in SUBSET S : IsFiniteSet(s)
  BY FS_Subset
<1>2. PICK s \in Bad : \A t \in Bad : Cardinality(s) <= Cardinality(t)
  BY <1>1, SmallestSet
<1>3. s # {}
  <2>1. g[{}] = 0 /\ g[s] \notin Nat
    BY <1>2, FoldParts
  <2> QED BY <2>1
<1> DEFINE t == s \ {Chosen(s)}
<1>4. Chosen(s) \in s /\ Chosen(s) \in S /\ t \in SUBSET S
  BY <1>3, ChosenIsIn
<1>5. g[s] = f[Chosen(s)] + g[t] /\ f[Chosen(s)] \in Nat
  BY <1>3, <1>4, FoldParts
<1>6. g[t] \notin Nat
  BY <1>2, <1>5
<1>7. /\ Cardinality(s) \in Nat /\ Cardinality(t) \in Nat
      /\ Cardinality(s) = Cardinality(t) + 1
  BY <1>1, <1>4, OneLess
<1>8. Cardinality(s) <= Cardinality(t)
  BY <1>2, <1>4, <1>6
<1> HIDE DEF t
<1> QED BY <1>7, <1>8

\* Any element may be the chosen one.
LEMMA FoldAnyElement ==
  ASSUME NEW f, NEW g, NEW S, IsFiniteSet(S), \A x \in S : f[x] \in Nat,
         IsFold(f, g, SUBSET S)
  PROVE  \A s \in SUBSET S : \A x \in s : g[s] = f[x] + g[s \ {x}]
PROOF
<1>0. \A t \in SUBSET S : t # {} => g[t] = f[Chosen(t)] + g[t \ {Chosen(t)}]
  BY FoldParts
<1> DEFINE Bad == {s \in SUBSET S : ~ \A x \in s : g[s] = f[x] + g[s \ {x}]}
<1> SUFFICES ASSUME Bad # {} PROVE FALSE
  OBVIOUS
<1>1. \A s \in SUBSET S : IsFiniteSet(s)
  BY FS_Subset
<1>2. PICK s \in Bad : \A t \in Bad : Cardinality(s) <= Cardinality(t)
  BY <1>1, SmallestSet
<1>3. PICK x \in s : g[s] # f[x] + g[s \ {x}]
  OBVIOUS
<1> DEFINE c == Chosen(s)
<1>4. c \in s /\ c \in S /\ x \in S /\ g[s] = f[c] + g[s \ {c}]
  <2>1. s # {} /\ s \in SUBSET S
    BY <1>2, <1>3
  <2>2. c \in s
    BY <2>1, ChosenIsIn
  <2>3. g[s] = f[Chosen(s)] + g[s \ {Chosen(s)}]
    BY <1>0, <2>1
  <2> QED BY <1>3, <2>1, <2>2, <2>3
<1>5. x # c
  BY <1>3, <1>4
<1>6. \A y \in s : s \ {y} \notin Bad /\ s \ {y} \in SUBSET S
  <2> TAKE y \in s
  <2>1. /\ Cardinality(s) \in Nat /\ Cardinality(s \ {y}) \in Nat
        /\ Cardinality(s) = Cardinality(s \ {y}) + 1
    BY <1>1, OneLess
  <2>2. ~ (Cardinality(s) <= Cardinality(s \ {y}))
    BY <2>1
  <2> QED BY <1>2, <2>2
<1>7. g[s \ {c}] = f[x] + g[(s \ {c}) \ {x}]
  BY <1>4, <1>5, <1>6
<1>8. g[s \ {x}] = f[c] + g[(s \ {x}) \ {c}]
  BY <1>4, <1>5, <1>6
<1>9. (s \ {c}) \ {x} = (s \ {x}) \ {c} /\ (s \ {c}) \ {x} \in SUBSET S
  OBVIOUS
<1>10. f[x] \in Nat /\ f[c] \in Nat /\ g[(s \ {c}) \ {x}] \in Nat
  BY <1>4, <1>9, FoldType
<1> HIDE DEF c
<1>11. g[s] = f[x] + g[s \ {x}]
  <2> DEFINE rest == g[(s \ {c}) \ {x}]
  <2>1. g[s] = f[c] + (f[x] + rest) /\ g[s \ {x}] = f[c] + rest
    BY <1>4, <1>7, <1>8, <1>9
  <2>2. rest \in Nat
    BY <1>10
  <2> HIDE DEF rest
  <2> QED BY <1>10, <2>1, <2>2
<1> QED BY <1>3, <1>11

\* More elements, or more of each of them, make more.
LEMMA FoldMonotone ==
  ASSUME NEW f, NEW g, NEW S, IsFold(f, g, SUBSET S),
         NEW e, NEW h, NEW T, IsFold(e, h, SUBSET T),
         IsFiniteSet(S), IsFiniteSet(T),
         \A x \in S : f[x] \in Nat, \A x \in T : e[x] \in Nat,
         \A x \in S \intersect T : f[x] <= e[x]
  PROVE  \A s \in SUBSET S : \A t \in SUBSET T : s \subseteq t => g[s] <= h[t]
PROOF
<1> DEFINE Bad == {s \in SUBSET S : ~ \A t \in SUBSET T : s \subseteq t => g[s] <= h[t]}
<1> SUFFICES ASSUME Bad # {} PROVE FALSE
  OBVIOUS
<1>1. (\A s \in SUBSET S : IsFiniteSet(s)) /\ (\A t \in SUBSET T : IsFiniteSet(t))
  BY FS_Subset
<1>2. PICK s \in Bad : \A t \in Bad : Cardinality(s) <= Cardinality(t)
  BY <1>1, SmallestSet
<1>3. PICK t \in SUBSET T : s \subseteq t /\ ~ (g[s] <= h[t])
  OBVIOUS
<1>4. h[t] \in Nat
  BY FoldType
<1>5. s # {}
  <2>1. s = {} => g[s] = 0
    BY FoldParts
  <2> QED BY <1>3, <1>4, <2>1
<1>6. PICK x \in s : TRUE
  BY <1>5
<1>7. g[s] = f[x] + g[s \ {x}] /\ h[t] = e[x] + h[t \ {x}]
  BY <1>1, <1>3, FoldAnyElement
<1>8. /\ f[x] \in Nat /\ e[x] \in Nat /\ f[x] <= e[x]
      /\ g[s \ {x}] \in Nat /\ h[t \ {x}] \in Nat
  BY <1>1, <1>3, FoldType
<1>9. g[s \ {x}] <= h[t \ {x}]
  <2>1. /\ Cardinality(s) \in Nat /\ Cardinality(s \ {x}) \in Nat
        /\ Cardinality(s) = Cardinality(s \ {x}) + 1
    BY <1>1, OneLess
  <2>2. ~ (Cardinality(s) <= Cardinality(s \ {x}))
    BY <2>1
  <2>3. s \ {x} \notin Bad
    BY <1>2, <2>2
  <2>4. s \ {x} \in SUBSET S /\ t \ {x} \in SUBSET T /\ s \ {x} \subseteq t \ {x}
    BY <1>3
  <2> QED BY <2>3, <2>4
<1> QED BY <1>3, <1>7, <1>8, <1>9

\* The laws of the sum.
LEMMA SumType ==
  ASSUME NEW f, NEW S, IsFiniteSet(S), \A x \in S : f[x] \in Nat
  PROVE  SumOf(f, S) \in Nat
PROOF
<1>1. PICK g : IsFold(f, g, SUBSET S) /\ SumOf(f, S) = g[S]
  BY SumIsFold
<1> QED BY <1>1, FoldType

\* The sum over nothing.
LEMMA SumOfNone ==
  ASSUME NEW f
  PROVE  SumOf(f, {}) = 0
PROOF
<1>1. PICK g : IsFold(f, g, SUBSET {}) /\ SumOf(f, {}) = g[{}]
  BY SumIsFold, FS_EmptySet
<1> QED BY <1>1, FoldParts

\* More elements with larger values do not have a smaller sum.
LEMMA SumMonotone ==
  ASSUME NEW f, NEW S, NEW e, NEW T, IsFiniteSet(T), S \subseteq T,
         \A x \in S : f[x] \in Nat, \A x \in T : e[x] \in Nat,
         \A x \in S : f[x] <= e[x]
  PROVE  SumOf(f, S) <= SumOf(e, T)
PROOF
<1>1. IsFiniteSet(S)
  BY FS_Subset
<1>2. PICK g : IsFold(f, g, SUBSET S) /\ SumOf(f, S) = g[S]
  BY <1>1, SumIsFold
<1>3. PICK h : IsFold(e, h, SUBSET T) /\ SumOf(e, T) = h[T]
  BY SumIsFold
<1>4. g[S] <= h[T]
  BY <1>1, <1>2, <1>3, FoldMonotone
<1> QED BY <1>2, <1>3, <1>4

\* One element more adds its value.
LEMMA SumOfOneMore ==
  ASSUME NEW f, NEW S, IsFiniteSet(S), NEW x, x \notin S,
         \A y \in S \union {x} : f[y] \in Nat
  PROVE  SumOf(f, S \union {x}) = f[x] + SumOf(f, S)
PROOF
<1> DEFINE T == S \union {x}
<1>1. IsFiniteSet(T)
  BY FS_AddElement
<1>2. PICK h : IsFold(f, h, SUBSET T) /\ SumOf(f, T) = h[T]
  BY <1>1, SumIsFold
<1>3. PICK g : IsFold(f, g, SUBSET S) /\ SumOf(f, S) = g[S]
  BY SumIsFold
<1>4. h[T] = f[x] + h[S]
  <2>1. h[T] = f[x] + h[T \ {x}]
    BY <1>1, <1>2, FoldAnyElement
  <2>2. T \ {x} = S
    OBVIOUS
  <2> QED BY <2>1, <2>2
<1>5. g[S] \in Nat /\ h[S] \in Nat
  BY <1>1, <1>2, <1>3, FoldType
<1>6. \A y \in S : f[y] \in Nat
  OBVIOUS
<1>7. g[S] <= h[S]
  <2>1. \A y \in S \intersect T : f[y] <= f[y]
    BY <1>6
  <2>2. \A s \in SUBSET S : \A t \in SUBSET T : s \subseteq t => g[s] <= h[t]
    BY <1>1, <1>2, <1>3, <2>1, FoldMonotone
  <2> QED BY <2>2
<1>8. h[S] <= g[S]
  <2>1. \A y \in T \intersect S : f[y] <= f[y]
    BY <1>6
  <2>2. \A s \in SUBSET T : \A t \in SUBSET S : s \subseteq t => h[s] <= g[t]
    BY <1>1, <1>2, <1>3, <2>1, FoldMonotone
  <2> QED BY <2>2
<1> QED BY <1>2, <1>3, <1>4, <1>5, <1>7, <1>8
=============================================================================
