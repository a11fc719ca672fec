------------------------------ MODULE Counting ------------------------------
(***************************************************************************)
(* What the proofs count with: induction over the natural numbers (from    *)
(* the pigeonhole principle of FunctionTheorems), functions iterated on a  *)
(* set, and sums, which are what the community modules' folds compute: the *)
(* number of points under a function.                                      *)
(***************************************************************************)
EXTENDS Integers, Sequences, FiniteSets, FiniteSetsExt, FiniteSetTheorems, FunctionTheorems, TLAPS

\* Induction over the natural numbers: a number outside T would make 1..n fit into 1..n-1.
LEMMA SetInduction ==
    ASSUME NEW T \in SUBSET Nat, 0 \in T, \A n \in T : n + 1 \in T
    PROVE  T = Nat
<1> SUFFICES ASSUME NEW n \in Nat, n \notin T  PROVE FALSE
  OBVIOUS
<1>1. n \in Nat \ {0} /\ n - 1 \in Nat
  OBVIOUS
<1> DEFINE f == [x \in 1..n |-> IF x \in T THEN x ELSE x - 1]
<1>2. ASSUME NEW x \in 1..n  PROVE f[x] \in 1..(n - 1) /\ (x \in T <=> f[x] \in T)
  <2>1. CASE x \in T
    BY <2>1
  <2>2. CASE x \notin T
    <3>1. x - 1 \notin T
      BY <2>2
    <3>2. x - 1 # 0
      BY <3>1
    <3>3. QED BY <2>2, <3>1, <3>2
  <2>3. QED BY <2>1, <2>2
<1>3. f \in Injection(1..n, 1..(n - 1))
  <2>1. f \in [1..n -> 1..(n - 1)]
    BY <1>2
  <2>2. ASSUME NEW x \in 1..n, NEW y \in 1..n, f[x] = f[y]  PROVE x = y
    <3>1. x \in T <=> y \in T
      BY <1>2, <2>2
    <3>2. QED BY <2>2, <3>1
  <2>3. QED BY <2>1, <2>2 DEF Injection, IsInjective
<1>4. n <= n - 1
  BY <1>1, <1>3, Fun_NatInjLeq DEF ExistsInjection
<1>5. QED BY <1>1, <1>4

-----------------------------------------------------------------------------
(* Cardinalities *)

\* A set into which another maps one to one is no smaller.
LEMMA Injected ==
    ASSUME NEW S, NEW T, IsFiniteSet(T), NEW f \in [S -> T], \A x, y \in S : f[x] = f[y] => x = y
    PROVE  IsFiniteSet(S) /\ Cardinality(S) \in Nat /\ Cardinality(S) <= Cardinality(T)
<1>1. f \in Injection(S, T)
  BY DEF Injection, IsInjective
<1>2. QED BY <1>1, FS_Injection, FS_CardinalityType

\* Subsets of a finite set are finite, and no larger.
LEMMA Smaller ==
    ASSUME NEW S, NEW T, IsFiniteSet(T), S \subseteq T
    PROVE  IsFiniteSet(S) /\ Cardinality(S) \in Nat /\ Cardinality(S) <= Cardinality(T)
BY FS_Subset, FS_CardinalityType

\* One element more, or less.
LEMMA OneMore ==
    ASSUME NEW S, IsFiniteSet(S), NEW x
    PROVE  /\ IsFiniteSet(S \cup {x}) /\ Cardinality(S \cup {x}) <= Cardinality(S) + 1 /\ Cardinality(S) \in Nat
           /\ Cardinality(S \cup {x}) \in Nat
           /\ x \notin S => Cardinality(S \cup {x}) = Cardinality(S) + 1
           /\ IsFiniteSet(S \ {x}) /\ Cardinality(S \ {x}) \in Nat
           /\ x \in S => Cardinality(S \ {x}) = Cardinality(S) - 1
BY FS_AddElement, FS_RemoveElement, FS_CardinalityType

\* The parts of a set add up.
LEMMA Parts ==
    ASSUME NEW S, NEW T, IsFiniteSet(S), IsFiniteSet(T), S \cap T = {}
    PROVE  /\ IsFiniteSet(S \cup T) /\ Cardinality(S \cup T) = Cardinality(S) + Cardinality(T)
           /\ Cardinality(S) \in Nat /\ Cardinality(T) \in Nat
BY FS_Union, FS_EmptySet, FS_CardinalityType

-----------------------------------------------------------------------------
(* Sequences *)

LEMMA Appended ==
    ASSUME NEW S, NEW s \in Seq(S), NEW x \in S, NEW t, t = Append(s, x)
    PROVE  /\ t \in Seq(S) /\ Len(t) = Len(s) + 1 /\ Len(s) \in Nat
           /\ DOMAIN s = 1..Len(s) /\ DOMAIN t = 1..(Len(s) + 1) /\ t[Len(s) + 1] = x
           /\ \A i \in DOMAIN s : t[i] = s[i] /\ i \in Nat /\ i <= Len(s)
           /\ \A i \in DOMAIN t : i \in DOMAIN s \/ i = Len(s) + 1
OBVIOUS

LEMMA Tailed ==
    ASSUME NEW S, NEW s \in Seq(S), s # <<>>, NEW t, t = Tail(s)
    PROVE  /\ t \in Seq(S) /\ Len(s) = Len(t) + 1 /\ Len(t) \in Nat
           /\ DOMAIN s = 1..Len(s) /\ DOMAIN t = 1..Len(t)
           /\ \A i \in DOMAIN t : t[i] = s[i + 1] /\ i \in Nat /\ i + 1 \in DOMAIN s
           /\ \A i \in DOMAIN s : i \in Nat /\ (i = 1 \/ i - 1 \in DOMAIN t)
OBVIOUS

-----------------------------------------------------------------------------
(* Sums *)

\* The points under w: as many as its values add up to.
Points(w, S) == UNION {{<<c, i>> : i \in 1..w[c]} : c \in S}

LEMMA PointsOfOne ==
    ASSUME NEW w, NEW c, w[c] \in Nat
    PROVE  IsFiniteSet({<<c, i>> : i \in 1..w[c]}) /\ Cardinality({<<c, i>> : i \in 1..w[c]}) = w[c]
<1> DEFINE n == w[c]
           T == {<<c, i>> : i \in 1..n}
           f == [i \in 1..n |-> <<c, i>>]
<1>1. IsFiniteSet(1..n) /\ Cardinality(1..n) = n
  <2>1. n \in Int /\ 1 \in Int /\ (IF 1 > n THEN 0 ELSE n - 1 + 1) = n
    OBVIOUS
  <2>2. QED BY <2>1, FS_Interval
<1>2. f \in Bijection(1..n, T)
  BY DEF Bijection, Injection, Surjection, IsInjective
<1>3. IsFiniteSet(T) /\ Cardinality(T) = n
  BY <1>1, <1>2, FS_Bijection DEF ExistsBijection
<1>4. QED BY <1>3

\* One place more under w.
LEMMA PointsSplit ==
    ASSUME NEW S, NEW w, NEW c \in S, w[c] \in Nat, IsFiniteSet(Points(w, S \ {c}))
    PROVE  /\ IsFiniteSet(Points(w, S))
           /\ Cardinality(Points(w, S)) = w[c] + Cardinality(Points(w, S \ {c}))
<1> DEFINE A == {<<c, i>> : i \in 1..w[c]}
           B == Points(w, S \ {c})
<1>1. Points(w, S) = A \cup B
  BY DEF Points
<1>2. A \cap B = {}
  BY DEF Points
<1>3. IsFiniteSet(A) /\ Cardinality(A) = w[c]
  BY PointsOfOne
<1> HIDE DEF A, B
<1>4. QED BY <1>1, <1>2, <1>3, Parts DEF B

LEMMA PointsFinite ==
    ASSUME NEW S, IsFiniteSet(S), NEW w, \A c \in S : w[c] \in Nat
    PROVE  IsFiniteSet(Points(w, S)) /\ Cardinality(Points(w, S)) \in Nat
<1> DEFINE T == {n \in Nat : \A R \in SUBSET S : Cardinality(R) = n => IsFiniteSet(Points(w, R))}
<1>1. 0 \in T
  <2>1. ASSUME NEW R \in SUBSET S, Cardinality(R) = 0  PROVE IsFiniteSet(Points(w, R))
    <3>1. R = {}
      BY <2>1, FS_Subset, FS_EmptySet
    <3>2. Points(w, R) = {}
      BY <3>1 DEF Points
    <3>3. QED BY <3>2, FS_EmptySet
  <2>2. QED BY <2>1
<1>2. ASSUME NEW n \in T  PROVE n + 1 \in T
  <2>1. ASSUME NEW R \in SUBSET S, Cardinality(R) = n + 1  PROVE IsFiniteSet(Points(w, R))
    <3>1. IsFiniteSet(R) /\ R # {}
      BY <2>1, FS_Subset, FS_EmptySet
    <3>2. PICK c \in R : TRUE
      BY <3>1
    <3>3. Cardinality(R \ {c}) = n /\ R \ {c} \in SUBSET S
      <4>1. n \in Nat
        OBVIOUS
      <4>2. Cardinality(R \ {c}) = Cardinality(R) - 1
        BY <3>1, <3>2, FS_RemoveElement
      <4>3. QED BY <2>1, <4>1, <4>2
    <3>4. IsFiniteSet(Points(w, R \ {c}))
      BY <3>3
    <3>5. QED BY <3>2, <3>4, PointsSplit
  <2>2. QED BY <2>1
<1>3. T = Nat
  <2> HIDE DEF T
  <2>1. T \in SUBSET Nat
    BY DEF T
  <2>2. QED BY <1>1, <1>2, <2>1, SetInduction
<1>4. Cardinality(S) \in T
  BY <1>3, FS_CardinalityType
<1>5. IsFiniteSet(Points(w, S))
  BY <1>4
<1>6. QED BY <1>5, FS_CardinalityType

AtOne(w, s, iter) == w[CHOOSE x \in s : TRUE] + iter[s \ {CHOOSE x \in s : TRUE}]

IsFold(w, S, iter) == iter = [s \in SUBSET S |-> IF s = {} THEN 0 ELSE AtOne(w, s, iter)]

\* Whatever function satisfies the equation of MapThenFoldSet counts the points,
LEMMA FoldCounts ==
    ASSUME NEW S, IsFiniteSet(S), NEW w, \A c \in S : w[c] \in Nat,
           NEW iter, IsFold(w, S, iter)
    PROVE  iter[S] = Cardinality(Points(w, S))
<1> DEFINE T == {n \in Nat : \A R \in SUBSET S : Cardinality(R) = n => iter[R] = Cardinality(Points(w, R))}
<1>1. 0 \in T
  <2>1. ASSUME NEW R \in SUBSET S, Cardinality(R) = 0  PROVE iter[R] = Cardinality(Points(w, R))
    <3>1. R = {}
      BY <2>1, FS_Subset, FS_EmptySet
    <3>2. Points(w, R) = {}
      BY <3>1 DEF Points
    <3>3. iter[R] = 0
      BY <3>1, Zenon DEF IsFold
    <3>4. QED BY <3>2, <3>3, FS_EmptySet
  <2>2. QED BY <2>1
<1>2. ASSUME NEW n \in T  PROVE n + 1 \in T
  <2>1. ASSUME NEW R \in SUBSET S, Cardinality(R) = n + 1  PROVE iter[R] = Cardinality(Points(w, R))
    <3>1. IsFiniteSet(R) /\ R # {}
      BY <2>1, FS_Subset, FS_EmptySet
    <3> DEFINE c == CHOOSE x \in R : TRUE
    <3>2. c \in R
      BY <3>1
    <3>3. iter[R] = w[c] + iter[R \ {c}]
      <4>1. iter[R] = IF R = {} THEN 0 ELSE AtOne(w, R, iter)
        BY Zenon DEF IsFold
      <4>2. QED BY <3>1, <4>1 DEF AtOne
    <3> HIDE DEF c
    <3>4. Cardinality(R \ {c}) = n /\ R \ {c} \in SUBSET S
      <4>1. n \in Nat
        OBVIOUS
      <4>2. Cardinality(R \ {c}) = Cardinality(R) - 1
        BY <3>1, <3>2, FS_RemoveElement
      <4>3. QED BY <2>1, <4>1, <4>2
    <3>5. iter[R \ {c}] = Cardinality(Points(w, R \ {c}))
      BY <3>4
    <3>6. IsFiniteSet(R \ {c}) /\ \A d \in R \ {c} : w[d] \in Nat
      BY <3>1, FS_Subset
    <3>7. IsFiniteSet(Points(w, R \ {c}))
      BY <3>6, PointsFinite
    <3>8. c \in S /\ w[c] \in Nat
      BY <3>2
    <3>9. Cardinality(Points(w, R)) = w[c] + Cardinality(Points(w, R \ {c}))
      BY <3>2, <3>7, <3>8, PointsSplit
    <3>10. QED BY <3>3, <3>5, <3>9
  <2>2. QED BY <2>1
<1>3. T = Nat
  <2> HIDE DEF T
  <2>1. T \in SUBSET Nat
    BY DEF T
  <2>2. QED BY <1>1, <1>2, <2>1, SetInduction
<1>4. Cardinality(S) \in T
  BY <1>3, FS_CardinalityType
<1>5. QED BY <1>4

\* and there is one: the count itself.
LEMMA FoldExists ==
    ASSUME NEW S, IsFiniteSet(S), NEW w, \A c \in S : w[c] \in Nat
    PROVE  \E iter : IsFold(w, S, iter)
<1> DEFINE count == [s \in SUBSET S |-> Cardinality(Points(w, s))]
<1>1. ASSUME NEW s \in SUBSET S  PROVE count[s] = IF s = {} THEN 0 ELSE AtOne(w, s, count)
  <2>1. CASE s = {}
    <3>1. Points(w, s) = {}
      BY <2>1 DEF Points
    <3>2. QED BY <2>1, <3>1, FS_EmptySet
  <2>2. CASE s # {}
    <3> DEFINE c == CHOOSE x \in s : TRUE
    <3>1. c \in s
      BY <2>2
    <3> HIDE DEF c
    <3>2. s \ {c} \in SUBSET S /\ IsFiniteSet(s \ {c}) /\ \A d \in s \ {c} : w[d] \in Nat
      BY FS_Subset
    <3>3. IsFiniteSet(Points(w, s \ {c}))
      BY <3>2, PointsFinite
    <3>4. count[s] = w[c] + count[s \ {c}]
      BY <3>1, <3>2, <3>3, PointsSplit
    <3>5. QED BY <2>2, <3>4 DEF AtOne, c
  <2>3. QED BY <2>1, <2>2
<1>2. count = [s \in SUBSET S |-> IF s = {} THEN 0 ELSE AtOne(w, s, count)]
  BY <1>1
<1>3. QED BY <1>2 DEF IsFold

\* So the fold of the community modules is the number of points.
LEMMA SumCounts ==
    ASSUME NEW S, IsFiniteSet(S), NEW w, \A c \in S : w[c] \in Nat
    PROVE  MapThenSumSet(LAMBDA c : w[c], S) = Cardinality(Points(w, S))
<1> DEFINE it == CHOOSE iter : IsFold(w, S, iter)
<1>1. MapThenSumSet(LAMBDA c : w[c], S) = it[S]
  BY Zenon DEF MapThenSumSet, MapThenFoldSet, AtOne, IsFold
<1>2. IsFold(w, S, it)
  <2>1. \E iter : IsFold(w, S, iter)
    BY FoldExists
  <2>2. QED BY <2>1, Zenon
<1>3. it[S] = Cardinality(Points(w, S))
  <2> HIDE DEF it
  <2>1. QED BY <1>2, FoldCounts
<1>4. QED BY <1>1, <1>3

-----------------------------------------------------------------------------
(* A function of sets, applied again and again *)

\* after[n] is G applied n times to C.
IsIterate(f, n, C, G) == f = [m \in 0..n |-> IF m = 0 THEN C ELSE G[f[m - 1]]]

LEMMA IterateExists ==
    ASSUME NEW C, NEW G, NEW n \in Nat
    PROVE  \E f : IsIterate(f, n, C, G)
<1> DEFINE T == {k \in Nat : \E f : IsIterate(f, k, C, G)}
<1>1. 0 \in T
  <2> DEFINE f == [m \in 0..0 |-> C]
  <2>1. IsIterate(f, 0, C, G)
    BY DEF IsIterate
  <2>2. QED BY <2>1
<1>2. ASSUME NEW k \in T  PROVE k + 1 \in T
  <2>1. PICK f : IsIterate(f, k, C, G)
    OBVIOUS
  <2> DEFINE g == [m \in 0..(k + 1) |-> IF m = 0 THEN C ELSE G[f[m - 1]]]
  <2>2. \A m \in 0..k : g[m] = f[m]
    <3>1. f = [m \in 0..k |-> IF m = 0 THEN C ELSE G[f[m - 1]]]
      BY <2>1 DEF IsIterate
    <3>2. \A m \in 0..k : f[m] = IF m = 0 THEN C ELSE G[f[m - 1]]
      BY <3>1
    <3>3. QED BY <3>2
  <2>3. \A m \in 0..(k + 1) : m # 0 => m - 1 \in 0..k
    OBVIOUS
  <2>4. g = [m \in 0..(k + 1) |-> IF m = 0 THEN C ELSE G[g[m - 1]]]
    BY <2>2, <2>3
  <2>5. IsIterate(g, k + 1, C, G)
    BY <2>4 DEF IsIterate
  <2>6. QED BY <2>5
<1>3. T = Nat
  <2> HIDE DEF T
  <2>1. T \in SUBSET Nat
    BY DEF T
  <2>2. QED BY <1>1, <1>2, <2>1, SetInduction
<1>4. n \in T
  BY <1>3
<1>5. QED BY <1>4
=============================================================================
