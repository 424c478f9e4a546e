----------------------------- MODULE FiniteSums -----------------------------
(***************************************************************************)
(* Sums over finite sets: what DataManager.swift computes with loops over  *)
(* the manual points, over the emergency types and over a type's list is   *)
(* MapThenSumSet in the models.  Its recursion is justified here, from     *)
(* the well-foundedness of strict inclusion, and with it that the order    *)
(* in which elements are taken does not matter.                            *)
(***************************************************************************)
EXTENDS Integers, FiniteSets, FiniteSetsExt, FiniteSetTheorems, TLAPS

-----------------------------------------------------------------------------
(* A set of subsets that has each subset whose smaller ones it has, has    *)
(* them all.                                                               *)
LEMMA SubsetInduction ==
    ASSUME NEW S, IsFiniteSet(S), NEW F,
           \A T \in SUBSET S : (\A U \in SUBSET T : U # T => U \in F) => T \in F
    PROVE  SUBSET S \subseteq F
<1> DEFINE B == {T \in SUBSET S : T \notin F}
           R == StrictSubsetOrdering(S)
<1> SUFFICES ASSUME B # {} PROVE FALSE
  OBVIOUS
<1>1. IsWellFoundedOn(R, SUBSET S)
  <2>1. FiniteSubsetsOf(S) = SUBSET S
    BY FS_FiniteSubsetsOfFinite
  <2>2. IsWellFoundedOn(R, FiniteSubsetsOf(S))
    BY FS_StrictSubsetOrderingWellFounded
  <2> QED BY <2>1, <2>2
<1>2. B \subseteq SUBSET S
  OBVIOUS
<1> HIDE DEF B, R
<1>3. PICK T \in B : \A U \in B : <<U, T>> \notin R
  BY <1>1, <1>2, WFMin
<1>4. ASSUME NEW U \in SUBSET T, U # T PROVE U \in F
  <2>1. <<U, T>> \in R
    BY <1>2, <1>4 DEF R, StrictSubsetOrdering
  <2> QED BY <1>2, <1>3, <1>4, <2>1 DEF B
<1> QED BY <1>2, <1>4 DEF B

-----------------------------------------------------------------------------
(* The recursion behind MapThenSumSet, for the values of a function g.     *)

Sum(g, S) == MapThenSumSet(LAMBDA x : g[x], S)

Pick(T) == CHOOSE x \in T : TRUE
Unfold(g, f, T) == IF T = {} THEN 0 ELSE g[Pick(T)] + f[T \ {Pick(T)}]
Sums(g, f, S) == f = [T \in SUBSET S |-> Unfold(g, f, T)]
Iter(g, S) == CHOOSE f : Sums(g, f, S)

LEMMA SumIsIter ==
    ASSUME NEW g, NEW S
    PROVE  Sum(g, S) = Iter(g, S)[S]
BY DEF Sum, Iter, Sums, Unfold, Pick, MapThenSumSet, MapThenFoldSet

LEMMA PickIn == \A T : T # {} => Pick(T) \in T
BY DEF Pick

(* Two solutions agree where both are defined.                             *)
LEMMA SolutionsAgree ==
    ASSUME NEW g, NEW A, NEW B, NEW f, NEW h, Sums(g, f, A), Sums(g, h, B),
           NEW S, IsFiniteSet(S), S \subseteq A, S \subseteq B
    PROVE  f[S] = h[S]
<1> DEFINE F == {T \in SUBSET S : f[T] = h[T]}
<1>1. ASSUME NEW T \in SUBSET S, \A U \in SUBSET T : U # T => U \in F
      PROVE  T \in F
  <2>1. f[T] = Unfold(g, f, T) /\ h[T] = Unfold(g, h, T)
    BY DEF Sums
  <2>2. CASE T = {}
    BY <2>1, <2>2 DEF Unfold
  <2>3. CASE T # {}
    <3>1. T \ {Pick(T)} \in SUBSET T /\ T \ {Pick(T)} # T
      BY <2>3, PickIn
    <3>2. f[T \ {Pick(T)}] = h[T \ {Pick(T)}]
      BY <1>1, <3>1
    <3> QED BY <2>1, <2>3, <3>2 DEF Unfold
  <2> QED BY <2>2, <2>3
<1> HIDE DEF F
<1>2. SUBSET S \subseteq F
  BY <1>1, SubsetInduction
<1> QED BY <1>2 DEF F

(* The recursion has a solution over every finite set.                     *)
LEMMA SumsExists ==
    ASSUME NEW g, NEW S, IsFiniteSet(S)
    PROVE  Sums(g, Iter(g, S), S)
<1> DEFINE F == {T \in SUBSET S : Sums(g, Iter(g, T), T)}
           val(V) == Iter(g, V)[V]
<1>1. ASSUME NEW T \in SUBSET S, \A U \in SUBSET T : U # T => U \in F
      PROVE  T \in F
  <2> DEFINE step(U) == IF U = {} THEN 0 ELSE g[Pick(U)] + val(U \ {Pick(U)})
             f == [U \in SUBSET T |-> step(U)]
  <2>1. ASSUME NEW V \in SUBSET T, V # T
        PROVE  val(V) = step(V)
    <3>1. Sums(g, Iter(g, V), V)
      BY <1>1, <2>1
    <3>2. val(V) = Unfold(g, Iter(g, V), V)
      BY <3>1 DEF Sums
    <3>3. CASE V = {}
      BY <3>2, <3>3 DEF Unfold
    <3>4. CASE V # {}
      <4> DEFINE W == V \ {Pick(V)}
      <4>1. W \subseteq V /\ W # T /\ W \in SUBSET T /\ W \subseteq S
        BY <2>1, <3>4, PickIn
      <4>2. Sums(g, Iter(g, W), W)
        BY <1>1, <4>1
      <4>3. IsFiniteSet(W)
        BY <4>1, FS_Subset
      <4>4. Iter(g, V)[W] = Iter(g, W)[W]
        <5> HIDE DEF W
        <5> QED BY <3>1, <4>1, <4>2, <4>3, SolutionsAgree
      <4> QED BY <3>2, <3>4, <4>4 DEF Unfold
    <3> QED BY <3>3, <3>4
  <2> HIDE DEF val, F
  <2>2. ASSUME NEW U \in SUBSET T
        PROVE  step(U) = Unfold(g, f, U)
    <3>1. CASE U = {}
      BY <3>1 DEF Unfold
    <3>2. CASE U # {}
      <4> DEFINE V == U \ {Pick(U)}
      <4>1. V \in SUBSET T /\ V # T
        BY <3>2, PickIn
      <4>2. f[V] = val(V)
        BY <2>1, <4>1
      <4> QED BY <3>2, <4>2 DEF Unfold
    <3> QED BY <3>1, <3>2
  <2>3. Sums(g, f, T)
    <3> HIDE DEF step
    <3>1. f = [U \in SUBSET T |-> Unfold(g, f, U)]
      BY <2>2
    <3> QED BY <3>1 DEF Sums
  <2> HIDE DEF f
  <2> QED BY <2>3 DEF Iter, F
<1> HIDE DEF F
<1>2. SUBSET S \subseteq F
  BY <1>1, SubsetInduction
<1> QED BY <1>2 DEF F

LEMMA SumUnfolds ==
    ASSUME NEW g, NEW S, IsFiniteSet(S)
    PROVE  Sum(g, S) = IF S = {} THEN 0 ELSE g[Pick(S)] + Sum(g, S \ {Pick(S)})
<1>1. Sums(g, Iter(g, S), S)
  BY SumsExists
<1>2. Sum(g, S) = Unfold(g, Iter(g, S), S)
  BY <1>1, SumIsIter DEF Sums
<1>3. CASE S = {}
  BY <1>2, <1>3 DEF Unfold
<1>4. CASE S # {}
  <2> DEFINE T == S \ {Pick(S)}
  <2>1. T \subseteq S /\ IsFiniteSet(T)
    BY FS_Subset
  <2>2. Sums(g, Iter(g, T), T)
    BY <2>1, SumsExists
  <2> HIDE DEF T
  <2>3. Iter(g, S)[T] = Iter(g, T)[T]
    BY <1>1, <2>1, <2>2, SolutionsAgree
  <2>4. Iter(g, S)[T] = Sum(g, T)
    BY <2>3, SumIsIter
  <2> QED BY <1>2, <1>4, <2>4 DEF Unfold, T
<1> QED BY <1>3, <1>4

-----------------------------------------------------------------------------
(* Sums of integers *)

LEMMA SumEmpty == \A g : Sum(g, {}) = 0
BY SumUnfolds, FS_EmptySet

LEMMA SumInt ==
    ASSUME NEW g, NEW S, IsFiniteSet(S), \A x \in S : g[x] \in Int
    PROVE  Sum(g, S) \in Int
<1> DEFINE F == {T \in SUBSET S : Sum(g, T) \in Int}
<1>1. ASSUME NEW T \in SUBSET S, \A U \in SUBSET T : U # T => U \in F
      PROVE  T \in F
  <2>1. CASE T = {}
    BY <2>1, SumEmpty
  <2>2. CASE T # {}
    <3>1. Pick(T) \in T /\ IsFiniteSet(T)
      BY <2>2, PickIn, FS_Subset
    <3>2. Sum(g, T \ {Pick(T)}) \in Int
      BY <1>1, <3>1
    <3>3. Sum(g, T) = g[Pick(T)] + Sum(g, T \ {Pick(T)})
      BY <2>2, <3>1, SumUnfolds
    <3> QED BY <3>1, <3>2, <3>3
  <2> QED BY <2>1, <2>2
<1> HIDE DEF F
<1>2. SUBSET S \subseteq F
  BY <1>1, SubsetInduction
<1> QED BY <1>2 DEF F

(* Any element may be taken first.                                         *)
THEOREM SumRemove ==
    ASSUME NEW g, NEW S, IsFiniteSet(S), \A x \in S : g[x] \in Int, NEW y \in S
    PROVE  Sum(g, S) = g[y] + Sum(g, S \ {y})
<1> DEFINE F == {T \in SUBSET S : \A x \in T : Sum(g, T) = g[x] + Sum(g, T \ {x})}
<1>1. ASSUME NEW T \in SUBSET S, \A U \in SUBSET T : U # T => U \in F,
             NEW x \in T
      PROVE  Sum(g, T) = g[x] + Sum(g, T \ {x})
  <2> DEFINE p == Pick(T)
             W == (T \ {p}) \ {x}
  <2>1. p \in T /\ IsFiniteSet(T)
    BY PickIn, FS_Subset
  <2>2. Sum(g, T) = g[p] + Sum(g, T \ {p})
    BY <2>1, SumUnfolds
  <2>3. CASE p = x
    BY <2>2, <2>3
  <2>4. CASE p # x
    <3> HIDE DEF p
    <3>1. Sum(g, T \ {p}) = g[x] + Sum(g, W)
      BY <1>1, <2>1, <2>4
    <3>2. Sum(g, T \ {x}) = g[p] + Sum(g, (T \ {x}) \ {p})
      BY <1>1, <2>1, <2>4
    <3>3. (T \ {x}) \ {p} = W
      OBVIOUS
    <3>4. Sum(g, W) \in Int
      BY FS_Subset, SumInt
    <3>5. g[p] \in Int /\ g[x] \in Int
      BY <2>1
    <3> DEFINE wholeSum == Sum(g, T)
               restSum == Sum(g, T \ {p})
               otherSum == Sum(g, T \ {x})
               lastSum == Sum(g, W)
    <3>6. /\ wholeSum = g[p] + restSum /\ restSum = g[x] + lastSum
          /\ otherSum = g[p] + lastSum /\ lastSum \in Int
      BY <2>2, <3>1, <3>2, <3>3, <3>4
    <3> HIDE DEF W, wholeSum, restSum, otherSum, lastSum
    <3>7. wholeSum = g[x] + otherSum
      BY <3>5, <3>6
    <3> QED BY <3>7 DEF wholeSum, otherSum
  <2> QED BY <2>3, <2>4
<1>2. ASSUME NEW T \in SUBSET S, \A U \in SUBSET T : U # T => U \in F
      PROVE  T \in F
  BY <1>1, <1>2
<1> HIDE DEF F
<1>3. SUBSET S \subseteq F
  BY <1>2, SubsetInduction
<1> QED BY <1>3 DEF F

(* A sum depends on the values at its elements and on no others.           *)
LEMMA SumAgree ==
    ASSUME NEW g, NEW h, NEW S, IsFiniteSet(S), \A x \in S : g[x] = h[x]
    PROVE  Sum(g, S) = Sum(h, S)
<1> DEFINE F == {T \in SUBSET S : Sum(g, T) = Sum(h, T)}
<1>1. ASSUME NEW T \in SUBSET S, \A U \in SUBSET T : U # T => U \in F
      PROVE  T \in F
  <2>1. CASE T = {}
    BY <2>1, SumEmpty
  <2>2. CASE T # {}
    <3>1. Pick(T) \in T /\ IsFiniteSet(T)
      BY <2>2, PickIn, FS_Subset
    <3>2. Sum(g, T \ {Pick(T)}) = Sum(h, T \ {Pick(T)})
      BY <1>1, <3>1
    <3>3. /\ Sum(g, T) = g[Pick(T)] + Sum(g, T \ {Pick(T)})
          /\ Sum(h, T) = h[Pick(T)] + Sum(h, T \ {Pick(T)})
      BY <2>2, <3>1, SumUnfolds
    <3> QED BY <3>1, <3>2, <3>3
  <2> QED BY <2>1, <2>2
<1> HIDE DEF F
<1>2. SUBSET S \subseteq F
  BY <1>1, SubsetInduction
<1> QED BY <1>2 DEF F

LEMMA SumPlus ==
    ASSUME NEW g, NEW h, NEW k, NEW S, IsFiniteSet(S),
           \A x \in S : g[x] \in Int /\ h[x] \in Int /\ k[x] = g[x] + h[x]
    PROVE  Sum(k, S) = Sum(g, S) + Sum(h, S)
<1> DEFINE F == {T \in SUBSET S : Sum(k, T) = Sum(g, T) + Sum(h, T)}
<1>1. ASSUME NEW T \in SUBSET S, \A U \in SUBSET T : U # T => U \in F
      PROVE  T \in F
  <2>1. CASE T = {}
    BY <2>1, SumEmpty
  <2>2. CASE T # {}
    <3> DEFINE p == Pick(T)
               U == T \ {p}
    <3>1. p \in T /\ IsFiniteSet(T) /\ IsFiniteSet(U)
      BY <2>2, PickIn, FS_Subset
    <3>2. Sum(k, U) = Sum(g, U) + Sum(h, U)
      BY <1>1, <3>1
    <3>3. /\ Sum(g, T) = g[p] + Sum(g, U)
          /\ Sum(h, T) = h[p] + Sum(h, U)
          /\ Sum(k, T) = k[p] + Sum(k, U)
      BY <2>2, <3>1, SumUnfolds
    <3>4. Sum(g, U) \in Int /\ Sum(h, U) \in Int
      BY <3>1, SumInt
    <3>5. g[p] \in Int /\ h[p] \in Int /\ k[p] = g[p] + h[p]
      BY <3>1
    <3> HIDE DEF p, U
    <3> QED BY <3>2, <3>3, <3>4, <3>5
  <2> QED BY <2>1, <2>2
<1> HIDE DEF F
<1>2. SUBSET S \subseteq F
  BY <1>1, SubsetInduction
<1> QED BY <1>2 DEF F

(* Elements that count nothing may be left out.                            *)
LEMMA SumSupport ==
    ASSUME NEW g, NEW S, IsFiniteSet(S), \A x \in S : g[x] \in Int,
           NEW A \in SUBSET S, \A x \in S \ A : g[x] = 0
    PROVE  Sum(g, S) = Sum(g, A)
<1> DEFINE F == {T \in SUBSET S : A \subseteq T => Sum(g, T) = Sum(g, A)}
<1>1. ASSUME NEW T \in SUBSET S, \A U \in SUBSET T : U # T => U \in F
      PROVE  T \in F
  <2> SUFFICES ASSUME A \subseteq T, A # T PROVE Sum(g, T) = Sum(g, A)
    OBVIOUS
  <2>1. PICK x \in T : x \notin A
    OBVIOUS
  <2>2. IsFiniteSet(T) /\ IsFiniteSet(T \ {x})
    BY FS_Subset
  <2>3. Sum(g, T) = g[x] + Sum(g, T \ {x})
    BY <2>2, SumRemove
  <2>4. Sum(g, T \ {x}) = Sum(g, A)
    BY <1>1, <2>1
  <2>5. Sum(g, T \ {x}) \in Int
    BY <2>2, SumInt
  <2> QED BY <2>1, <2>3, <2>4, <2>5
<1> HIDE DEF F
<1>2. SUBSET S \subseteq F
  BY <1>1, SubsetInduction
<1> QED BY <1>2 DEF F

(* What counts nothing anywhere else counts the one it is at.              *)
LEMMA SumAtOne ==
    ASSUME NEW g, NEW S, IsFiniteSet(S), NEW y \in S, g[y] \in Int,
           \A x \in S : x # y => g[x] = 0
    PROVE  Sum(g, S) = g[y]
<1>1. Sum(g, S) = Sum(g, {y})
  BY SumSupport
<1>2. Sum(g, {y}) = g[y] + Sum(g, {y} \ {y})
  BY SumRemove, FS_Singleton
<1> QED BY <1>1, <1>2, SumEmpty

(* Fewer elements sum to no more, if none counts below zero.               *)
LEMMA SumMonotone ==
    ASSUME NEW g, NEW S, IsFiniteSet(S), \A x \in S : g[x] \in Nat, NEW A \in SUBSET S
    PROVE  Sum(g, A) <= Sum(g, S)
<1> DEFINE F == {T \in SUBSET S : A \subseteq T => Sum(g, A) <= Sum(g, T)}
<1>1. ASSUME NEW T \in SUBSET S, \A U \in SUBSET T : U # T => U \in F
      PROVE  T \in F
  <2>1. \A U \in SUBSET S : IsFiniteSet(U) /\ Sum(g, U) \in Int
    BY FS_Subset, SumInt
  <2> SUFFICES ASSUME A \subseteq T PROVE Sum(g, A) <= Sum(g, T)
    OBVIOUS
  <2>2. CASE A = T
    BY <2>1, <2>2
  <2>3. CASE A # T
    <3>1. PICK x \in T : x \notin A
      BY <2>3
    <3>2. Sum(g, T) = g[x] + Sum(g, T \ {x})
      BY <2>1, SumRemove
    <3>3. Sum(g, A) <= Sum(g, T \ {x})
      BY <1>1, <3>1
    <3>4. g[x] \in Nat /\ Sum(g, T \ {x}) \in Int /\ Sum(g, A) \in Int
      BY <2>1
    <3> QED BY <3>2, <3>3, <3>4
  <2> QED BY <2>2, <2>3
<1> HIDE DEF F
<1>2. SUBSET S \subseteq F
  BY <1>1, SubsetInduction
<1> QED BY <1>2 DEF F

(* Lists that share out the elements of R between them, each to one list   *)
(* once, have as many entries together as R has elements.                  *)
THEOREM SharedOutOnce ==
    ASSUME NEW E, IsFiniteSet(E), NEW R, IsFiniteSet(R), NEW m,
           \A e \in E, r \in R : m[e][r] \in {0, 1},
           \A r \in R : \E e \in E : m[e][r] = 1 /\ \A f \in E : f # e => m[f][r] = 0
    PROVE  Sum([e \in E |-> Sum(m[e], R)], E) = Cardinality(R)
<1> DEFINE share(T) == [e \in E |-> Sum(m[e], T)]
           F == {T \in SUBSET R : Sum(share(T), E) = Cardinality(T)}
<1>1. ASSUME NEW T \in SUBSET R, \A U \in SUBSET T : U # T => U \in F
      PROVE  T \in F
  <2>1. \A U \in SUBSET R : IsFiniteSet(U) /\ \A e \in E : Sum(m[e], U) \in Int
    <3> SUFFICES ASSUME NEW U \in SUBSET R, NEW e \in E
                 PROVE  IsFiniteSet(U) /\ Sum(m[e], U) \in Int
      BY FS_Subset
    <3>1. \A r \in U : m[e][r] \in Int
      OBVIOUS
    <3> QED BY <3>1, FS_Subset, SumInt
  <2>2. CASE T = {}
    <3>1. \A e \in E : share(T)[e] \in Int /\ share(T)[e] = 0
      BY <2>2, SumEmpty
    <3>2. Sum(share(T), E) = Sum(share(T), {})
      BY <3>1, SumSupport
    <3> QED BY <2>2, <3>2, SumEmpty, FS_EmptySet
  <2>3. CASE T # {}
    <3>1. PICK r \in T : TRUE
      BY <2>3
    <3> DEFINE U == T \ {r}
               one == [e \in E |-> m[e][r]]
    <3>2. U \in SUBSET R /\ U # T
      BY <3>1
    <3>3. ASSUME NEW e \in E
          PROVE  /\ Sum(m[e], T) = m[e][r] + Sum(m[e], U)
                 /\ m[e][r] \in Int /\ Sum(m[e], U) \in Int
      <4>1. \A q \in T : m[e][q] \in Int
        OBVIOUS
      <4> QED BY <2>1, <3>2, <4>1, SumRemove
    <3>4. Sum(share(T), E) = Sum(one, E) + Sum(share(U), E)
      <4>1. \A e \in E : /\ one[e] \in Int /\ share(U)[e] \in Int
                         /\ share(T)[e] = one[e] + share(U)[e]
        BY <3>3
      <4> HIDE DEF one, U, share
      <4> QED BY <4>1, SumPlus
    <3>5. Sum(one, E) = 1
      <4>1. PICK e \in E : m[e][r] = 1 /\ \A f \in E : f # e => m[f][r] = 0
        OBVIOUS
      <4>2. one[e] = 1 /\ \A f \in E : f # e => one[f] = 0
        BY <4>1
      <4> HIDE DEF one
      <4> QED BY <4>2, SumAtOne
    <3>6. Sum(share(U), E) = Cardinality(U)
      BY <1>1, <3>2
    <3>7. Cardinality(U) = Cardinality(T) - 1 /\ Cardinality(T) \in Nat
      BY <2>1, <3>1, FS_RemoveElement, FS_CardinalityType
    <3> QED BY <3>4, <3>5, <3>6, <3>7
  <2> QED BY <2>2, <2>3
<1> HIDE DEF F
<1>2. SUBSET R \subseteq F
  BY <1>1, SubsetInduction
<1> QED BY <1>2 DEF F

=============================================================================
