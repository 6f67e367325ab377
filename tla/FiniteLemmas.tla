---------------------------- MODULE FiniteLemmas ----------------------------
(***************************************************************************)
(* Lemmas about the operators on finite sets that the optimizer's modules  *)
(* are built from: sums over a set, the first of a ranking, the rounds of  *)
(* a loop.  The induction each of them needs is over the subsets of a      *)
(* finite set: a smallest counterexample would have a smaller one.         *)
(***************************************************************************)
EXTENDS Integers, FiniteSetsExt, FiniteSetTheorems, WellFoundedInduction, TLAPS

LEMMA SmallestSet ==
  ASSUME NEW S, IsFiniteSet(S), NEW Bad, Bad \subseteq SUBSET S, Bad # {}
  PROVE  \E T \in Bad : \A U \in SUBSET T : U # T => U \notin Bad
<1>1. Bad \subseteq FiniteSubsetsOf(S)
  BY FS_FiniteSubsetsOfFinite
<1>2. PICK T \in Bad : \A U \in Bad : <<U, T>> \notin StrictSubsetOrdering(S)
  BY <1>1, FS_StrictSubsetOrderingWellFounded, WFMin
<1>3. ASSUME NEW U \in Bad, U \subseteq T, U # T PROVE FALSE
  <2>1. <<U, T>> \in StrictSubsetOrdering(S)
    BY <1>3 DEF StrictSubsetOrdering
  <2> QED
    BY <1>2, <2>1
<1> QED
  BY <1>3

-----------------------------------------------------------------------------
(* Sums.                                                                     *)
-----------------------------------------------------------------------------
Pick(T) == CHOOSE x \in T : TRUE

IsSum(f, S, g) ==
  g = [T \in SUBSET S |-> IF T = {} THEN 0 ELSE f[Pick(T)] + g[T \ {Pick(T)}]]

SumBy(f, S) == CHOOSE g : IsSum(f, S, g)

LEMMA SumIsSum ==
  ASSUME NEW f, NEW S
  PROVE  SumFunctionOnSet(f, S) = SumBy(f, S)[S]
BY DEF SumFunctionOnSet, FoldFunctionOnSet, MapThenFoldSet, SumBy, IsSum, Pick

LEMMA Picked == \A T : T # {} => Pick(T) \in T
BY DEF Pick

Unfolds(f, S, g) ==
  \A T \in SUBSET S : g[T] = IF T = {} THEN 0 ELSE f[Pick(T)] + g[T \ {Pick(T)}]

LEMMA SumStep ==
  ASSUME NEW f, NEW S, NEW g, IsSum(f, S, g)
  PROVE  Unfolds(f, S, g)
<1> DEFINE Rhs(U) == IF U = {} THEN 0 ELSE f[Pick(U)] + g[U \ {Pick(U)}]
<1>1. g = [U \in SUBSET S |-> Rhs(U)]
  BY Zenon DEF IsSum
<1> HIDE DEF Rhs
<1>2. \A T \in SUBSET S : g[T] = Rhs(T)
  BY <1>1
<1> QED
  BY <1>2 DEF Rhs, Unfolds

LEMMA SumsAgree ==
  ASSUME NEW f, NEW S, NEW g, IsSum(f, S, g), NEW R, NEW h, IsSum(f, R, h),
         NEW V, IsFiniteSet(V), V \subseteq S, V \subseteq R
  PROVE  g[V] = h[V]
<1>0. /\ \A U \in SUBSET S : g[U] = IF U = {} THEN 0 ELSE f[Pick(U)] + g[U \ {Pick(U)}]
      /\ \A U \in SUBSET R : h[U] = IF U = {} THEN 0 ELSE f[Pick(U)] + h[U \ {Pick(U)}]
  BY SumStep DEF Unfolds
<1> DEFINE Bad == {U \in SUBSET V : g[U] # h[U]}
<1>1. SUFFICES ASSUME Bad # {} PROVE FALSE
  OBVIOUS
<1>2. PICK T \in Bad : \A U \in SUBSET T : U # T => U \notin Bad
  <2> HIDE DEF Bad
  <2>1. Bad \subseteq SUBSET V
    BY DEF Bad
  <2> QED
    BY <1>1, <2>1, SmallestSet
<1>3. T \in SUBSET V /\ g[T] # h[T]
  OBVIOUS
<1>4. T \in SUBSET S /\ T \in SUBSET R
  BY <1>3
<1>5. /\ g[T] = IF T = {} THEN 0 ELSE f[Pick(T)] + g[T \ {Pick(T)}]
      /\ h[T] = IF T = {} THEN 0 ELSE f[Pick(T)] + h[T \ {Pick(T)}]
  BY <1>0, <1>4
<1>6. T # {}
  BY <1>3, <1>5
<1> DEFINE U == T \ {Pick(T)}
<1>7. U \in SUBSET T /\ U # T
  BY <1>6, Picked
<1>8. g[U] = h[U]
  BY <1>2, <1>3, <1>7
<1> QED
  BY <1>3, <1>5, <1>6, <1>8

LEMMA SumExists ==
  ASSUME NEW f, NEW S, IsFiniteSet(S)
  PROVE  IsSum(f, S, SumBy(f, S))
<1> DEFINE Good(T) == \E g : IsSum(f, T, g)
           Bad == {T \in SUBSET S : ~ Good(T)}
<1>1. \A T : Good(T) => IsSum(f, T, SumBy(f, T))
  BY DEF SumBy
<1>2. SUFFICES ASSUME Bad # {} PROVE FALSE
  <2>1. Bad = {} => Good(S)
    OBVIOUS
  <2> QED
    BY <1>1, <2>1
<1>3. PICK T \in Bad : \A U \in SUBSET T : U # T => U \notin Bad
  <2> HIDE DEF Bad
  <2>1. Bad \subseteq SUBSET S
    BY DEF Bad
  <2> QED
    BY <1>2, <2>1, SmallestSet
<1>4. T \in SUBSET S /\ ~ Good(T)
  OBVIOUS
<1>5. ASSUME NEW U \in SUBSET T, U # T PROVE IsSum(f, U, SumBy(f, U)) /\ IsFiniteSet(U)
  <2>1. U \in SUBSET S /\ U \notin Bad
    BY <1>3, <1>4, <1>5
  <2>2. Good(U)
    BY <2>1
  <2> HIDE DEF Good
  <2> QED
    BY <1>1, <2>1, <2>2, FS_Subset
<1> HIDE DEF Good, Bad
<1> DEFINE val(U) == IF U = {} THEN 0
                     ELSE f[Pick(U)] + SumBy(f, U \ {Pick(U)})[U \ {Pick(U)}]
           g == [U \in SUBSET T |-> val(U)]
<1>6. ASSUME NEW V \in SUBSET T, V # T PROVE SumBy(f, V)[V] = val(V)
  <2>1. SumBy(f, V)[V] = IF V = {} THEN 0 ELSE f[Pick(V)] + SumBy(f, V)[V \ {Pick(V)}]
    BY <1>5, <1>6, SumStep, V \in SUBSET V DEF Unfolds
  <2>2. CASE V = {}
    BY <2>1, <2>2
  <2>3. CASE V # {}
    <3> DEFINE W == V \ {Pick(V)}
    <3>1. W \in SUBSET T /\ W # T /\ W \subseteq V
      BY <1>6, <2>3, Picked
    <3> HIDE DEF W
    <3>2. SumBy(f, V)[W] = SumBy(f, W)[W]
      BY <1>5, <1>6, <3>1, SumsAgree
    <3> QED
      BY <2>1, <2>3, <3>2 DEF W
  <2> QED
    BY <2>2, <2>3
<1>7. ASSUME NEW U \in SUBSET T
      PROVE  val(U) = IF U = {} THEN 0 ELSE f[Pick(U)] + g[U \ {Pick(U)}]
  <2>1. CASE U = {}
    BY <2>1
  <2>2. CASE U # {}
    <3> DEFINE W == U \ {Pick(U)}
    <3>1. W \in SUBSET T /\ W # T
      BY <2>2, Picked
    <3>2. g[W] = val(W)
      <4> HIDE DEF val, W
      <4> QED
        BY <3>1
    <3>3. SumBy(f, W)[W] = val(W)
      <4> HIDE DEF val, W
      <4> QED
        BY <3>1, <1>6
    <3> QED
      BY <2>2, <3>2, <3>3
  <2> QED
    BY <2>1, <2>2
<1>8. g = [U \in SUBSET T |-> IF U = {} THEN 0 ELSE f[Pick(U)] + g[U \ {Pick(U)}]]
  <2> DEFINE rhs(U) == IF U = {} THEN 0 ELSE f[Pick(U)] + g[U \ {Pick(U)}]
  <2>1. \A U \in SUBSET T : val(U) = rhs(U)
    BY <1>7
  <2> HIDE DEF val, rhs
  <2>2. [U \in SUBSET T |-> val(U)] = [U \in SUBSET T |-> rhs(U)]
    BY <2>1
  <2> QED
    BY <2>2 DEF rhs
<1>9. IsSum(f, T, g)
  <2> HIDE DEF g
  <2> QED
    BY <1>8, Zenon DEF IsSum
<1> QED
  BY <1>4, <1>9 DEF Good

LEMMA SumUnfolds ==
  ASSUME NEW f, NEW S, IsFiniteSet(S)
  PROVE  SumFunctionOnSet(f, S) =
           IF S = {} THEN 0 ELSE f[Pick(S)] + SumFunctionOnSet(f, S \ {Pick(S)})
<1>1. SumBy(f, S)[S] = IF S = {} THEN 0 ELSE f[Pick(S)] + SumBy(f, S)[S \ {Pick(S)}]
  BY SumExists, SumStep, S \in SUBSET S DEF Unfolds
<1>2. CASE S = {}
  BY <1>1, <1>2, SumIsSum
<1>3. CASE S # {}
  <2> DEFINE W == S \ {Pick(S)}
  <2>1. W \subseteq S /\ IsFiniteSet(W)
    BY FS_RemoveElement
  <2> HIDE DEF W
  <2>2. SumBy(f, S)[W] = SumBy(f, W)[W]
    BY <2>1, SumExists, SumsAgree
  <2>3. SumFunctionOnSet(f, W) = SumBy(f, W)[W] /\ SumFunctionOnSet(f, S) = SumBy(f, S)[S]
    BY SumIsSum
  <2> QED
    BY <1>1, <1>3, <2>2, <2>3 DEF W
<1> QED
  BY <1>2, <1>3

LEMMA SumIsNatural ==
  ASSUME NEW f, NEW S, IsFiniteSet(S), \A x \in S : f[x] \in Nat
  PROVE  SumFunctionOnSet(f, S) \in Nat
<1> DEFINE Bad == {U \in SUBSET S : SumFunctionOnSet(f, U) \notin Nat}
<1>1. SUFFICES ASSUME Bad # {} PROVE FALSE
  BY S \in SUBSET S
<1>2. PICK T \in Bad : \A U \in SUBSET T : U # T => U \notin Bad
  <2> HIDE DEF Bad
  <2>1. Bad \subseteq SUBSET S
    BY DEF Bad
  <2> QED
    BY <1>1, <2>1, SmallestSet
<1>3. T \in SUBSET S /\ SumFunctionOnSet(f, T) \notin Nat /\ IsFiniteSet(T)
  BY FS_Subset
<1>4. SumFunctionOnSet(f, T) =
        IF T = {} THEN 0 ELSE f[Pick(T)] + SumFunctionOnSet(f, T \ {Pick(T)})
  BY <1>3, SumUnfolds
<1>5. T # {} /\ Pick(T) \in T
  BY <1>3, <1>4, Picked
<1> DEFINE U == T \ {Pick(T)}
<1>6. U \in SUBSET T /\ U # T
  BY <1>5
<1>7. SumFunctionOnSet(f, U) \in Nat
  BY <1>2, <1>3, <1>6
<1> QED
  BY <1>3, <1>4, <1>5, <1>7

(* Any element may be taken out of a sum. *)
LEMMA SumSplits ==
  ASSUME NEW f, NEW S, IsFiniteSet(S), \A y \in S : f[y] \in Nat, NEW x \in S
  PROVE  SumFunctionOnSet(f, S) = f[x] + SumFunctionOnSet(f, S \ {x})
<1> DEFINE Splits(U) == \A y \in U : SumFunctionOnSet(f, U) = f[y] + SumFunctionOnSet(f, U \ {y})
           Bad == {U \in SUBSET S : ~ Splits(U)}
<1>1. SUFFICES ASSUME Bad # {} PROVE FALSE
  <2>1. Bad = {} => Splits(S)
    OBVIOUS
  <2> QED
    BY <2>1
<1>2. PICK T \in Bad : \A U \in SUBSET T : U # T => U \notin Bad
  <2> HIDE DEF Bad
  <2>1. Bad \subseteq SUBSET S
    BY DEF Bad
  <2> QED
    BY <1>1, <2>1, SmallestSet
<1>3. T \in SUBSET S /\ ~ Splits(T) /\ IsFiniteSet(T)
  BY FS_Subset
<1>4. \A U \in SUBSET T : U # T => Splits(U)
  BY <1>2, <1>3
<1> HIDE DEF Bad
<1>5. PICK y \in T : SumFunctionOnSet(f, T) # f[y] + SumFunctionOnSet(f, T \ {y})
  BY <1>3
<1> DEFINE p == Pick(T)
<1>6. p \in T /\ SumFunctionOnSet(f, T) = f[p] + SumFunctionOnSet(f, T \ {p})
  BY <1>3, <1>5, SumUnfolds, Picked
<1> HIDE DEF p
<1>7. y # p
  BY <1>5, <1>6
<1>8. SumFunctionOnSet(f, T \ {p}) = f[y] + SumFunctionOnSet(f, (T \ {p}) \ {y})
  BY <1>4, <1>5, <1>6, <1>7
<1>9. SumFunctionOnSet(f, T \ {y}) = f[p] + SumFunctionOnSet(f, (T \ {y}) \ {p})
  BY <1>4, <1>5, <1>6, <1>7
<1>10. (T \ {y}) \ {p} = (T \ {p}) \ {y}
  OBVIOUS
<1> DEFINE W == (T \ {p}) \ {y}
<1>11. SumFunctionOnSet(f, W) \in Nat
  <2>1. W \subseteq S /\ IsFiniteSet(W)
    BY <1>3, FS_RemoveElement
  <2> QED
    BY <2>1, SumIsNatural
<1>12. f[p] \in Nat /\ f[y] \in Nat
  BY <1>3, <1>5, <1>6
<1>13. f[p] + (f[y] + SumFunctionOnSet(f, W)) = f[y] + (f[p] + SumFunctionOnSet(f, W))
  BY <1>11, <1>12
<1> HIDE DEF W
<1>14. SumFunctionOnSet(f, T) = f[p] + (f[y] + SumFunctionOnSet(f, W))
  BY <1>6, <1>8 DEF W
<1>15. SumFunctionOnSet(f, T \ {y}) = f[p] + SumFunctionOnSet(f, W)
  BY <1>9, <1>10 DEF W
<1> QED
  BY <1>5, <1>13, <1>14, <1>15

(* A sum depends on the values at the elements only. *)
LEMMA SumsEqual ==
  ASSUME NEW f, NEW h, NEW S, IsFiniteSet(S), \A x \in S : f[x] = h[x]
  PROVE  SumFunctionOnSet(f, S) = SumFunctionOnSet(h, S)
<1> DEFINE Bad == {U \in SUBSET S : SumFunctionOnSet(f, U) # SumFunctionOnSet(h, U)}
<1>1. SUFFICES ASSUME Bad # {} PROVE FALSE
  BY S \in SUBSET S
<1>2. PICK T \in Bad : \A U \in SUBSET T : U # T => U \notin Bad
  <2> HIDE DEF Bad
  <2>1. Bad \subseteq SUBSET S
    BY DEF Bad
  <2> QED
    BY <1>1, <2>1, SmallestSet
<1>3. /\ T \in SUBSET S /\ IsFiniteSet(T)
      /\ SumFunctionOnSet(f, T) # SumFunctionOnSet(h, T)
  BY FS_Subset
<1>4. /\ SumFunctionOnSet(f, T) =
           IF T = {} THEN 0 ELSE f[Pick(T)] + SumFunctionOnSet(f, T \ {Pick(T)})
      /\ SumFunctionOnSet(h, T) =
           IF T = {} THEN 0 ELSE h[Pick(T)] + SumFunctionOnSet(h, T \ {Pick(T)})
  BY <1>3, SumUnfolds
<1>5. T # {} /\ Pick(T) \in T
  BY <1>3, <1>4, Picked
<1> DEFINE U == T \ {Pick(T)}
<1>6. U \in SUBSET T /\ U # T
  BY <1>5
<1>7. SumFunctionOnSet(f, U) = SumFunctionOnSet(h, U)
  BY <1>2, <1>3, <1>6
<1>8. f[Pick(T)] = h[Pick(T)]
  BY <1>3, <1>5
<1> QED
  BY <1>3, <1>4, <1>5, <1>7, <1>8

-----------------------------------------------------------------------------
(* Rankings.                                                                 *)
-----------------------------------------------------------------------------
LeadsAll(R, T, x) == \A y \in T \ {x} : <<x, y>> \in R

(* A total and transitive ranking of finitely many things has a first one.   *)
LEMMA RankingHasFirst ==
  ASSUME NEW D, IsFiniteSet(D), D # {}, NEW R,
         \A x, y \in D : x # y => <<x, y>> \in R \/ <<y, x>> \in R,
         \A x, y, z \in D : <<x, y>> \in R /\ <<y, z>> \in R => <<x, z>> \in R
  PROVE  \E x \in D : LeadsAll(R, D, x)
<1> DEFINE Leaderless == {T \in SUBSET D : T # {} /\ \A x \in T : ~LeadsAll(R, T, x)}
<1>1. SUFFICES ASSUME \A x \in D : ~LeadsAll(R, D, x) PROVE FALSE
  OBVIOUS
<1>2. D \in Leaderless
  BY <1>1
<1>3. PICK T \in Leaderless : \A U \in SUBSET T : U # T => U \notin Leaderless
  <2> HIDE DEF Leaderless
  <2>1. Leaderless \subseteq SUBSET D
    BY DEF Leaderless
  <2> QED
    BY <1>2, <2>1, SmallestSet
<1>4. T \subseteq D /\ T # {} /\ \A x \in T : ~LeadsAll(R, T, x)
  OBVIOUS
<1>5. PICK x \in T : TRUE
  BY <1>4
<1> DEFINE U == T \ {x}
<1>6. U \subseteq D /\ U \in SUBSET T /\ U # T
  BY <1>4, <1>5
<1>7. U \notin Leaderless
  BY <1>3, <1>6
<1>8. CASE U = {}
  <2>1. LeadsAll(R, T, x)
    BY <1>8 DEF LeadsAll
  <2> QED
    BY <1>4, <1>5, <2>1
<1>9. CASE U # {}
  <2>1. PICK y \in U : LeadsAll(R, U, y)
    BY <1>6, <1>7, <1>9
  <2>2. y \in T /\ x \in D /\ y \in D /\ x # y
    BY <1>4, <1>5, <2>1
  <2>3. CASE <<x, y>> \in R
    <3>1. ASSUME NEW z \in T \ {x} PROVE <<x, z>> \in R
      BY <1>4, <2>1, <2>2, <2>3 DEF LeadsAll
    <3> QED
      BY <1>4, <1>5, <3>1 DEF LeadsAll
  <2>4. CASE <<y, x>> \in R
    <3>1. ASSUME NEW z \in T \ {y} PROVE <<y, z>> \in R
      BY <2>1, <2>4 DEF LeadsAll
    <3> QED
      BY <1>4, <2>2, <3>1 DEF LeadsAll
  <2> QED
    BY <2>2, <2>3, <2>4
<1> QED
  BY <1>8, <1>9

-----------------------------------------------------------------------------
(* Numbers.                                                                  *)
-----------------------------------------------------------------------------
LEMMA SmallestNumber ==
  ASSUME NEW Bad, Bad \subseteq Nat, Bad # {}
  PROVE  \E n \in Bad : \A m \in Nat : m < n => m \notin Bad
<1>1. PICK n \in Bad : \A m \in Bad : <<m, n>> \notin OpToRel(<, Nat)
  BY NatLessThanWellFounded, WFMin
<1>2. ASSUME NEW m \in Bad, m < n PROVE FALSE
  BY <1>1, <1>2 DEF OpToRel
<1> QED
  BY <1>2
=============================================================================
