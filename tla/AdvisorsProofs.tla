--------------------------- MODULE AdvisorsProofs ---------------------------
(***************************************************************************)
(* What the gear, upgrade and skill advisors promise, for every finite     *)
(* catalog, every account and every amount of gold.                        *)
(***************************************************************************)
EXTENDS Advisors, FiniteLemmas

-----------------------------------------------------------------------------
(* max_affordable_levels: what the loop has bought after n rounds.           *)
-----------------------------------------------------------------------------
Purchase == [levels : Nat, cost : Nat]
Nothing == [levels |-> 0, cost |-> 0]

BuyOne(lvl, money, bought) ==
  LET next == UpgradeCost * (lvl + bought.levels)
  IN IF bought.cost + next > money THEN bought
     ELSE [levels |-> bought.levels + 1, cost |-> bought.cost + next]

IsLoop(lvl, money, m, g) ==
  g = [n \in 0 .. m |-> IF n = 0 THEN Nothing ELSE BuyOne(lvl, money, g[n - 1])]

Loop(lvl, money) == CHOOSE g : IsLoop(lvl, money, MaxUpgradeLevels, g)

LEMMA AffordableIsLoop ==
  ASSUME NEW lvl, NEW money
  PROVE  Affordable(lvl, money) = Loop(lvl, money)[MaxUpgradeLevels]
BY DEF Affordable, Loop, IsLoop, BuyOne, Nothing

LEMMA LoopExists ==
  ASSUME NEW lvl, NEW money
  PROVE  IsLoop(lvl, money, MaxUpgradeLevels, Loop(lvl, money))
<1> DEFINE Good(m) == \E g : IsLoop(lvl, money, m, g)
           Bad == {m \in Nat : ~ Good(m)}
<1>1. SUFFICES ASSUME Bad # {} PROVE FALSE
  <2>1. Bad = {} => Good(MaxUpgradeLevels)
    BY AdvisorAssumption
  <2> QED
    BY <2>1 DEF Loop
<1>2. PICK m \in Bad : \A k \in Nat : k < m => k \notin Bad
  <2> HIDE DEF Bad
  <2>1. Bad \subseteq Nat
    BY DEF Bad
  <2> QED
    BY <1>1, <2>1, SmallestNumber
<1>3. m \in Nat /\ ~ Good(m)
  OBVIOUS
<1>4. m # 0 => Good(m - 1)
  BY <1>2, <1>3
<1> HIDE DEF Bad
<1>5. CASE m = 0
  <2> DEFINE g == [n \in 0 .. 0 |-> Nothing]
  <2>1. g = [n \in 0 .. 0 |-> IF n = 0 THEN Nothing ELSE BuyOne(lvl, money, g[n - 1])]
    <3>1. \A n \in 0 .. 0 : n = 0
      OBVIOUS
    <3> QED
      BY <3>1
  <2> HIDE DEF g
  <2>2. IsLoop(lvl, money, 0, g)
    BY <2>1 DEF IsLoop
  <2> QED
    BY <1>3, <1>5, <2>2
<1>6. CASE m # 0
  <2>1. PICK h : IsLoop(lvl, money, m - 1, h)
    BY <1>4, <1>6
  <2> DEFINE rhs(f, n) == IF n = 0 THEN Nothing ELSE BuyOne(lvl, money, f[n - 1])
  <2>2. h = [n \in 0 .. m - 1 |-> rhs(h, n)]
    BY <2>1, Zenon DEF IsLoop
  <2> DEFINE g == [n \in 0 .. m |-> rhs(h, n)]
  <2>3. ASSUME NEW n \in 0 .. m PROVE rhs(h, n) = rhs(g, n)
    <3>1. CASE n = 0
      BY <3>1
    <3>2. CASE n # 0
      <4>1. n - 1 \in 0 .. m - 1 /\ n - 1 \in 0 .. m
        BY <1>3, <3>2
      <4>2. h[n - 1] = rhs(h, n - 1) /\ g[n - 1] = rhs(h, n - 1)
        <5> HIDE DEF rhs
        <5> QED
          BY <2>2, <4>1
      <4> HIDE DEF g
      <4>3. h[n - 1] = g[n - 1]
        BY <4>2
      <4> QED
        BY <3>2, <4>3
    <3> QED
      BY <3>1, <3>2
  <2>4. g = [n \in 0 .. m |-> rhs(g, n)]
    <3> HIDE DEF rhs
    <3> QED
      BY <2>3
  <2>5. IsLoop(lvl, money, m, g)
    <3> HIDE DEF g
    <3> QED
      BY <2>4, Zenon DEF IsLoop
  <2> QED
    BY <1>3, <2>5
<1> QED
  BY <1>5, <1>6

LEMMA NextPrice ==
  ASSUME NEW lvl \in Nat, NEW n \in Nat
  PROVE  /\ PriceOf(lvl, n) \in Int
         /\ PriceOf(lvl, n + 1) = PriceOf(lvl, n) + UpgradeCost * (lvl + n)
         /\ PriceOf(lvl, 0) = 0
<1> DEFINE h == n * (n - 1)
<1>1. h \in Int /\ (n + 1) * ((n + 1) - 1) = h + 2 * n
  OBVIOUS
<1> HIDE DEF h
<1>2. ((n + 1) * ((n + 1) - 1)) \div 2 = (h \div 2) + n /\ h \div 2 \in Int
  BY <1>1
<1> DEFINE k == h \div 2
<1>3. (n + 1) * lvl = n * lvl + lvl /\ n * lvl \in Int
  OBVIOUS
<1> DEFINE j == n * lvl
<1>4. UpgradeCost \in Nat \ {0}
  BY AdvisorAssumption
<1> HIDE DEF k, j
<1>5. j \in Int /\ k \in Int
  BY <1>2, <1>3 DEF j, k
<1>6. PriceOf(lvl, n) = UpgradeCost * (j + k)
  BY DEF PriceOf, j, k, h
<1>7. PriceOf(lvl, n + 1) = UpgradeCost * ((j + lvl) + (k + n))
  BY <1>2, <1>3 DEF PriceOf, j, k
<1>8. UpgradeCost * ((j + lvl) + (k + n)) = UpgradeCost * (j + k) + UpgradeCost * (lvl + n)
  BY <1>4, <1>5
<1>9. PriceOf(lvl, 0) = 0
  BY <1>4 DEF PriceOf
<1> QED
  BY <1>4, <1>5, <1>6, <1>7, <1>8, <1>9

\* What n rounds have bought: as many levels as can be paid, at their price.
Bought(lvl, money, n, bought) ==
  /\ bought \in Purchase
  /\ bought.levels <= n
  /\ bought.cost = PriceOf(lvl, bought.levels)
  /\ bought.cost <= money
  /\ bought.levels < n => PriceOf(lvl, bought.levels + 1) > money

LEMMA BuyOneBuys ==
  ASSUME NEW lvl \in Nat, NEW money \in Nat, NEW n \in Nat, NEW bought,
         Bought(lvl, money, n, bought)
  PROVE  Bought(lvl, money, n + 1, BuyOne(lvl, money, bought))
<1> DEFINE l == bought.levels
           c == bought.cost
           next == UpgradeCost * (lvl + l)
<1>1. l \in Nat /\ c \in Nat /\ UpgradeCost \in Nat \ {0}
  BY AdvisorAssumption DEF Bought, Purchase
<1>2. next \in Nat
  BY <1>1
<1>3. PriceOf(lvl, l + 1) = PriceOf(lvl, l) + next /\ PriceOf(lvl, l) = c
  BY <1>1, NextPrice DEF Bought
<1>4. CASE c + next > money
  <2>1. BuyOne(lvl, money, bought) = bought
    BY <1>4 DEF BuyOne
  <2>2. PriceOf(lvl, l + 1) > money
    BY <1>3, <1>4
  <2> QED
    BY <1>1, <2>1, <2>2 DEF Bought
<1>5. CASE ~(c + next > money)
  <2>1. BuyOne(lvl, money, bought) = [levels |-> l + 1, cost |-> c + next]
    BY <1>5 DEF BuyOne
  <2>2. l = n
    BY <1>1, <1>2, <1>3, <1>5 DEF Bought
  <2> HIDE DEF next, l, c
  <2> QED
    BY <1>1, <1>2, <1>3, <1>5, <2>1, <2>2 DEF Bought, Purchase
<1> QED
  BY <1>4, <1>5

LEMMA AffordableBuys ==
  ASSUME NEW lvl \in Nat, NEW money \in Nat
  PROVE  Bought(lvl, money, MaxUpgradeLevels, Affordable(lvl, money))
<1> DEFINE g == Loop(lvl, money)
           rhs(n) == IF n = 0 THEN Nothing ELSE BuyOne(lvl, money, g[n - 1])
           Bad == {n \in 0 .. MaxUpgradeLevels : ~ Bought(lvl, money, n, g[n])}
<1>1. \A n \in 0 .. MaxUpgradeLevels : g[n] = rhs(n)
  <2>1. g = [n \in 0 .. MaxUpgradeLevels |-> rhs(n)]
    BY LoopExists, Zenon DEF IsLoop
  <2> HIDE DEF rhs
  <2> QED
    BY <2>1
<1> HIDE DEF g
<1>2. SUFFICES ASSUME Bad # {} PROVE FALSE
  <2>1. Bad = {} => Bought(lvl, money, MaxUpgradeLevels, g[MaxUpgradeLevels])
    BY AdvisorAssumption
  <2> QED
    BY <2>1, AffordableIsLoop DEF g
<1>3. PICK m \in Bad : \A k \in Nat : k < m => k \notin Bad
  <2> HIDE DEF Bad
  <2>1. Bad \subseteq Nat
    BY AdvisorAssumption DEF Bad
  <2> QED
    BY <1>2, <2>1, SmallestNumber
<1>4. m \in 0 .. MaxUpgradeLevels /\ ~ Bought(lvl, money, m, g[m]) /\ MaxUpgradeLevels \in Nat
  BY AdvisorAssumption
<1>5. m # 0 => Bought(lvl, money, m - 1, g[m - 1])
  BY <1>3, <1>4
<1> HIDE DEF Bad
<1>6. CASE m = 0
  <2>1. g[m] = Nothing
    BY <1>1, <1>4, <1>6
  <2>2. Bought(lvl, money, 0, Nothing)
    BY NextPrice DEF Bought, Nothing, Purchase
  <2> QED
    BY <1>4, <1>6, <2>1, <2>2
<1>7. CASE m # 0
  <2>1. g[m] = BuyOne(lvl, money, g[m - 1])
    BY <1>1, <1>4, <1>7
  <2>2. m - 1 \in Nat /\ (m - 1) + 1 = m
    BY <1>4, <1>7
  <2>3. Bought(lvl, money, (m - 1) + 1, BuyOne(lvl, money, g[m - 1]))
    BY <1>5, <1>7, <2>2, BuyOneBuys
  <2> QED
    BY <1>4, <2>1, <2>2, <2>3
<1> QED
  BY <1>6, <1>7

-----------------------------------------------------------------------------
(* The context: one contribution more or less, one changed.                  *)
-----------------------------------------------------------------------------
Worn(worn_, level_, s) == SumFunction([i \in worn_ |-> Contribution(i, level_[i])[s]])
Chosen(selected_, s) == SumFunction([k \in selected_ |-> SkillContribution(k)[s]])

LEMMA ContextIs ==
  ASSUME NEW w, NEW l, NEW sel, NEW s \in Stat
  PROVE  Context(w, l, sel)[s] = Baseline[s] * Unit + Worn(w, l, s) + Chosen(sel, s)
BY DEF Context, Worn, Chosen

LEMMA ContributionType ==
  ASSUME NEW i \in Item, NEW lvl \in Nat, NEW s \in Stat
  PROVE  Contribution(i, lvl)[s] \in Nat
<1>1. Base[i][s] \in Nat /\ Stars[i] \in Nat
  BY CatalogAssumption
<1>2. LevelMultiplier(lvl) \in Nat /\ StarMultiplier(Stars[i]) \in Nat /\ Unit \in Nat
  BY <1>1 DEF LevelMultiplier, StarMultiplier, Unit
<1>3. Contribution(i, lvl)[s] =
        Base[i][s] * (IF s \in Grows[i] THEN LevelMultiplier(lvl) * StarMultiplier(Stars[i])
                                        ELSE Unit)
  BY DEF Contribution
<1>4. \A x, y \in Nat : x * y \in Nat
  OBVIOUS
<1> QED
  BY <1>1, <1>2, <1>3, <1>4

LEMMA SkillType ==
  ASSUME NEW k \in Skill, NEW s \in Stat
  PROVE  SkillContribution(k)[s] \in Nat
<1>1. Effect[k][s] \in Nat /\ Unit \in Nat
  BY CatalogAssumption DEF Unit
<1>2. SkillContribution(k)[s] = Effect[k][s] * Unit
  BY DEF SkillContribution
<1>3. \A x, y \in Nat : x * y \in Nat
  OBVIOUS
<1> QED
  BY <1>1, <1>2, <1>3

LEMMA BaselineType == ASSUME NEW s \in Stat PROVE Baseline[s] * Unit \in Int
BY CatalogAssumption DEF Unit

LEMMA SumIs ==
  ASSUME NEW f PROVE SumFunction(f) = SumFunctionOnSet(f, DOMAIN f)
BY DEF SumFunction

Levels == [Item -> Nat]

LEMMA LevelType == ASSUME NEW l \in Levels, NEW i \in Item PROVE l[i] \in Nat
BY DEF Levels

LEMMA WornIsNatural ==
  ASSUME NEW w \in SUBSET Item, NEW l \in Levels, NEW s \in Stat
  PROVE  Worn(w, l, s) \in Nat
<1> DEFINE f == [i \in w |-> Contribution(i, l[i])[s]]
<1>1. \A i \in w : f[i] \in Nat
  BY ContributionType DEF Levels
<1>2. IsFiniteSet(w) /\ DOMAIN f = w
  BY CatalogAssumption, FS_Subset
<1>3. Worn(w, l, s) = SumFunctionOnSet(f, w)
  BY <1>2, SumIs DEF Worn
<1> HIDE DEF f
<1> QED
  BY <1>1, <1>2, <1>3, SumIsNatural

LEMMA ChosenIsNatural ==
  ASSUME NEW sel \in SUBSET Skill, NEW s \in Stat
  PROVE  Chosen(sel, s) \in Nat
<1> DEFINE f == [k \in sel |-> SkillContribution(k)[s]]
<1>1. \A k \in sel : f[k] \in Nat
  BY SkillType
<1>2. IsFiniteSet(sel) /\ DOMAIN f = sel
  BY CatalogAssumption, FS_Subset
<1>3. Chosen(sel, s) = SumFunctionOnSet(f, sel)
  BY <1>2, SumIs DEF Chosen
<1> HIDE DEF f
<1> QED
  BY <1>1, <1>2, <1>3, SumIsNatural

LEMMA WornSplits ==
  ASSUME NEW w \in SUBSET Item, NEW l \in Levels, NEW s \in Stat, NEW i \in w
  PROVE  Worn(w, l, s) = Contribution(i, l[i])[s] + Worn(w \ {i}, l, s)
<1> DEFINE f == [j \in w |-> Contribution(j, l[j])[s]]
           h == [j \in w \ {i} |-> Contribution(j, l[j])[s]]
<1>1. \A j \in w : f[j] \in Nat
  BY ContributionType DEF Levels
<1>2. IsFiniteSet(w) /\ IsFiniteSet(w \ {i}) /\ DOMAIN f = w /\ DOMAIN h = w \ {i}
  BY CatalogAssumption, FS_Subset
<1>3. Worn(w, l, s) = SumFunctionOnSet(f, w) /\ Worn(w \ {i}, l, s) = SumFunctionOnSet(h, w \ {i})
  BY <1>2, SumIs DEF Worn
<1>4. f[i] = Contribution(i, l[i])[s] /\ \A j \in w \ {i} : f[j] = h[j]
  OBVIOUS
<1> HIDE DEF f, h
<1>5. SumFunctionOnSet(f, w) = f[i] + SumFunctionOnSet(f, w \ {i})
  BY <1>1, <1>2, SumSplits
<1>6. SumFunctionOnSet(f, w \ {i}) = SumFunctionOnSet(h, w \ {i})
  BY <1>2, <1>4, SumsEqual
<1> QED
  BY <1>3, <1>4, <1>5, <1>6

LEMMA ChosenSplits ==
  ASSUME NEW sel \in SUBSET Skill, NEW s \in Stat, NEW k \in sel
  PROVE  Chosen(sel, s) = SkillContribution(k)[s] + Chosen(sel \ {k}, s)
<1> DEFINE f == [j \in sel |-> SkillContribution(j)[s]]
           h == [j \in sel \ {k} |-> SkillContribution(j)[s]]
<1>1. \A j \in sel : f[j] \in Nat
  BY SkillType
<1>2. IsFiniteSet(sel) /\ IsFiniteSet(sel \ {k}) /\ DOMAIN f = sel /\ DOMAIN h = sel \ {k}
  BY CatalogAssumption, FS_Subset
<1>3. Chosen(sel, s) = SumFunctionOnSet(f, sel) /\ Chosen(sel \ {k}, s) = SumFunctionOnSet(h, sel \ {k})
  BY <1>2, SumIs DEF Chosen
<1>4. f[k] = SkillContribution(k)[s] /\ \A j \in sel \ {k} : f[j] = h[j]
  OBVIOUS
<1> HIDE DEF f, h
<1>5. SumFunctionOnSet(f, sel) = f[k] + SumFunctionOnSet(f, sel \ {k})
  BY <1>1, <1>2, SumSplits
<1>6. SumFunctionOnSet(f, sel \ {k}) = SumFunctionOnSet(h, sel \ {k})
  BY <1>2, <1>4, SumsEqual
<1> QED
  BY <1>3, <1>4, <1>5, <1>6

LEMMA WornElsewhere ==
  ASSUME NEW w \in SUBSET Item, NEW l \in Levels, NEW m \in Levels, NEW s \in Stat,
         \A i \in w : l[i] = m[i]
  PROVE  Worn(w, l, s) = Worn(w, m, s)
<1>1. [i \in w |-> Contribution(i, l[i])[s]] = [i \in w |-> Contribution(i, m[i])[s]]
  OBVIOUS
<1> QED
  BY <1>1 DEF Worn

LEMMA ContextType ==
  ASSUME NEW w \in SUBSET Item, NEW l \in Levels, NEW sel \in SUBSET Skill
  PROVE  Context(w, l, sel) \in [Stat -> Int]
<1>1. \A s \in Stat : Context(w, l, sel)[s] \in Int
  <2> TAKE s \in Stat
  <2>1. Baseline[s] * Unit \in Int
    BY BaselineType
  <2> QED
    BY <2>1, ContextIs, WornIsNatural, ChosenIsNatural
<1>2. Context(w, l, sel) = [s \in Stat |-> Context(w, l, sel)[s]]
  BY DEF Context
<1> QED
  BY <1>1, <1>2

(* The same item taken out and put in again, with its level changed.         *)
LEMMA ItemChanges ==
  ASSUME NEW w \in SUBSET Item, NEW l \in Levels, NEW m \in Levels, NEW sel \in SUBSET Skill,
         NEW i \in w, \A j \in w \ {i} : l[j] = m[j]
  PROVE  ReplaceContribution(Context(w, l, sel), Contribution(i, l[i]), Contribution(i, m[i]))
           = Context(w, m, sel)
<1> DEFINE c == ReplaceContribution(Context(w, l, sel), Contribution(i, l[i]), Contribution(i, m[i]))
<1>1. ASSUME NEW s \in Stat PROVE c[s] = Context(w, m, sel)[s]
  <2> DEFINE rest == Worn(w \ {i}, l, s)
             sk == Chosen(sel, s)
             b == Baseline[s] * Unit
             x == Contribution(i, l[i])[s]
             y == Contribution(i, m[i])[s]
  <2>1. /\ Context(w, l, sel)[s] = b + Worn(w, l, s) + sk
        /\ Context(w, m, sel)[s] = b + Worn(w, m, s) + sk
    BY ContextIs
  <2>2. /\ Worn(w, l, s) = x + rest
        /\ Worn(w, m, s) = y + Worn(w \ {i}, m, s)
    BY WornSplits
  <2>3. Worn(w \ {i}, m, s) = rest
    BY WornElsewhere
  <2>4. rest \in Int /\ sk \in Int /\ b \in Int /\ x \in Int /\ y \in Int
    <3>1. w \ {i} \in SUBSET Item /\ rest \in Int
      BY WornIsNatural
    <3>2. sk \in Int /\ b \in Int
      BY ChosenIsNatural, BaselineType
    <3>3. x \in Int
      <4>1. i \in Item /\ l[i] \in Nat
        BY LevelType
      <4> QED
        BY <4>1, ContributionType
    <3>4. y \in Int
      <4>1. i \in Item /\ m[i] \in Nat
        BY LevelType
      <4> QED
        BY <4>1, ContributionType
    <3> QED
      BY <3>1, <3>2, <3>3, <3>4
  <2>5. c[s] = Context(w, l, sel)[s] + (y - x)
    BY DEF ReplaceContribution
  <2> HIDE DEF c, rest, sk, b, x, y
  <2> QED
    BY <2>1, <2>2, <2>3, <2>4, <2>5
<1>2. c = [s \in Stat |-> c[s]] /\ Context(w, m, sel) = [s \in Stat |-> Context(w, m, sel)[s]]
  BY DEF ReplaceContribution, Context
<1> HIDE DEF c
<1>3. c = Context(w, m, sel)
  BY <1>1, <1>2
<1> QED
  BY <1>3 DEF c

(* One item in the place of another, or of none. *)
LEMMA ItemTakesPlace ==
  ASSUME NEW w \in SUBSET Item, NEW l \in Levels, NEW sel \in SUBSET Skill,
         NEW i \in w, NEW j \in Item, j \notin w \ {i}, NEW v, v = (w \ {i}) \cup {j}
  PROVE  ReplaceContribution(Context(w, l, sel), Contribution(i, l[i]), Contribution(j, l[j]))
           = Context(v, l, sel)
<1> DEFINE c == ReplaceContribution(Context(w, l, sel), Contribution(i, l[i]), Contribution(j, l[j]))
<1>0. v \in SUBSET Item /\ j \in v /\ v \ {j} = w \ {i}
  OBVIOUS
<1>1. ASSUME NEW s \in Stat PROVE c[s] = Context(v, l, sel)[s]
  <2> DEFINE rest == Worn(w \ {i}, l, s)
             sk == Chosen(sel, s)
             b == Baseline[s] * Unit
             x == Contribution(i, l[i])[s]
             y == Contribution(j, l[j])[s]
  <2>1. /\ Context(w, l, sel)[s] = b + Worn(w, l, s) + sk
        /\ Context(v, l, sel)[s] = b + Worn(v, l, s) + sk
    BY ContextIs
  <2>2. Worn(w, l, s) = x + rest
    BY WornSplits
  <2>3. Worn(v, l, s) = y + rest
    BY <1>0, WornSplits
  <2>4. rest \in Int /\ sk \in Int /\ b \in Int /\ x \in Int /\ y \in Int
    <3>1. w \ {i} \in SUBSET Item /\ rest \in Int
      BY WornIsNatural
    <3>2. sk \in Int /\ b \in Int
      BY ChosenIsNatural, BaselineType
    <3>3. x \in Int
      <4>1. i \in Item /\ l[i] \in Nat
        BY LevelType
      <4> QED
        BY <4>1, ContributionType
    <3>4. y \in Int
      <4>1. j \in Item /\ l[j] \in Nat
        BY LevelType
      <4> QED
        BY <4>1, ContributionType
    <3> QED
      BY <3>1, <3>2, <3>3, <3>4
  <2>5. c[s] = Context(w, l, sel)[s] + (y - x)
    BY DEF ReplaceContribution
  <2> HIDE DEF c, rest, sk, b, x, y
  <2> QED
    BY <2>1, <2>2, <2>3, <2>4, <2>5
<1>2. c = [s \in Stat |-> c[s]] /\ Context(v, l, sel) = [s \in Stat |-> Context(v, l, sel)[s]]
  BY DEF ReplaceContribution, Context
<1> HIDE DEF c
<1>3. c = Context(v, l, sel)
  BY <1>1, <1>2
<1> QED
  BY <1>3 DEF c

LEMMA ItemAdded ==
  ASSUME NEW w \in SUBSET Item, NEW l \in Levels, NEW sel \in SUBSET Skill, NEW j \in Item \ w
  PROVE  ReplaceContribution(Context(w, l, sel), NoContribution, Contribution(j, l[j]))
           = Context(w \cup {j}, l, sel)
<1> DEFINE c == ReplaceContribution(Context(w, l, sel), NoContribution, Contribution(j, l[j]))
           v == w \cup {j}
<1>0. v \in SUBSET Item /\ j \in v /\ v \ {j} = w
  OBVIOUS
<1>1. ASSUME NEW s \in Stat PROVE c[s] = Context(v, l, sel)[s]
  <2> DEFINE rest == Worn(w, l, s)
             sk == Chosen(sel, s)
             b == Baseline[s] * Unit
             y == Contribution(j, l[j])[s]
  <2> HIDE DEF v
  <2>1. /\ Context(w, l, sel)[s] = b + rest + sk
        /\ Context(v, l, sel)[s] = b + Worn(v, l, s) + sk
    BY ContextIs
  <2>2. Worn(v, l, s) = y + rest
    BY <1>0, WornSplits
  <2>3. rest \in Int /\ sk \in Int /\ b \in Int /\ y \in Int
    <3>1. w \in SUBSET Item /\ rest \in Int
      BY WornIsNatural
    <3>2. sk \in Int /\ b \in Int
      BY ChosenIsNatural, BaselineType
    <3>3. y \in Int
      <4>1. j \in Item /\ l[j] \in Nat
        BY LevelType
      <4> QED
        BY <4>1, ContributionType
    <3> QED
      BY <3>1, <3>2, <3>3
  <2>4. c[s] = Context(w, l, sel)[s] + (y - 0)
    BY DEF ReplaceContribution, NoContribution
  <2> HIDE DEF c, rest, sk, b, y
  <2> QED
    BY <2>1, <2>2, <2>3, <2>4
<1>2. c = [s \in Stat |-> c[s]] /\ Context(v, l, sel) = [s \in Stat |-> Context(v, l, sel)[s]]
  BY DEF ReplaceContribution, Context
<1> HIDE DEF c, v
<1>3. c = Context(v, l, sel)
  BY <1>1, <1>2
<1> QED
  BY <1>3 DEF c, v

LEMMA SkillAdded ==
  ASSUME NEW w \in SUBSET Item, NEW l \in Levels, NEW sel \in SUBSET Skill, NEW k \in Skill \ sel
  PROVE  ReplaceContribution(Context(w, l, sel), NoContribution, SkillContribution(k))
           = Context(w, l, sel \cup {k})
<1> DEFINE c == ReplaceContribution(Context(w, l, sel), NoContribution, SkillContribution(k))
           v == sel \cup {k}
<1>0. v \in SUBSET Skill /\ k \in v /\ v \ {k} = sel
  OBVIOUS
<1>1. ASSUME NEW s \in Stat PROVE c[s] = Context(w, l, v)[s]
  <2> DEFINE items == Worn(w, l, s)
             sk == Chosen(sel, s)
             b == Baseline[s] * Unit
             y == SkillContribution(k)[s]
  <2> HIDE DEF v
  <2>1. /\ Context(w, l, sel)[s] = b + items + sk
        /\ Context(w, l, v)[s] = b + items + Chosen(v, s)
    BY ContextIs
  <2>2. Chosen(v, s) = y + sk
    BY <1>0, ChosenSplits
  <2>3. items \in Int /\ sk \in Int /\ b \in Int /\ y \in Int
    BY WornIsNatural, ChosenIsNatural, SkillType, BaselineType
  <2>4. c[s] = Context(w, l, sel)[s] + (y - 0)
    BY DEF ReplaceContribution, NoContribution
  <2> HIDE DEF c, items, sk, b, y
  <2> QED
    BY <2>1, <2>2, <2>3, <2>4
<1>2. c = [s \in Stat |-> c[s]] /\ Context(w, l, v) = [s \in Stat |-> Context(w, l, v)[s]]
  BY DEF ReplaceContribution, Context
<1> HIDE DEF c, v
<1>3. c = Context(w, l, v)
  BY <1>1, <1>2
<1> QED
  BY <1>3 DEF c, v

-----------------------------------------------------------------------------
(* Higher levels.                                                            *)
-----------------------------------------------------------------------------
LEMMA FactorGrows ==
  ASSUME NEW x \in Nat, NEW f \in Nat \ {0}, NEW g \in Nat \ {0}, f <= g
  PROVE  x * f \in Nat /\ x * g \in Nat /\ x * f <= x * g /\ (x * f = 0 => x * g = 0)
<1>1. g = f + (g - f) /\ g - f \in Nat
  OBVIOUS
<1>2. x * g = x * f + x * (g - f)
  OBVIOUS
<1>3. x * (g - f) \in Nat /\ x * f \in Nat
  BY <1>1
<1>4. x # 0 => x * f # 0
  OBVIOUS
<1> QED
  BY <1>2, <1>3, <1>4

LEMMA ContributionGrows ==
  ASSUME NEW i \in Item, NEW a \in Nat, NEW b \in Nat, a <= b, NEW s \in Stat
  PROVE  /\ Contribution(i, a)[s] <= Contribution(i, b)[s]
         /\ Contribution(i, a)[s] = 0 => Contribution(i, b)[s] = 0
<1> DEFINE star == StarMultiplier(Stars[i])
           x == Base[i][s]
           la == LevelMultiplier(a)
           lb == LevelMultiplier(b)
<1>1. x \in Nat /\ star \in Nat \ {0} /\ la \in Nat \ {0} /\ lb \in Nat \ {0} /\ la <= lb
  BY CatalogAssumption DEF StarMultiplier, LevelMultiplier
<1>2. CASE s \in Grows[i]
  <2>1. Contribution(i, a)[s] = x * (la * star) /\ Contribution(i, b)[s] = x * (lb * star)
    BY <1>2 DEF Contribution
  <2> HIDE DEF x, star, la, lb
  <2>2. star * la \in Nat /\ star * lb \in Nat /\ star * la <= star * lb /\ star * la # 0 /\ star * lb # 0
    <3>1. star * la \in Nat /\ star * lb \in Nat /\ star * la <= star * lb
      BY <1>1, FactorGrows
    <3>2. star * la # 0 /\ star * lb # 0
      BY <1>1
    <3> QED
      BY <3>1, <3>2
  <2>3. la * star = star * la /\ lb * star = star * lb
    BY <1>1
  <2>4. x * (star * la) <= x * (star * lb) /\ (x * (star * la) = 0 => x * (star * lb) = 0)
    BY <1>1, <2>2, FactorGrows
  <2> QED
    BY <2>1, <2>3, <2>4
<1>3. CASE s \notin Grows[i]
  <2>1. Contribution(i, a)[s] = x * Unit /\ Contribution(i, b)[s] = x * Unit
    BY <1>3 DEF Contribution
  <2>2. x * Unit \in Nat
    BY <1>1 DEF Unit
  <2> QED
    BY <2>1, <2>2
<1> QED
  BY <1>2, <1>3

GrowsTo(c, d) ==
  /\ c \in [Stat -> Nat]
  /\ \A s \in Stat : c[s] <= d[s] /\ (c[s] = 0 => d[s] = 0)

(* One item at a higher level: no stat is less, and none is there that was   *)
(* not there before.                                                         *)
LEMMA ContextGrows ==
  ASSUME NEW w \in SUBSET Item, NEW l \in Levels, NEW m \in Levels, NEW sel \in SUBSET Skill,
         NEW i \in w, \A j \in w \ {i} : l[j] = m[j], l[i] <= m[i]
  PROVE  GrowsTo(Context(w, l, sel), Context(w, m, sel))
<1>1. ASSUME NEW s \in Stat
      PROVE  /\ Context(w, l, sel)[s] \in Nat
             /\ Context(w, l, sel)[s] <= Context(w, m, sel)[s]
             /\ Context(w, l, sel)[s] = 0 => Context(w, m, sel)[s] = 0
  <2> DEFINE rest == Worn(w \ {i}, l, s)
             sk == Chosen(sel, s)
             b == Baseline[s] * Unit
             x == Contribution(i, l[i])[s]
             y == Contribution(i, m[i])[s]
  <2>1. /\ Context(w, l, sel)[s] = b + Worn(w, l, s) + sk
        /\ Context(w, m, sel)[s] = b + Worn(w, m, s) + sk
    BY ContextIs
  <2>2. /\ Worn(w, l, s) = x + rest
        /\ Worn(w, m, s) = y + Worn(w \ {i}, m, s)
    BY WornSplits
  <2>3. Worn(w \ {i}, m, s) = rest
    BY WornElsewhere
  <2>4. rest \in Nat /\ sk \in Nat
    BY WornIsNatural, ChosenIsNatural, w \ {i} \in SUBSET Item
  <2>5. b \in Nat
    BY CatalogAssumption DEF Unit
  <2>6. l[i] \in Nat /\ m[i] \in Nat /\ i \in Item
    BY LevelType
  <2>7. x \in Nat /\ y \in Nat
    BY <2>6, ContributionType
  <2>8. x <= y /\ (x = 0 => y = 0)
    BY <2>6, ContributionGrows
  <2> HIDE DEF rest, sk, b, x, y
  <2> QED
    BY <2>1, <2>2, <2>3, <2>4, <2>5, <2>7, <2>8
<1>2. Context(w, l, sel) = [s \in Stat |-> Context(w, l, sel)[s]]
  BY DEF Context
<1>3. Context(w, l, sel) \in [Stat -> Nat]
  BY <1>1, <1>2
<1> QED
  BY <1>1, <1>3 DEF GrowsTo

-----------------------------------------------------------------------------
(* The first of a ranking.                                                   *)
-----------------------------------------------------------------------------
LEMMA BestIsBest ==
  ASSUME NEW D, D # {}, IsFiniteSet(D), NEW score \in [D -> Int], NEW order,
         \A x \in D : order[x] \in Nat, \A x, y \in D : order[x] = order[y] => x = y
  PROVE  Best(score, order) \in D /\ \A y \in D : score[y] <= score[Best(score, order)]
<1> DEFINE Before(x, y) == score[x] > score[y] \/ (score[x] = score[y] /\ order[x] < order[y])
           R == {p \in D \X D : Before(p[1], p[2])}
<1>1. \A x, y \in D : <<x, y>> \in R <=> Before(x, y)
  OBVIOUS
<1>2. ASSUME NEW x \in D, NEW y \in D, x # y PROVE Before(x, y) \/ Before(y, x)
  <2>1. score[x] \in Int /\ score[y] \in Int /\ order[x] \in Nat /\ order[y] \in Nat
    OBVIOUS
  <2>2. order[x] # order[y]
    BY <1>2
  <2> QED
    BY <2>1, <2>2
<1>3. ASSUME NEW x \in D, NEW y \in D, NEW z \in D, Before(x, y), Before(y, z)
      PROVE  Before(x, z)
  <2>1. score[x] \in Int /\ score[y] \in Int /\ score[z] \in Int
    OBVIOUS
  <2>2. order[x] \in Nat /\ order[y] \in Nat /\ order[z] \in Nat
    OBVIOUS
  <2> QED
    BY <1>3, <2>1, <2>2
<1> HIDE DEF Before
<1>4. \E x \in D : LeadsAll(R, D, x)
  <2> HIDE DEF R
  <2>1. \A x, y \in D : x # y => <<x, y>> \in R \/ <<y, x>> \in R
    BY <1>1, <1>2
  <2>2. \A x, y, z \in D : <<x, y>> \in R /\ <<y, z>> \in R => <<x, z>> \in R
    BY <1>1, <1>3
  <2> QED
    BY <2>1, <2>2, RankingHasFirst
<1> HIDE DEF R
<1>5. \E x \in D : \A y \in D \ {x} : Before(x, y)
  BY <1>1, <1>4 DEF LeadsAll
<1>6. Best(score, order) = CHOOSE x \in D : \A y \in D \ {x} : Before(x, y)
  BY DEF Best, Before
<1>7. Best(score, order) \in D /\ \A y \in D \ {Best(score, order)} : Before(Best(score, order), y)
  BY <1>5, <1>6
<1>8. ASSUME NEW y \in D PROVE score[y] <= score[Best(score, order)]
  <2>1. score[y] \in Int /\ score[Best(score, order)] \in Int
    BY <1>7
  <2>2. y = Best(score, order) \/ Before(Best(score, order), y)
    BY <1>7
  <2> QED
    BY <2>1, <2>2 DEF Before
<1> QED
  BY <1>7, <1>8

-----------------------------------------------------------------------------
(* The account and what is computed from it.                                 *)
-----------------------------------------------------------------------------
Comparable == ScoresAreIntegers([Stat -> Int])

Account ==
  /\ owned \subseteq Item /\ worn \subseteq owned
  /\ \A i, j \in worn : SlotOf[i] = SlotOf[j] => i = j
  /\ level \in Levels
  /\ selected \subseteq Skill
  /\ gold \in Nat /\ earned \in Nat

LEMMA BuysAll == Account => BuysAllItCan
<1> SUFFICES ASSUME Account, NEW i \in owned
             PROVE  LET bought == Affordable(level[i], gold)
                    IN /\ bought.cost = PriceOf(level[i], bought.levels)
                       /\ bought.cost <= gold
                       /\ bought.levels < MaxUpgradeLevels
                            => PriceOf(level[i], bought.levels + 1) > gold
  BY DEF BuysAllItCan
<1>1. level[i] \in Nat /\ gold \in Nat
  BY LevelType DEF Account
<1> QED
  BY <1>1, AffordableBuys DEF Bought

LEMMA UpgradedType ==
  ASSUME Account, NEW i \in worn
  PROVE  /\ Upgraded(i) \in Levels
         /\ \A j \in worn \ {i} : level[j] = Upgraded(i)[j]
         /\ Affordable(level[i], gold).cost \in Nat
         /\ Affordable(level[i], gold).cost <= gold
<1>1. level \in Levels /\ i \in Item /\ gold \in Nat /\ level[i] \in Nat
  BY LevelType DEF Account
<1>2. Affordable(level[i], gold) \in Purchase /\ Affordable(level[i], gold).cost <= gold
  BY <1>1, AffordableBuys DEF Bought
<1> DEFINE more == Affordable(level[i], gold).levels
<1>3. Upgraded(i) = [level EXCEPT ![i] = level[i] + more]
  BY DEF Upgraded
<1>4. level[i] + more \in Nat
  BY <1>1, <1>2 DEF Purchase
<1> HIDE DEF more
<1> QED
  BY <1>1, <1>2, <1>3, <1>4 DEF Levels, Purchase, Account

LEMMA GearSimulated ==
  ASSUME Account, NEW s, NEW i \in GearCandidates(s)
  PROVE  WithItem(i) = Context((worn \ WornIn(s)) \cup {i}, level, selected)
<1>1. SlotOf[i] = s /\ i \in Item
  BY DEF GearCandidates, Account
<1>2. worn \in SUBSET Item /\ level \in Levels /\ selected \in SUBSET Skill
  BY DEF Account
<1>3. CASE WornIn(s) = {}
  <2>1. i \notin worn
    BY <1>1, <1>3 DEF WornIn
  <2>2. WithItem(i) = ReplaceContribution(Context(worn, level, selected), NoContribution,
                                          Contribution(i, level[i]))
    BY <1>1, <1>3 DEF WithItem, Current, At, Now
  <2>3. (worn \ WornIn(s)) \cup {i} = worn \cup {i}
    BY <1>3
  <2> QED
    BY <1>1, <1>2, <2>1, <2>2, <2>3, ItemAdded
<1>4. CASE WornIn(s) # {}
  <2> DEFINE j == CHOOSE k \in WornIn(s) : TRUE
  <2>1. j \in WornIn(s)
    BY <1>4
  <2>2. WithItem(i) = ReplaceContribution(Context(worn, level, selected),
                                          Contribution(j, level[j]), Contribution(i, level[i]))
    BY <1>1, <1>4 DEF WithItem, Current, At, Now
  <2> HIDE DEF j
  <2>3. WornIn(s) = {j} /\ j \in worn
    BY <2>1 DEF WornIn, Account
  <2>4. i \in Item /\ i \notin worn \ {j}
    BY <1>1, <2>3 DEF WornIn
  <2> DEFINE fitted == (worn \ {j}) \cup {i}
  <2>5. fitted = (worn \ WornIn(s)) \cup {i} /\ fitted = (worn \ {j}) \cup {i}
    BY <2>3
  <2> HIDE DEF fitted
  <2>6. ReplaceContribution(Context(worn, level, selected), Contribution(j, level[j]),
                            Contribution(i, level[i]))
          = Context(fitted, level, selected)
    BY <1>2, <2>3, <2>4, <2>5, ItemTakesPlace
  <2> QED
    BY <2>2, <2>5, <2>6
<1> QED
  BY <1>3, <1>4

LEMMA UpgradeSimulated ==
  ASSUME Account, NEW i \in worn
  PROVE  WithUpgrade(i) = Context(worn, Upgraded(i), selected)
<1>1. worn \in SUBSET Item /\ level \in Levels /\ selected \in SUBSET Skill
  BY DEF Account
<1>2. Upgraded(i) \in Levels /\ \A j \in worn \ {i} : level[j] = Upgraded(i)[j]
  BY UpgradedType
<1> QED
  BY <1>1, <1>2, ItemChanges DEF WithUpgrade, Now, At

LEMMA SkillSimulated ==
  ASSUME Account, NEW k \in Skill \ selected
  PROVE  WithSkill(k) = Context(worn, level, selected \cup {k})
BY SkillAdded DEF WithSkill, Now, Account

LEMMA SimulatesExactly == Account => SimulationExact
<1> SUFFICES ASSUME Account PROVE SimulationExact
  OBVIOUS
<1>1. \A s \in GearSlot : \A i \in GearCandidates(s) :
        WithItem(i) = Context((worn \ WornIn(s)) \cup {i}, level, selected)
  BY GearSimulated
<1>2. \A i \in UpgradeCandidates : WithUpgrade(i) = Context(worn, Upgraded(i), selected)
  BY UpgradeSimulated DEF UpgradeCandidates
<1>3. \A k \in Skill \ selected : WithSkill(k) = Context(worn, level, selected \cup {k})
  BY SkillSimulated
<1> QED
  BY <1>1, <1>2, <1>3 DEF SimulationExact

-----------------------------------------------------------------------------
(* The advice is among what it chooses from, and nothing there is better.    *)
-----------------------------------------------------------------------------
LEMMA NowType ==
  ASSUME Account, Comparable
  PROVE  Now \in [Stat -> Int] /\ Objective(Now) \in Int
BY ContextType DEF Account, Now, Comparable, ScoresAreIntegers

LEMMA GearAdviceIsBest ==
  ASSUME Account, Comparable, NEW s, GearCandidates(s) # {}
  PROVE  /\ GearAdvice(s) \in GearCandidates(s)
         /\ \A i \in GearCandidates(s) : GearScore(i) <= GearScore(GearAdvice(s))
<1> DEFINE D == GearCandidates(s)
           score == [i \in D |-> GearScore(i)]
<1>1. D \subseteq Item /\ IsFiniteSet(D)
  BY CatalogAssumption, FS_Subset DEF GearCandidates, Account
<1>2. ASSUME NEW i \in D PROVE GearScore(i) \in Int
  <2>1. WithItem(i) = Context((worn \ WornIn(s)) \cup {i}, level, selected)
    BY GearSimulated
  <2>2. (worn \ WornIn(s)) \cup {i} \in SUBSET Item
    BY <1>1 DEF Account
  <2>3. WithItem(i) \in [Stat -> Int]
    BY <2>1, <2>2, ContextType DEF Account
  <2> QED
    BY <2>3 DEF GearScore, Comparable, ScoresAreIntegers
<1>3. score \in [D -> Int]
  BY <1>2
<1>4. /\ \A x \in D : Order[x] \in Nat
      /\ \A x, y \in D : Order[x] = Order[y] => x = y
  BY <1>1, AdvisorAssumption
<1>5. GearAdvice(s) = Best(score, Order) /\ \A i \in D : score[i] = GearScore(i)
  BY DEF GearAdvice
<1> HIDE DEF score, D
<1>6. Best(score, Order) \in D /\ \A y \in D : score[y] <= score[Best(score, Order)]
  BY <1>1, <1>3, <1>4, BestIsBest DEF D
<1> QED
  BY <1>5, <1>6 DEF D

LEMMA UpgradeAdviceIsBest ==
  ASSUME Account, Comparable, WorthwhileUpgrades # {}
  PROVE  UpgradeAdvice \in WorthwhileUpgrades
<1> DEFINE D == WorthwhileUpgrades
           score == [i \in D |-> UpgradeScore(i)]
<1>1. D \subseteq worn /\ D \subseteq Item /\ IsFiniteSet(D)
  BY CatalogAssumption, FS_Subset DEF WorthwhileUpgrades, UpgradeCandidates, Account
<1>2. ASSUME NEW i \in D PROVE UpgradeScore(i) \in Int
  <2>1. i \in worn /\ WithUpgrade(i) = Context(worn, Upgraded(i), selected)
    BY <1>1, UpgradeSimulated
  <2>2. WithUpgrade(i) \in [Stat -> Int]
    BY <2>1, UpgradedType, ContextType DEF Account
  <2>3. Objective(WithUpgrade(i)) \in Int /\ Objective(Now) \in Int
    BY <2>2, NowType DEF Comparable, ScoresAreIntegers
  <2> QED
    BY <2>3 DEF UpgradeScore
<1>3. score \in [D -> Int]
  BY <1>2
<1>4. /\ \A x \in D : Order[x] \in Nat
      /\ \A x, y \in D : Order[x] = Order[y] => x = y
  BY <1>1, AdvisorAssumption
<1>5. UpgradeAdvice = Best(score, Order)
  BY DEF UpgradeAdvice
<1> HIDE DEF score, D
<1>6. Best(score, Order) \in D
  BY <1>1, <1>3, <1>4, BestIsBest DEF D
<1> QED
  BY <1>5, <1>6 DEF D

LEMMA SkillAdviceIsOffered ==
  ASSUME Account, Comparable, NEW offer \in SUBSET Skill, offer # {}
  PROVE  SkillAdvice(offer) \in offer
<1> DEFINE score == [k \in offer |-> SkillScore(k)]
<1>1. IsFiniteSet(offer)
  BY CatalogAssumption, FS_Subset
<1>2. ASSUME NEW k \in offer PROVE SkillScore(k) \in Int
  <2>1. \A s \in Stat : Now[s] \in Int /\ SkillContribution(k)[s] \in Nat
    BY NowType, SkillType
  <2>2. WithSkill(k) = [s \in Stat |-> Now[s] + (SkillContribution(k)[s] - 0)]
    BY DEF WithSkill, ReplaceContribution, NoContribution
  <2>3. WithSkill(k) \in [Stat -> Int]
    BY <2>1, <2>2
  <2>4. Objective(WithSkill(k)) \in Int /\ Objective(Now) \in Int /\ TierValue[k] \in Nat
    BY <2>3, NowType, AdvisorAssumption DEF Comparable, ScoresAreIntegers
  <2> QED
    BY <2>4 DEF SkillScore
<1>3. score \in [offer -> Int]
  BY <1>2
<1>4. /\ \A x \in offer : SkillOrder[x] \in Nat
      /\ \A x, y \in offer : SkillOrder[x] = SkillOrder[y] => x = y
  BY AdvisorAssumption
<1>5. SkillAdvice(offer) = Best(score, SkillOrder)
  BY DEF SkillAdvice
<1> HIDE DEF score
<1> QED
  BY <1>1, <1>3, <1>4, <1>5, BestIsBest

-----------------------------------------------------------------------------
(* The account stays one, whatever advice is followed.                       *)
-----------------------------------------------------------------------------
LEMMA InitAccount == Init => Account
BY DEF Init, Account, Levels

LEMMA NextAccount == Comparable /\ Account /\ [Next]_vars => Account'
<1> SUFFICES ASSUME Comparable, Account, [Next]_vars PROVE Account'
  OBVIOUS
<1>1. ASSUME NEW s \in GearSlot, FollowGear(s) PROVE Account'
  <2> DEFINE a == GearAdvice(s)
  <2>1. /\ GearCandidates(s) # {} /\ worn' = (worn \ WornIn(s)) \cup {a}
        /\ UNCHANGED <<owned, level, selected, gold, earned>>
    BY <1>1 DEF FollowGear
  <2>2. a \in owned /\ SlotOf[a] = s
    BY <2>1, GearAdviceIsBest DEF GearCandidates
  <2> HIDE DEF a
  <2> QED
    BY <2>1, <2>2 DEF Account, WornIn
<1>2. CASE FollowUpgrade
  <2> DEFINE a == UpgradeAdvice
             cost == Affordable(level[a], gold).cost
  <2>1. /\ WorthwhileUpgrades # {} /\ level' = Upgraded(a) /\ gold' = gold - cost
        /\ UNCHANGED <<owned, worn, selected, earned>>
    BY <1>2 DEF FollowUpgrade
  <2>2. a \in worn
    BY <2>1, UpgradeAdviceIsBest DEF WorthwhileUpgrades, UpgradeCandidates
  <2>3. Upgraded(a) \in Levels /\ cost \in Nat /\ cost <= gold
    BY <2>2, UpgradedType
  <2> HIDE DEF a, cost
  <2> QED
    BY <2>1, <2>3 DEF Account
<1>3. ASSUME NEW offer \in (SUBSET Skill) \ {{}}, FollowSkill(offer) PROVE Account'
  <2> DEFINE a == SkillAdvice(offer)
  <2>1. selected' = selected \cup {a} /\ UNCHANGED <<owned, worn, level, gold, earned>>
    BY <1>3 DEF FollowSkill
  <2>2. a \in Skill
    BY <1>3, SkillAdviceIsOffered
  <2> HIDE DEF a
  <2> QED
    BY <2>1, <2>2 DEF Account
<1>4. CASE EarnGold
  BY <1>4 DEF EarnGold, Account
<1>5. ASSUME NEW i \in Item, ObtainItem(i) PROVE Account'
  BY <1>5 DEF ObtainItem, Account
<1>6. CASE UNCHANGED vars
  BY <1>6 DEF vars, Account
<1> QED
  BY <1>1, <1>2, <1>3, <1>4, <1>5, <1>6 DEF Next, Follow

LEMMA AccountHolds == ASSUME Comparable PROVE Spec => []Account
<1>1. Account /\ [Next]_vars => Account'
  BY NextAccount
<1> QED
  BY <1>1, InitAccount, PTL DEF Spec

-----------------------------------------------------------------------------
(* A 404.                                                                    *)
-----------------------------------------------------------------------------
Sensible ==
  Comparable /\ MoreIsNoWorse([Stat -> Nat]) /\ NothingFromNothing([Stat -> Nat])

LEMMA MissesNothing == ASSUME Sensible PROVE Account => NothingMissed
<1> SUFFICES ASSUME Account PROVE NothingMissed
  OBVIOUS
<1> SUFFICES ASSUME WorthwhileUpgrades = {}, NEW i \in worn, PriceOf(level[i], 1) <= gold
             PROVE  Objective(Context(worn, [level EXCEPT ![i] = @ + 1], selected)) <= Objective(Now)
  <2>1. \A i \in worn : PriceOf(level[i], 1) \in Int /\ gold \in Int
    <3> TAKE i \in worn
    <3>1. i \in Item /\ level \in Levels /\ gold \in Nat
      BY DEF Account
    <3>2. level[i] \in Nat
      BY <3>1, LevelType
    <3> QED
      BY <3>1, <3>2, NextPrice, 0 + 1 = 1
  <2> QED
    BY <2>1 DEF NothingMissed
<1> DEFINE bought == Affordable(level[i], gold)
           one == [level EXCEPT ![i] = level[i] + 1]
           before == Now
           after == Context(worn, one, selected)
           far == Context(worn, Upgraded(i), selected)
<1>1. /\ worn \in SUBSET Item /\ selected \in SUBSET Skill /\ level \in Levels
      /\ i \in Item /\ level[i] \in Nat /\ gold \in Nat
  BY LevelType DEF Account
<1>2. bought.levels \in Nat /\ bought.levels >= 1
  <2>1. Bought(level[i], gold, MaxUpgradeLevels, bought)
    BY <1>1, AffordableBuys
  <2>2. bought.levels \in Nat /\ (bought.levels < MaxUpgradeLevels => PriceOf(level[i], bought.levels + 1) > gold)
    BY <2>1 DEF Bought, Purchase
  <2>3. MaxUpgradeLevels \in Nat \ {0}
    BY AdvisorAssumption
  <2>4. PriceOf(level[i], 1) \in Int
    BY <1>1, NextPrice, 0 + 1 = 1
  <2>5. bought.levels = 0 => PriceOf(level[i], 1) > gold
    BY <2>2, <2>3
  <2> QED
    BY <1>1, <2>2, <2>4, <2>5
<1>3. i \notin WorthwhileUpgrades /\ i \in UpgradeCandidates
  BY <1>2 DEF UpgradeCandidates
<1>4. ~(UpgradeScore(i) > 0)
  BY <1>3 DEF WorthwhileUpgrades
<1>5. /\ one \in Levels /\ one[i] = level[i] + 1 /\ \A j \in worn \ {i} : one[j] = level[j]
      /\ Upgraded(i) \in Levels /\ Upgraded(i)[i] = level[i] + bought.levels
      /\ \A j \in worn \ {i} : Upgraded(i)[j] = level[j]
  <2>1. /\ one \in Levels /\ one[i] = level[i] + 1 /\ \A j \in worn \ {i} : one[j] = level[j]
    BY <1>1 DEF Levels
  <2>2. Upgraded(i) \in Levels /\ \A j \in worn \ {i} : level[j] = Upgraded(i)[j]
    BY UpgradedType
  <2>3. Upgraded(i)[i] = level[i] + bought.levels
    BY <1>1 DEF Upgraded, Levels
  <2> QED
    BY <2>1, <2>2, <2>3
<1>6. WithUpgrade(i) = far
  BY UpgradeSimulated
<1>7. before = Context(worn, level, selected)
  BY DEF Now
<1> HIDE DEF one, before, bought
<1>8. GrowsTo(before, after)
  <2>1. level[i] <= one[i] /\ \A j \in worn \ {i} : level[j] = one[j]
    BY <1>1, <1>5
  <2> QED
    BY <1>1, <1>5, <1>7, <2>1, ContextGrows
<1>9. GrowsTo(after, far)
  <2>1. one[i] <= Upgraded(i)[i] /\ \A j \in worn \ {i} : one[j] = Upgraded(i)[j]
    BY <1>1, <1>2, <1>5
  <2> QED
    BY <1>1, <1>5, <2>1, ContextGrows
<1>10. GrowsTo(far, far)
  <2>1. Upgraded(i)[i] <= Upgraded(i)[i]
    BY <1>1, <1>2, <1>5
  <2> QED
    BY <1>1, <1>5, <2>1, ContextGrows
<1> HIDE DEF after, far
<1>11. /\ Objective(after) <= Objective(far)
       /\ Objective(before) = 0 => Objective(after) = 0
  BY <1>8, <1>9, <1>10 DEF GrowsTo, Sensible, MoreIsNoWorse, NothingFromNothing
<1>12. Objective(before) \in Int /\ Objective(after) \in Int /\ Objective(far) \in Int
  <2>1. \A c \in [Stat -> Nat] : c \in [Stat -> Int]
    OBVIOUS
  <2> QED
    BY <1>8, <1>9, <1>10, <2>1 DEF GrowsTo, Sensible, Comparable, ScoresAreIntegers
<1>13. UpgradeScore(i) = IF Objective(before) = 0 THEN 0 ELSE Objective(far) - Objective(before)
  BY <1>6 DEF UpgradeScore, before
<1>14. Objective(after) <= Objective(before)
  BY <1>4, <1>11, <1>12, <1>13
<1>15. after = Context(worn, [level EXCEPT ![i] = @ + 1], selected)
  BY DEF after, one
<1> QED
  BY <1>14, <1>15 DEF before

-----------------------------------------------------------------------------
(* For every catalog, account and objective: what an advisor simulates is    *)
(* what the build becomes (simulator.py:1-25, upgrade_advisor.py:22-36).     *)
THEOREM SimulationIsExact == ASSUME Comparable PROVE Spec => []SimulationExact
BY AccountHolds, SimulatesExactly, PTL

(* For every level and every amount of gold: the levels offered are as many  *)
(* as can be paid, at the price that is then paid (upgrade_advisor.py).      *)
THEOREM OffersAllItCan == ASSUME Comparable PROVE Spec => []BuysAllItCan
BY AccountHolds, BuysAll, PTL

-----------------------------------------------------------------------------
(* Following the advice.                                                     *)
-----------------------------------------------------------------------------
LEMMA StepStable ==
  ASSUME Comparable, Account, Account', NEW s \in GearSlot, FollowGear(s),
         SimulationExact, SimulationExact'
  PROVE  /\ GearAdvice(s)' \in worn'
         /\ WornIn(s) # {} => Objective(Now)' >= Objective(Now)
<1> DEFINE a == GearAdvice(s)
           D == GearCandidates(s)
           fitted(i) == Context((worn \ WornIn(s)) \cup {i}, level, selected)
<1>1. /\ D # {} /\ worn' = (worn \ WornIn(s)) \cup {a}
      /\ UNCHANGED <<owned, level, selected, gold, earned>>
  BY DEF FollowGear
<1>2. a \in D /\ \A i \in D : GearScore(i) <= GearScore(a)
  BY <1>1, GearAdviceIsBest
<1>3. D' = D /\ a \in worn'
  BY <1>1 DEF GearCandidates
<1>4. a \in owned /\ SlotOf[a] = s
  BY <1>2 DEF GearCandidates
<1> HIDE DEF a
<1>5. worn' \ WornIn(s)' = worn \ WornIn(s)
  BY <1>1, <1>4 DEF WornIn
<1>6. \A i \in D : WithItem(i) = fitted(i)
  BY DEF SimulationExact
<1>7. \A i \in D : WithItem(i)' = fitted(i)
  <2>1. \A i \in GearCandidates(s)' :
          WithItem(i)' = Context((worn' \ WornIn(s)') \cup {i}, level', selected')
    BY DEF SimulationExact
  <2> QED
    BY <1>1, <1>3, <1>5, <2>1
<1>8. \A i \in D : GearScore(i)' = GearScore(i)
  <2> TAKE i \in D
  <2>1. WithItem(i)' = WithItem(i)
    BY <1>6, <1>7
  <2> QED
    BY <2>1 DEF GearScore
<1>9. GearAdvice(s)' = a
  <2>1. [i \in GearCandidates(s)' |-> GearScore(i)'] = [i \in GearCandidates(s) |-> GearScore(i)]
    BY <1>3, <1>8
  <2>2. GearAdvice(s)' = Best([i \in GearCandidates(s)' |-> GearScore(i)'], Order)
    BY DEF GearAdvice
  <2> QED
    BY <2>1, <2>2 DEF GearAdvice, a
<1>10. ASSUME WornIn(s) # {} PROVE Objective(Now)' >= Objective(Now)
  <2>1. PICK j \in WornIn(s) : TRUE
    BY <1>10
  <2>2. WornIn(s) = {j} /\ j \in worn /\ j \in D
    BY <2>1 DEF WornIn, Account, GearCandidates
  <2>3. (worn \ WornIn(s)) \cup {j} = worn
    BY <2>2
  <2>4. GearScore(j) = Objective(Now)
    BY <1>6, <2>2, <2>3 DEF GearScore, Now
  <2>5. GearScore(a) = Objective(Now)'
    BY <1>1, <1>2, <1>6 DEF GearScore, Now
  <2> QED
    BY <1>2, <2>2, <2>4, <2>5, NowType
<1> QED
  BY <1>3, <1>9, <1>10

LEMMA StepPays ==
  ASSUME Comparable, Account, [Next]_vars, gold' < gold
  PROVE  Objective(Now)' > Objective(Now) /\ gold' >= 0
<1> DEFINE a == UpgradeAdvice
<1>1. FollowUpgrade
  BY DEF Account, Next, Follow, FollowGear, FollowSkill, EarnGold, ObtainItem, vars
<1>2. /\ WorthwhileUpgrades # {} /\ level' = Upgraded(a)
      /\ gold' = gold - Affordable(level[a], gold).cost
      /\ UNCHANGED <<owned, worn, selected, earned>>
  BY <1>1 DEF FollowUpgrade
<1>3. a \in WorthwhileUpgrades
  BY <1>2, UpgradeAdviceIsBest
<1> HIDE DEF a
<1>4. a \in worn /\ UpgradeScore(a) > 0
  BY <1>3 DEF WorthwhileUpgrades, UpgradeCandidates
<1>5. WithUpgrade(a) = Context(worn, Upgraded(a), selected)
  BY <1>4, UpgradeSimulated
<1>6. Now' = WithUpgrade(a)
  BY <1>2, <1>5 DEF Now
<1>7. Objective(WithUpgrade(a)) \in Int /\ Objective(Now) \in Int
  BY <1>4, <1>5, UpgradedType, ContextType, NowType DEF Account, Comparable, ScoresAreIntegers
<1>8. Objective(WithUpgrade(a)) - Objective(Now) > 0
  BY <1>4, <1>7 DEF UpgradeScore
<1>9. Affordable(level[a], gold).cost <= gold /\ Affordable(level[a], gold).cost \in Nat /\ gold \in Nat
  BY <1>4, UpgradedType DEF Account
<1> QED
  BY <1>2, <1>6, <1>7, <1>8, <1>9

(* For every catalog and objective: the Gear Advisor recommends next what    *)
(* is now worn, and following it is no loss (gear_advisor.py).               *)
THEOREM GearAdviceIsStable == ASSUME Comparable PROVE Spec => GearAdviceStable
<1>1. Account /\ Account' /\ SimulationExact /\ SimulationExact' /\ [Next]_vars
        => [\A s \in GearSlot :
              FollowGear(s) => /\ GearAdvice(s)' \in worn'
                               /\ WornIn(s) # {} => Objective(Now)' >= Objective(Now)]_vars
  BY StepStable
<1> QED
  BY <1>1, AccountHolds, SimulationIsExact, PTL DEF Spec, GearAdviceStable

(* For every catalog and objective: gold is spent only on what makes the     *)
(* build strictly better, and never more than there is (README.md:51-54).    *)
THEOREM UpgradesPay == ASSUME Comparable PROVE Spec => UpgradePays
<1>1. Account /\ [Next]_vars
        => [gold' < gold => Objective(Now)' > Objective(Now) /\ gold' >= 0]_vars
  BY StepPays
<1> QED
  BY <1>1, AccountHolds, PTL DEF Spec, UpgradePays

(* For every catalog and every objective that is monotone and makes nothing  *)
(* of nothing, as those of objectives.py: a 404 of the Upgrade Advisor means *)
(* that no level that can be paid would help (upgrade_advisor.py:386-389).   *)
THEOREM MissedNothing == ASSUME Sensible PROVE Spec => []NothingMissed
<1>1. Spec => []Account
  BY AccountHolds DEF Sensible
<1> QED
  BY <1>1, MissesNothing, PTL
=============================================================================
