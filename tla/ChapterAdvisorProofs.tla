------------------------ MODULE ChapterAdvisorProofs ------------------------
(***************************************************************************)
(* What the Chapter Advisor promises, for every finite catalog, every      *)
(* recommended power and every power of the account.                       *)
(***************************************************************************)
EXTENDS ChapterAdvisor, FiniteLemmas

-----------------------------------------------------------------------------
(* Fractions.                                                                *)
-----------------------------------------------------------------------------
Fractions == [num : Nat, den : Nat \ {0}]

AtMost(a, b) == a.num * b.den <= b.num * a.den

LEMMA Times ==
  ASSUME NEW x \in Nat, NEW y \in Nat, NEW k \in Nat PROVE x <= y => x * k <= y * k
OBVIOUS

LEMMA Cancel ==
  ASSUME NEW x \in Nat, NEW y \in Nat, NEW k \in Nat \ {0} PROVE x * k <= y * k => x <= y
<1> SUFFICES ASSUME y < x PROVE y * k < x * k
  OBVIOUS
<1>1. y + 1 <= x
  OBVIOUS
<1>2. (y + 1) * k <= x * k
  BY <1>1, Times
<1>3. (y + 1) * k = y * k + k
  OBVIOUS
<1>4. y * k \in Int /\ x * k \in Int
  OBVIOUS
<1> QED
  BY <1>2, <1>3, <1>4

LEMMA OrderIsTotal ==
  ASSUME NEW a \in Fractions, NEW b \in Fractions
  PROVE  /\ a \prec b <=> ~AtMost(b, a)
         /\ AtMost(a, b) \/ AtMost(b, a)
<1>1. a.num * b.den \in Int /\ b.num * a.den \in Int
  BY DEF Fractions
<1> QED
  BY <1>1 DEF AtMost, \prec

LEMMA AtMostTransitive ==
  ASSUME NEW a \in Fractions, NEW b \in Fractions, NEW c \in Fractions,
         AtMost(a, b), AtMost(b, c)
  PROVE  AtMost(a, c)
<1> DEFINE an == a.num ad == a.den bn == b.num bd == b.den cn == c.num cd == c.den
<1>1. /\ an \in Nat /\ bn \in Nat /\ cn \in Nat
      /\ ad \in Nat \ {0} /\ bd \in Nat \ {0} /\ cd \in Nat \ {0}
  BY DEF Fractions
<1>2. an * bd <= bn * ad /\ bn * cd <= cn * bd
  BY DEF AtMost
<1> HIDE DEF an, ad, bn, bd, cn, cd
<1>3. /\ an * bd \in Nat /\ bn * ad \in Nat /\ bn * cd \in Nat /\ cn * bd \in Nat
      /\ an * cd \in Nat /\ cn * ad \in Nat
  BY <1>1
<1>4. (an * bd) * cd <= (bn * ad) * cd
  BY <1>1, <1>2, <1>3, Times
<1>5. (bn * cd) * ad <= (cn * bd) * ad
  BY <1>1, <1>2, <1>3, Times
<1>6. (bn * ad) * cd = (bn * cd) * ad /\ (an * bd) * cd = (an * cd) * bd
      /\ (cn * bd) * ad = (cn * ad) * bd
  BY <1>1
<1>7. (an * cd) * bd <= (cn * ad) * bd
  BY <1>1, <1>3, <1>4, <1>5, <1>6
<1>8. an * cd <= cn * ad
  BY <1>1, <1>3, <1>7, Cancel
<1> QED
  BY <1>8 DEF AtMost, an, ad, cn, cd

(* The advisor's ranking has a first entry: no score is above its score, and *)
(* no smaller id has the same.                                               *)
LEMMA FirstIsBest ==
  ASSUME NEW D, D # {}, IsFiniteSet(D), D \subseteq Nat, NEW score \in [D -> Fractions]
  PROVE  /\ First(score) \in D
         /\ \A d \in D : AtMost(score[d], score[First(score)])
         /\ \A d \in D : AtMost(score[First(score)], score[d]) => First(score) <= d
<1> DEFINE Before(x, y) == score[y] \prec score[x] \/ (~ score[x] \prec score[y] /\ x < y)
           R == {p \in D \X D : Before(p[1], p[2])}
<1>1. \A x, y \in D : <<x, y>> \in R <=> Before(x, y)
  OBVIOUS
<1>2. ASSUME NEW x \in D, NEW y \in D
      PROVE  Before(x, y) <=> ~AtMost(score[x], score[y])
                              \/ (AtMost(score[y], score[x]) /\ x < y)
  BY OrderIsTotal
<1>3. ASSUME NEW x \in D, NEW y \in D, x # y PROVE Before(x, y) \/ Before(y, x)
  <2>1. AtMost(score[x], score[y]) \/ AtMost(score[y], score[x])
    BY OrderIsTotal
  <2> HIDE DEF Before
  <2>2. x < y \/ y < x
    BY <1>3
  <2> QED
    BY <1>2, <2>1, <2>2
<1>4. ASSUME NEW x \in D, NEW y \in D, NEW z \in D, Before(x, y), Before(y, z)
      PROVE  Before(x, z)
  <2>1. AtMost(score[x], score[y]) /\ AtMost(score[y], score[z]) => AtMost(score[x], score[z])
    BY AtMostTransitive
  <2>2. AtMost(score[y], score[z]) /\ AtMost(score[z], score[x]) => AtMost(score[y], score[x])
    BY AtMostTransitive
  <2>3. AtMost(score[z], score[x]) /\ AtMost(score[x], score[y]) => AtMost(score[z], score[y])
    BY AtMostTransitive
  <2>4. AtMost(score[x], score[z]) /\ AtMost(score[z], score[y]) => AtMost(score[x], score[y])
    BY AtMostTransitive
  <2>5. AtMost(score[y], score[x]) /\ AtMost(score[x], score[z]) => AtMost(score[y], score[z])
    BY AtMostTransitive
  <2>6. AtMost(score[z], score[y]) /\ AtMost(score[y], score[x]) => AtMost(score[z], score[x])
    BY AtMostTransitive
  <2>7. /\ AtMost(score[x], score[y]) \/ AtMost(score[y], score[x])
        /\ AtMost(score[y], score[z]) \/ AtMost(score[z], score[y])
        /\ AtMost(score[x], score[z]) \/ AtMost(score[z], score[x])
    BY OrderIsTotal
  <2>8. x < y /\ y < z => x < z
    OBVIOUS
  <2> HIDE DEF Before
  <2>9. /\ ~AtMost(score[x], score[y]) \/ (AtMost(score[y], score[x]) /\ x < y)
        /\ ~AtMost(score[y], score[z]) \/ (AtMost(score[z], score[y]) /\ y < z)
    BY <1>2, <1>4
  <2>10. ~AtMost(score[x], score[z]) \/ (AtMost(score[z], score[x]) /\ x < z)
    BY <2>1, <2>2, <2>3, <2>4, <2>5, <2>6, <2>7, <2>8, <2>9
  <2> QED
    BY <1>2, <2>10
<1> HIDE DEF R
<1>5. \E x \in D : LeadsAll(R, D, x)
  <2> HIDE DEF Before
  <2>1. \A x, y \in D : x # y => <<x, y>> \in R \/ <<y, x>> \in R
    BY <1>1, <1>3
  <2>2. \A x, y, z \in D : <<x, y>> \in R /\ <<y, z>> \in R => <<x, z>> \in R
    BY <1>1, <1>4
  <2> QED
    BY <2>1, <2>2, RankingHasFirst
<1>6. \E x \in D : \A y \in D \ {x} : Before(x, y)
  <2> HIDE DEF Before
  <2> QED
    BY <1>1, <1>5 DEF LeadsAll
<1>7. First(score) = CHOOSE x \in D : \A y \in D \ {x} : Before(x, y)
  BY DEF First
<1>8. First(score) \in D /\ \A y \in D \ {First(score)} : Before(First(score), y)
  <2> HIDE DEF Before
  <2> QED
    BY <1>6, <1>7
<1>9. ASSUME NEW d \in D PROVE AtMost(score[d], score[First(score)])
  <2>1. CASE d = First(score)
    BY <2>1, OrderIsTotal, <1>8
  <2>2. CASE d # First(score)
    <3>1. Before(First(score), d)
      BY <1>8, <2>2
    <3> HIDE DEF Before
    <3>2. ~AtMost(score[First(score)], score[d]) \/ AtMost(score[d], score[First(score)])
      BY <1>2, <1>8, <3>1
    <3> QED
      BY <1>8, <3>1, <1>2, OrderIsTotal
  <2> QED
    BY <2>1, <2>2
<1>10. ASSUME NEW d \in D, AtMost(score[First(score)], score[d]) PROVE First(score) <= d
  <2>1. CASE d = First(score)
    BY <2>1
  <2>2. CASE d # First(score)
    <3>1. Before(First(score), d)
      BY <1>8, <2>2
    <3> HIDE DEF Before
    <3>2. First(score) < d
      BY <1>2, <1>8, <1>10, <3>1
    <3>3. First(score) \in Nat /\ d \in Nat
      BY <1>8
    <3> QED
      BY <3>2, <3>3
  <2> QED
    BY <2>1, <2>2
<1> QED
  BY <1>8, <1>9, <1>10

-----------------------------------------------------------------------------
(* The scores of a chapter that needs n, for an account with power p.        *)
-----------------------------------------------------------------------------
SafetyOf(p, n) ==
  IF n = 0 \/ p >= n THEN Fraction(1, 1)
  ELSE IF 10 * p <= 7 * n THEN Fraction(0, 1)
  ELSE Fraction(10 * p - 7 * n, 3 * n)

Progress(p, n) == Fraction(n * SafetyOf(p, n).num, SafetyOf(p, n).den)

(* ... with a build of strength b and an energy cost e, in farming mode.     *)
Yield(b, p, n, e) == Fraction(b * SafetyOf(p, n).num, SafetyOf(p, n).den * Price(e))

LEMMA Product == ASSUME NEW x \in Nat, NEW y \in Nat PROVE x * y \in Nat
OBVIOUS

LEMMA Positive == ASSUME NEW x \in Nat \ {0}, NEW y \in Nat \ {0} PROVE x * y \in Nat \ {0}
OBVIOUS

LEMMA SafetyIsFraction ==
  ASSUME NEW p \in Nat, NEW n \in Nat
  PROVE  /\ SafetyOf(p, n) \in Fractions
         /\ SafetyOf(p, n).num <= SafetyOf(p, n).den
         /\ p >= n => SafetyOf(p, n) = Fraction(1, 1)
BY DEF SafetyOf, Fraction, Fractions

LEMMA ScoresAreFractions ==
  ASSUME NEW b \in Nat, NEW p \in Nat, NEW n \in Nat, NEW e \in Nat
  PROVE  /\ Progress(p, n) \in Fractions /\ Yield(b, p, n, e) \in Fractions
         /\ Price(e) \in Nat \ {0}
<1> DEFINE s == SafetyOf(p, n)
<1>1. s.num \in Nat /\ s.den \in Nat \ {0} /\ Price(e) \in Nat \ {0}
  BY SafetyIsFraction DEF Fractions, Price
<1> HIDE DEF s
<1>2. n * s.num \in Nat /\ b * s.num \in Nat /\ s.den * Price(e) \in Nat \ {0}
  BY <1>1, Product, Positive
<1> QED
  BY <1>1, <1>2 DEF Progress, Yield, Fractions, Fraction, s

(* Three times the score of a chapter in progression mode: below 7/10 of the *)
(* need nothing, from the need on all of it, and linear between.             *)
Reach(p, n) ==
  IF p >= n THEN 3 * n ELSE IF 10 * p <= 7 * n THEN 0 ELSE 10 * p - 7 * n

LEMMA ReachIsProgress ==
  ASSUME NEW p \in Nat, NEW n \in Nat
  PROVE  3 * Progress(p, n).num = Reach(p, n) * Progress(p, n).den /\ Reach(p, n) \in Nat
<1>1. CASE p >= n
  BY <1>1 DEF Progress, SafetyOf, Fraction, Reach
<1>2. CASE p < n /\ 10 * p <= 7 * n
  BY <1>2 DEF Progress, SafetyOf, Fraction, Reach
<1>3. CASE p < n /\ 10 * p > 7 * n
  <2> DEFINE k == 10 * p - 7 * n
  <2>1. k \in Nat /\ n # 0
    BY <1>3
  <2>2. Progress(p, n).num = n * k /\ Progress(p, n).den = 3 * n /\ Reach(p, n) = k
    BY <1>3, <2>1 DEF Progress, SafetyOf, Fraction, Reach
  <2> HIDE DEF k
  <2>3. 3 * (n * k) = k * (3 * n)
    BY <2>1
  <2> QED
    BY <2>1, <2>2, <2>3
<1> QED
  BY <1>1, <1>2, <1>3

LEMMA ReachOrders ==
  ASSUME NEW p \in Nat, NEW n \in Nat, NEW m \in Nat, AtMost(Progress(p, n), Progress(p, m))
  PROVE  Reach(p, n) <= Reach(p, m)
<1> DEFINE an == Progress(p, n).num  ad == Progress(p, n).den
           bn == Progress(p, m).num  bd == Progress(p, m).den
           ra == Reach(p, n)  rb == Reach(p, m)
<1>1. /\ an \in Nat /\ bn \in Nat /\ ad \in Nat \ {0} /\ bd \in Nat \ {0}
  BY ScoresAreFractions DEF Fractions
<1>2. 3 * an = ra * ad /\ 3 * bn = rb * bd /\ ra \in Nat /\ rb \in Nat
  BY ReachIsProgress
<1>3. an * bd <= bn * ad
  BY DEF AtMost
<1> HIDE DEF an, ad, bn, bd, ra, rb
<1>4. an * bd \in Nat /\ bn * ad \in Nat /\ ad * bd \in Nat \ {0}
  BY <1>1, Product, Positive
<1>5. (3 * an) * bd <= (3 * bn) * ad
  <2>1. (3 * an) * bd = 3 * (an * bd) /\ (3 * bn) * ad = 3 * (bn * ad)
    BY <1>1
  <2> QED
    BY <1>3, <1>4, <2>1
<1>6. (ra * ad) * bd = ra * (ad * bd) /\ (rb * bd) * ad = rb * (ad * bd)
  BY <1>1, <1>2
<1>7. ra * (ad * bd) <= rb * (ad * bd)
  BY <1>2, <1>5, <1>6
<1> QED
  BY <1>2, <1>4, <1>7, Cancel DEF ra, rb

-----------------------------------------------------------------------------
(* The picks.                                                                *)
-----------------------------------------------------------------------------
TypeInv ==
  /\ number \in [Chapter -> Number] /\ need \in [Chapter -> Needs]
  /\ cleared \subseteq Chapter /\ power \in Powers /\ strength \in Strengths

LEMMA CatalogFacts ==
  ASSUME TypeInv
  PROVE  /\ power \in Nat /\ strength \in Nat /\ Unlocked \subseteq Chapter /\ Unlocked \subseteq Nat
         /\ IsFiniteSet(Unlocked)
         /\ \A c \in Chapter : /\ need[c] \in Nat /\ number[c] \in Nat \ {0}
                               /\ Energy[c] \in Nat /\ c \in Nat
<1>1. Unlocked \subseteq Chapter
  BY DEF Unlocked
<1> QED
  BY <1>1, FS_Subset, ChapterAssumption DEF TypeInv

LEMMA ScoresOfChapters ==
  ASSUME NEW c
  PROVE  /\ Safety(c) = SafetyOf(power, need[c])
         /\ ProgressionSuitability(c) = Progress(power, need[c])
         /\ FarmSuitability(c) = Yield(strength, power, need[c], Energy[c])
         /\ TooRisky(c) <=> SafetyOf(power, need[c]).num = 0
BY DEF Safety, SafetyOf, ProgressionSuitability, Progress, FarmSuitability, Yield, TooRisky

(* The ranking of the chapters U in progression mode, and in farming mode.   *)
Farthest(p, N, U) == First([c \in U |-> Progress(p, N[c])])

LEMMA FarthestIsBest ==
  ASSUME NEW p \in Nat, NEW U, U # {}, IsFiniteSet(U), U \subseteq Nat,
         NEW N, \A c \in U : N[c] \in Nat
  PROVE  LET a == Farthest(p, N, U) IN
         /\ a \in U
         /\ \A c \in U : AtMost(Progress(p, N[c]), Progress(p, N[a]))
         /\ \A c \in U : AtMost(Progress(p, N[a]), Progress(p, N[c])) => a <= c
<1> DEFINE score == [c \in U |-> Progress(p, N[c])]
           a == First(score)
<1>1. score \in [U -> Fractions]
  <2>1. \A c \in U : Progress(p, N[c]) \in Fractions
    BY ScoresAreFractions
  <2> QED
    BY <2>1
<1>2. \A c \in U : score[c] = Progress(p, N[c])
  OBVIOUS
<1> HIDE DEF score
<1>3. /\ a \in U
      /\ \A d \in U : AtMost(score[d], score[a])
      /\ \A d \in U : AtMost(score[a], score[d]) => a <= d
  BY <1>1, FirstIsBest
<1>4. a = Farthest(p, N, U)
  BY DEF Farthest, score
<1> HIDE DEF a
<1> QED
  BY <1>2, <1>3, <1>4

LEMMA PushPickIsBest ==
  ASSUME TypeInv, Unlocked # {}
  PROVE  /\ PushPick \in Unlocked
         /\ \A c \in Unlocked : AtMost(Progress(power, need[c]), Progress(power, need[PushPick]))
<1>1. PushPick = Farthest(power, need, Unlocked)
  BY ScoresOfChapters DEF PushPick, Farthest
<1> QED
  BY <1>1, CatalogFacts, FarthestIsBest

LEMMA FarmPickIsBest ==
  ASSUME TypeInv, Unlocked # {}
  PROVE  /\ FarmPick \in Unlocked
         /\ \A c \in Unlocked : AtMost(Yield(strength, power, need[c], Energy[c]),
                                       Yield(strength, power, need[FarmPick], Energy[FarmPick]))
         /\ \A c \in Unlocked : AtMost(Yield(strength, power, need[FarmPick], Energy[FarmPick]),
                                       Yield(strength, power, need[c], Energy[c])) => FarmPick <= c
<1> DEFINE score == [c \in Unlocked |-> FarmSuitability(c)]
<1>1. score \in [Unlocked -> Fractions]
  <2>1. ASSUME NEW c \in Unlocked
        PROVE  Yield(strength, power, need[c], Energy[c]) \in Fractions
    BY CatalogFacts, ScoresAreFractions
  <2>2. \A c \in Unlocked : FarmSuitability(c) \in Fractions
    BY <2>1, ScoresOfChapters
  <2> QED
    BY <2>2
<1>2. /\ First(score) \in Unlocked
      /\ \A d \in Unlocked : AtMost(score[d], score[First(score)])
      /\ \A d \in Unlocked : AtMost(score[First(score)], score[d]) => First(score) <= d
  <2> HIDE DEF score
  <2> QED
    BY <1>1, CatalogFacts, FirstIsBest
<1>3. FarmPick = First(score)
  BY DEF FarmPick
<1> HIDE DEF score
<1>4. /\ FarmPick \in Unlocked
      /\ \A d \in Unlocked : AtMost(score[d], score[FarmPick])
      /\ \A d \in Unlocked : AtMost(score[FarmPick], score[d]) => FarmPick <= d
  BY <1>2, <1>3
<1>5. \A d \in Unlocked : score[d] = Yield(strength, power, need[d], Energy[d])
  BY ScoresOfChapters DEF score
<1> QED
  BY <1>4, <1>5

-----------------------------------------------------------------------------
(* What the picks promise, in every state.                                   *)
-----------------------------------------------------------------------------
LEMMA ReachIsCapped ==
  ASSUME NEW p \in Nat, NEW n \in Nat
  PROVE  Reach(p, n) <= 3 * n /\ (p >= n => Reach(p, n) = 3 * n)
BY DEF Reach

LEMMA NothingIsBelowNothing ==
  ASSUME NEW a \in Fractions, NEW b \in Fractions, AtMost(a, b), b.num = 0
  PROVE  a.num = 0
<1>1. a.num \in Nat /\ b.den \in Nat \ {0} /\ a.den \in Nat \ {0}
  BY DEF Fractions
<1>2. a.num * b.den <= 0
  BY <1>1 DEF AtMost
<1>3. a.num # 0 => a.num * b.den \in Nat \ {0}
  BY <1>1, Positive
<1> QED
  BY <1>1, <1>2, <1>3

LEMMA PushIsFarAlways == TypeInv => PushIsFar
<1> SUFFICES ASSUME TypeInv, Unlocked # {}
             PROVE  /\ \A c \in Unlocked : power >= need[c] => need[c] <= need[PushPick]
                    /\ TooRisky(PushPick) => \A c \in Unlocked : TooRisky(c) \/ need[c] = 0
  BY DEF PushIsFar
<1> DEFINE a == PushPick
<1>1. /\ a \in Unlocked
      /\ \A c \in Unlocked : AtMost(Progress(power, need[c]), Progress(power, need[a]))
  BY PushPickIsBest
<1> HIDE DEF a
<1>2. power \in Nat /\ \A c \in Unlocked : need[c] \in Nat
  BY CatalogFacts
<1>3. ASSUME NEW c \in Unlocked, power >= need[c] PROVE need[c] <= need[a]
  <2>1. Reach(power, need[c]) <= Reach(power, need[a])
    BY <1>1, <1>2, ReachOrders
  <2>2. Reach(power, need[c]) = 3 * need[c] /\ Reach(power, need[a]) <= 3 * need[a]
    BY <1>1, <1>2, <1>3, ReachIsCapped
  <2>3. Reach(power, need[a]) \in Nat
    BY <1>1, <1>2, ReachIsProgress
  <2> QED
    BY <1>1, <1>2, <2>1, <2>2, <2>3
<1>4. ASSUME TooRisky(a), NEW c \in Unlocked PROVE TooRisky(c) \/ need[c] = 0
  <2>1. Progress(power, need[a]).num = 0
    BY <1>1, <1>2, <1>4, ScoresOfChapters DEF Progress, Fraction
  <2>2. Progress(power, need[c]) \in Fractions /\ Progress(power, need[a]) \in Fractions
    BY <1>1, <1>2, ScoresAreFractions, 0 \in Nat
  <2>3. Progress(power, need[c]).num = 0
    BY <1>1, <2>1, <2>2, NothingIsBelowNothing
  <2>4. need[c] * SafetyOf(power, need[c]).num = 0
    BY <2>3 DEF Progress, Fraction
  <2>5. SafetyOf(power, need[c]).num \in Nat
    BY <1>2, SafetyIsFraction DEF Fractions
  <2>6. need[c] # 0 /\ SafetyOf(power, need[c]).num # 0
          => need[c] * SafetyOf(power, need[c]).num \in Nat \ {0}
    BY <1>2, <2>5, Positive
  <2> QED
    BY <2>4, <2>6, ScoresOfChapters
<1> QED
  BY <1>3, <1>4 DEF a

(* Without strength all chapters tie. *)
LEMMA NoStrengthTies ==
  ASSUME TypeInv, strength = 0, NEW c \in Unlocked
  PROVE  FarmPick <= c
<1> DEFINE x == Yield(strength, power, need[FarmPick], Energy[FarmPick])
           y == Yield(strength, power, need[c], Energy[c])
<1>1. FarmPick \in Unlocked
  BY FarmPickIsBest
<1>2. power \in Nat /\ \A d \in Unlocked : need[d] \in Nat /\ Energy[d] \in Nat
  BY CatalogFacts
<1>3. x \in Fractions /\ y \in Fractions
  BY <1>1, <1>2, ScoresAreFractions, 0 \in Nat
<1>4. SafetyOf(power, need[FarmPick]).num \in Nat
  BY <1>1, <1>2, SafetyIsFraction DEF Fractions
<1>5. x.num = 0
  BY <1>4 DEF Yield, Fraction
<1>6. AtMost(x, y)
  <2> HIDE DEF x, y
  <2>1. y.num * x.den \in Nat /\ x.num * y.den = 0
    BY <1>3, <1>5, Product DEF Fractions
  <2> QED
    BY <2>1 DEF AtMost
<1> QED
  BY <1>6, FarmPickIsBest

LEMMA FarmIsSafeAndCheapAlways == TypeInv => FarmIsSafeAndCheap
<1> SUFFICES ASSUME TypeInv, Unlocked # {}, strength # 0
             PROVE  /\ TooRisky(FarmPick) => \A c \in Unlocked : TooRisky(c)
                    /\ \A c \in Unlocked :
                         power >= need[c] => Energy[FarmPick] <= Price(Energy[c])
  BY NoStrengthTies DEF FarmIsSafeAndCheap
<1> DEFINE a == FarmPick
           b == strength
<1>1. /\ a \in Unlocked
      /\ \A c \in Unlocked : AtMost(Yield(b, power, need[c], Energy[c]),
                                    Yield(b, power, need[a], Energy[a]))
  BY FarmPickIsBest
<1>0. b \in Nat \ {0}
  BY CatalogFacts
<1> HIDE DEF a
<1>2. power \in Nat /\ \A c \in Unlocked : need[c] \in Nat /\ Energy[c] \in Nat
  BY CatalogFacts
<1>3. \A c \in Unlocked : Yield(b, power, need[c], Energy[c]) \in Fractions
  BY <1>0, <1>2, ScoresAreFractions
<1>4. ASSUME NEW c \in Unlocked
      PROVE  TooRisky(c) <=> Yield(b, power, need[c], Energy[c]).num = 0
  <2> DEFINE s == SafetyOf(power, need[c]).num
  <2>1. s \in Nat
    BY <1>2, SafetyIsFraction DEF Fractions
  <2>2. Yield(b, power, need[c], Energy[c]).num = b * s /\ (TooRisky(c) <=> s = 0)
    BY ScoresOfChapters DEF Yield, Fraction
  <2> HIDE DEF s, b
  <2>3. (s = 0 => b * s = 0) /\ (s # 0 => b * s # 0)
    BY <1>0, <2>1, Positive
  <2> QED
    BY <2>2, <2>3
<1> HIDE DEF b
<1>5. ASSUME TooRisky(a), NEW c \in Unlocked PROVE TooRisky(c)
  BY <1>1, <1>3, <1>4, <1>5, NothingIsBelowNothing
<1>6. ASSUME NEW c \in Unlocked, power >= need[c] PROVE Energy[a] <= Price(Energy[c])
  <2> DEFINE s == SafetyOf(power, need[a])
             x == Price(Energy[a])
             y == Price(Energy[c])
  <2>1. /\ s.num \in Nat /\ s.den \in Nat \ {0} /\ s.num <= s.den
        /\ x \in Nat \ {0} /\ y \in Nat \ {0} /\ Energy[a] <= x
    <3>1. need[a] \in Nat /\ Energy[a] \in Nat /\ Energy[c] \in Nat
      BY <1>1, <1>2
    <3>2. s \in Fractions /\ s.num <= s.den
      BY <1>2, <3>1, SafetyIsFraction
    <3> QED
      BY <3>1, <3>2 DEF Fractions, Price
  <2>2. SafetyOf(power, need[c]) = Fraction(1, 1)
    BY <1>2, <1>6, SafetyIsFraction
  <2> HIDE DEF s, x, y
  <2>3. (b * 1) * (s.den * x) <= (b * s.num) * (1 * y)
    BY <1>1, <2>2 DEF AtMost, Yield, Fraction, s, x, y
  <2>4. s.den * x \in Nat /\ s.num * y \in Nat /\ s.den * y \in Nat
    BY <2>1, Product
  <2>5. s.num * y <= s.den * y
    BY <2>1, Times
  <2>6. x * s.den <= y * s.den
    <3>1. /\ (b * 1) * (s.den * x) = (s.den * x) * b
          /\ (b * s.num) * (1 * y) = (s.num * y) * b
      BY <1>0, <2>1
    <3>2. s.den * x <= s.num * y
      BY <1>0, <2>3, <2>4, <3>1, Cancel
    <3>3. s.den * x = x * s.den /\ s.den * y = y * s.den
      BY <2>1
    <3> QED
      BY <2>4, <2>5, <3>2, <3>3
  <2>7. x <= y
    BY <2>1, <2>6, Cancel
  <2> QED
    BY <1>1, <1>2, <2>1, <2>7 DEF y
<1> QED
  BY <1>5, <1>6 DEF a

-----------------------------------------------------------------------------
(* More power.                                                               *)
-----------------------------------------------------------------------------
LEMMA MorePowerMoreReach ==
  ASSUME NEW p \in Nat, NEW q \in Nat, p < q, NEW n \in Nat
  PROVE  Reach(p, n) <= Reach(q, n)
BY DEF Reach

(* What overtakes an easier chapter is not overtaken by it later. *)
LEMMA NoTurningBack ==
  ASSUME NEW p \in Nat, NEW q \in Nat, p < q, NEW n \in Nat, NEW m \in Nat,
         Reach(p, n) > 0, Reach(p, m) <= Reach(p, n), Reach(q, n) <= Reach(q, m)
  PROVE  n <= m
BY DEF Reach

LEMMA RiskIsNoReach ==
  ASSUME NEW p \in Nat, NEW n \in Nat
  PROVE  /\ SafetyOf(p, n).num # 0 => Reach(p, n) > 0 \/ n = 0
         /\ Reach(p, n) > 0 \/ n = 0 => SafetyOf(p, n).num # 0
BY DEF SafetyOf, Reach, Fraction

(* Chapters of no reach are all equal. *)
LEMMA NoReachTies ==
  ASSUME NEW p \in Nat, NEW n \in Nat, NEW m \in Nat, Reach(p, n) = 0
  PROVE  AtMost(Progress(p, n), Progress(p, m))
<1> DEFINE a == Progress(p, n)
           b == Progress(p, m)
<1>1. 3 * a.num = Reach(p, n) * a.den
  BY ReachIsProgress
<1>2. a \in Fractions /\ b \in Fractions
  BY ScoresAreFractions, 0 \in Nat
<1> HIDE DEF a, b
<1>3. a.num = 0
  BY <1>1, <1>2 DEF Fractions
<1>4. b.num * a.den \in Nat /\ b.den \in Nat
  BY <1>2, Product DEF Fractions
<1>5. AtMost(a, b)
  BY <1>3, <1>4 DEF AtMost
<1> QED
  BY <1>5 DEF a, b

LEMMA StrongerPicksFarther ==
  ASSUME NEW U, U # {}, IsFiniteSet(U), U \subseteq Nat, NEW N, \A c \in U : N[c] \in Nat,
         NEW p \in Nat, NEW q \in Nat, p < q,
         SafetyOf(p, N[Farthest(p, N, U)]).num # 0
  PROVE  /\ N[Farthest(q, N, U)] >= N[Farthest(p, N, U)]
         /\ SafetyOf(q, N[Farthest(q, N, U)]).num # 0
<1> DEFINE a == Farthest(p, N, U)
           b == Farthest(q, N, U)
<1>1. /\ a \in U /\ \A c \in U : AtMost(Progress(p, N[c]), Progress(p, N[a]))
      /\ \A c \in U : AtMost(Progress(p, N[a]), Progress(p, N[c])) => a <= c
  BY FarthestIsBest
<1>2. /\ b \in U /\ \A c \in U : AtMost(Progress(q, N[c]), Progress(q, N[b]))
      /\ \A c \in U : AtMost(Progress(q, N[b]), Progress(q, N[c])) => b <= c
  BY FarthestIsBest
<1>3. SafetyOf(p, N[a]).num # 0
  OBVIOUS
<1> HIDE DEF a, b
<1>4. N[a] \in Nat /\ N[b] \in Nat /\ a \in Nat /\ b \in Nat
  BY <1>1, <1>2
<1>5. /\ Reach(p, N[a]) \in Nat /\ Reach(p, N[b]) \in Nat
      /\ Reach(q, N[a]) \in Nat /\ Reach(q, N[b]) \in Nat
  BY <1>4, ReachIsProgress
<1>6. Reach(p, N[b]) <= Reach(p, N[a]) /\ Reach(q, N[a]) <= Reach(q, N[b])
  BY <1>1, <1>2, <1>4, ReachOrders
<1>7. Reach(p, N[a]) <= Reach(q, N[a]) /\ Reach(p, N[b]) <= Reach(q, N[b])
  BY <1>4, MorePowerMoreReach
<1>8. CASE Reach(q, N[b]) = 0
  <2>1. Reach(p, N[a]) = 0 /\ Reach(p, N[b]) = 0
    BY <1>5, <1>6, <1>7, <1>8
  <2>2. N[a] = 0
    BY <1>3, <1>4, <2>1, RiskIsNoReach
  <2>3. b <= a
    BY <1>1, <1>2, <1>4, <1>8, NoReachTies
  <2>4. a <= b
    BY <1>1, <1>2, <1>4, <2>1, NoReachTies
  <2>5. a = b
    BY <1>4, <2>3, <2>4
  <2> QED
    BY <1>4, <2>2, <2>5, RiskIsNoReach DEF a, b
<1>9. CASE Reach(q, N[b]) > 0
  <2>1. SafetyOf(q, N[b]).num # 0
    BY <1>4, <1>9, RiskIsNoReach
  <2>2. N[b] >= N[a]
    <3>1. CASE N[a] = 0
      BY <1>4, <3>1
    <3>2. CASE Reach(p, N[a]) > 0
      BY <1>4, <1>6, <3>2, NoTurningBack
    <3> QED
      BY <1>3, <1>4, <3>1, <3>2, RiskIsNoReach
  <2> QED
    BY <2>1, <2>2 DEF a, b
<1> QED
  BY <1>5, <1>8, <1>9

-----------------------------------------------------------------------------
(* The walk through the chapters.                                            *)
-----------------------------------------------------------------------------
Walk == TypeInv /\ ClearedInOrder

LEMMA InitWalk == Init => Walk
BY DEF Init, Walk, TypeInv, ClearedInOrder

LEMMA NextWalk == Walk /\ [Next]_vars => Walk'
<1> SUFFICES ASSUME Walk, [Next]_vars PROVE Walk'
  OBVIOUS
<1> USE DEF Walk
<1>1. CASE Push
  <2> DEFINE a == PushPick
  <2>1. /\ Unlocked # {} /\ cleared' = cleared \cup {a}
        /\ number' = number /\ need' = need /\ power' = power
        /\ strength' = strength
    BY <1>1 DEF Push
  <2>2. a \in Unlocked /\ a \in Chapter
    BY <2>1, PushPickIsBest, CatalogFacts
  <2>3. number[a] = 1 \/ \E d \in cleared : number[d] = number[a] - 1
    BY <2>2 DEF Unlocked
  <2> HIDE DEF a
  <2>4. TypeInv'
    BY <2>1, <2>2 DEF TypeInv
  <2>5. ASSUME NEW c \in cleared', NEW n \in 1 .. number[c]
        PROVE  \E d \in cleared' : number[d] = n
    <3>1. CASE c \in cleared
      BY <2>1, <3>1, <2>5 DEF ClearedInOrder
    <3>2. CASE c = a
      <4>1. number[a] \in Nat \ {0} /\ \A d \in cleared : number[d] \in Nat \ {0}
        BY <2>2, CatalogFacts DEF TypeInv
      <4>2. CASE n = number[a]
        BY <2>1, <4>2
      <4>3. CASE n # number[a]
        <5>1. number[a] # 1 /\ n \in 1 .. number[a] - 1
          BY <2>5, <3>2, <4>1, <4>3
        <5>2. PICK d \in cleared : number[d] = number[a] - 1
          BY <2>3, <5>1
        <5>3. \E e \in cleared : number[e] = n
          BY <5>1, <5>2 DEF ClearedInOrder
        <5> QED
          BY <2>1, <5>3
      <4> QED
        BY <4>2, <4>3
    <3> QED
      BY <2>1, <3>1, <3>2
  <2>6. ClearedInOrder'
    BY <2>1, <2>5 DEF ClearedInOrder
  <2> QED
    BY <2>4, <2>6
<1>2. CASE Strengthen
  BY <1>2 DEF Strengthen, TypeInv, ClearedInOrder
<1>3. CASE UNCHANGED vars
  BY <1>3 DEF vars, TypeInv, ClearedInOrder
<1>4. CASE Rebuild
  BY <1>4 DEF Rebuild, TypeInv, ClearedInOrder
<1> QED
  BY <1>1, <1>2, <1>3, <1>4 DEF Next

LEMMA StepStronger ==
  Walk /\ [Next]_vars =>
    (power' > power /\ Unlocked # {} /\ ~ TooRisky(PushPick)
       => need'[PushPick'] >= need[PushPick] /\ ~ TooRisky(PushPick)')
<1> SUFFICES ASSUME Walk, [Next]_vars, power' > power, Unlocked # {}, ~ TooRisky(PushPick)
             PROVE  need'[PushPick'] >= need[PushPick] /\ ~ TooRisky(PushPick)'
  OBVIOUS
<1>1. TypeInv /\ power \in Nat
  BY CatalogFacts DEF Walk
<1>2. number' = number /\ need' = need /\ cleared' = cleared /\ power' \in Nat
  BY <1>1, ChapterAssumption DEF Next, Push, Strengthen, Rebuild, vars
<1>3. Unlocked' = Unlocked
  BY <1>2 DEF Unlocked
<1>4. PushPick = Farthest(power, need, Unlocked)
  BY ScoresOfChapters DEF PushPick, Farthest
<1>5. PushPick' = Farthest(power', need, Unlocked)
  <2>1. PushPick' = First([c \in Unlocked' |-> Progress(power', need'[c])])
    BY DEF PushPick, ProgressionSuitability, Safety, Progress, SafetyOf, First, Fraction, \prec
  <2> QED
    BY <1>2, <1>3, <2>1 DEF Farthest
<1>6. SafetyOf(power, need[PushPick]).num # 0
  BY ScoresOfChapters
<1>7. /\ need[PushPick'] >= need[PushPick]
      /\ SafetyOf(power', need[PushPick']).num # 0
  BY <1>1, <1>2, <1>4, <1>5, <1>6, CatalogFacts, StrongerPicksFarther
<1>8. TooRisky(PushPick)' <=> SafetyOf(power', need'[PushPick']).num = 0
  BY DEF TooRisky, Safety, SafetyOf, Fraction
<1> QED
  BY <1>2, <1>7, <1>8

LEMMA WalkHolds == Spec => []Walk
BY InitWalk, NextWalk, PTL DEF Spec

-----------------------------------------------------------------------------
(* For every catalog and every account: what is cleared is cleared from      *)
(* chapter 1 on without a gap (chapter_advisor.py:111-112).                  *)
THEOREM NoChapterSkipped == Spec => []ClearedInOrder
<1>1. Walk => ClearedInOrder
  BY DEF Walk
<1> QED
  BY <1>1, WalkHolds, PTL

(* For every catalog and every account: no chapter the account has the power *)
(* for lies farther than the pick in progression mode                        *)
(* (chapter_advisor.py:7-10).                                                *)
THEOREM PushesFar == Spec => []PushIsFar
<1>1. Walk => PushIsFar
  BY PushIsFarAlways DEF Walk
<1> QED
  BY <1>1, WalkHolds, PTL

(* For every catalog and every account: with a build of any strength the     *)
(* pick in farming mode is too risky only if everything is, and nothing      *)
(* fully safe is cheaper; without strength it is the lowest id unlocked      *)
(* (farm_suitability, chapter_scoring.py:57-61).                             *)
THEOREM FarmsCheaply == Spec => []FarmIsSafeAndCheap
<1>1. Walk => FarmIsSafeAndCheap
  BY FarmIsSafeAndCheapAlways DEF Walk
<1> QED
  BY <1>1, WalkHolds, PTL

(* For every catalog and every account: more combat power never turns the    *)
(* advice to an easier chapter, nor to one that is too risky.                *)
THEOREM NeverTurnsBack == Spec => StrongerPushesFarther
<1>1. Walk /\ [Next]_vars
        => [power' > power /\ Unlocked # {} /\ ~ TooRisky(PushPick)
              => need'[PushPick'] >= need[PushPick] /\ ~ TooRisky(PushPick)']_vars
  BY StepStronger
<1> QED
  BY <1>1, WalkHolds, PTL DEF Spec, StrongerPushesFarther
=============================================================================
