--------------------------- MODULE ChapterAdvisor ---------------------------
(***************************************************************************)
(* The Chapter Advisor (optimizer/advisors/chapter_advisor.py over         *)
(* optimizer/chapter_scoring.py), used by a player who pushes into the     *)
(* chapter it recommends whenever it calls it safe, records that it is     *)
(* cleared, and otherwise gets stronger.                                   *)
(*                                                                         *)
(* Combat power and a chapter's recommended power are integers and every   *)
(* score is an exact fraction num / den.  The scales of weights.py, which  *)
(* are positive and the same for every chapter, are left out.  The score   *)
(* of the build is not: it is 0 for an account without hero, equipment and *)
(* skills, whatever its combat power, which is a field of its own.         *)
(***************************************************************************)
EXTENDS Integers, FiniteSets

CONSTANTS Chapter,   \* catalog ids, on which ties break
          Number,    \* chapter numbers of a catalog
          Needs,     \* recommended combat powers of a catalog
          Energy,    \* [Chapter -> Nat]: energy_cost
          Powers,    \* bound: the combat powers the account may reach
          Strengths  \* bound: the scores its build may have for farming

ASSUME ChapterAssumption ==
  /\ IsFiniteSet(Chapter) /\ Chapter \subseteq Nat
  /\ Number \subseteq Nat \ {0}
  /\ Needs \subseteq Nat /\ Powers \subseteq Nat /\ Strengths \subseteq Nat
  /\ Energy \in [Chapter -> Nat]

VARIABLES number,   \* the catalog: [Chapter -> Number], unique
          need,     \* the catalog: [Chapter -> Needs], recommended_combat_power
          cleared,  \* the chapters whose progress row says cleared
          power,    \* the account's combat_power
          strength  \* objective.evaluate(build_context(account)), farm

vars == <<number, need, cleared, power, strength>>

Fraction(n, d) == [num |-> n, den |-> d]
a \prec b == a.num * b.den < b.num * a.den

-----------------------------------------------------------------------------
(* chapter_scoring.py *)

\* Mutant: the ratio upside down, what the chapter needs over what there is.
SafetyUpsideDown(c) ==
  IF power = 0 \/ need[c] >= power THEN Fraction(1, 1)
  ELSE IF 10 * need[c] <= 7 * power THEN Fraction(0, 1)
  ELSE Fraction(10 * need[c] - 7 * power, 3 * power)

(* clear_safety of power_gap_for_chapter: 0 up to a ratio of 0.7, 1 from 1.0 *)
(* on, linear between.                                                       *)
Safety(c) ==
  IF need[c] = 0 \/ power >= need[c] THEN Fraction(1, 1)
  ELSE IF 10 * power <= 7 * need[c] THEN Fraction(0, 1)
  ELSE Fraction(10 * power - 7 * need[c], 3 * need[c])

TooRisky(c) == Safety(c).num = 0

\* Mutant: how far the chapter is does not count; how safe it is does not.
SafetyAlone(c) == Safety(c)
NeedAlone(c) == Fraction(need[c], 1)

ProgressionSuitability(c) == Fraction(need[c] * Safety(c).num, Safety(c).den)

Price(e) == IF e > 1 THEN e ELSE 1

\* Mutant: the cheapest chapter, safe or not.
EnergyAlone(c) == Fraction(strength, Price(Energy[c]))

(* Nothing, whatever the chapter, for a build without strength. *)
FarmSuitability(c) ==
  Fraction(strength * Safety(c).num, Safety(c).den * Price(Energy[c]))

-----------------------------------------------------------------------------
(* chapter_advisor.py *)

\* Mutant: no filter.
WholeCatalog == Chapter

Unlocked ==
  {c \in Chapter : number[c] = 1 \/ \E d \in cleared : number[d] = number[c] - 1}

(* The first of the ranking of a function from chapters to scores.  The       *)
(* advisor answers 404 if nothing is unlocked.                               *)
First(score) ==
  CHOOSE c \in DOMAIN score :
    \A d \in DOMAIN score \ {c} :
      score[d] \prec score[c] \/ (~ score[c] \prec score[d] /\ c < d)

PushPick == First([c \in Unlocked |-> ProgressionSuitability(c)])
FarmPick == First([c \in Unlocked |-> FarmSuitability(c)])

-----------------------------------------------------------------------------
Init ==
  /\ number \in {f \in [Chapter -> Number] : \A c, d \in Chapter : f[c] = f[d] => c = d}
  /\ need \in [Chapter -> Needs]
  /\ cleared = {}
  /\ power \in Powers
  /\ strength \in Strengths

(* The player clears the chapter recommended in progression mode.  One that  *)
(* is cleared already may be recommended again: nothing changes then.        *)
Push ==
  /\ Unlocked # {} /\ ~ TooRisky(PushPick)
  /\ cleared' = cleared \cup {PushPick}
  /\ UNCHANGED <<number, need, power, strength>>

(* The player farms or upgrades and records it: combat_power goes up, and    *)
(* the score of the build, whose weight of mobility depends on the power,    *)
(* becomes another.                                                          *)
Strengthen ==
  /\ \E p \in Powers : p > power /\ power' = p
  /\ strength' \in Strengths
  /\ UNCHANGED <<number, need, cleared>>

(* The player records another build without a new combat_power. *)
Rebuild ==
  /\ strength' \in Strengths
  /\ UNCHANGED <<number, need, cleared, power>>

Next == Push \/ Strengthen \/ Rebuild

(* A player who keeps doing either: power to gain is always gained in the    *)
(* end, and an attempt is made sooner or later.                              *)
Spec == Init /\ [][Next]_vars /\ WF_vars(Push) /\ WF_vars(Strengthen)

-----------------------------------------------------------------------------
(* Nobody is sent to a chapter that was never reached: what is cleared is    *)
(* cleared from chapter 1 on without a gap, whatever the ids                 *)
(* (chapter_advisor.py:111-112).                                             *)
ClearedInOrder ==
  \A c \in cleared : \A n \in 1 .. number[c] : \E d \in cleared : number[d] = n

(* Progression: no chapter the account has the power for lies farther than   *)
(* the pick ("the furthest chapter still safely reachable",                  *)
(* chapter_advisor.py:7-10), and the pick is too risky only if everything     *)
(* that has a recommended power is.                                          *)
PushIsFar ==
  Unlocked # {} =>
    /\ \A c \in Unlocked : power >= need[c] => need[c] <= need[PushPick]
    /\ TooRisky(PushPick) => \A c \in Unlocked : TooRisky(c) \/ need[c] = 0

(* Farming with a build of any strength: the pick is never too risky if      *)
(* something is not, and no fully safe chapter is cheaper than the pick.     *)
(* Without strength the scores tell nothing apart, and the pick is the       *)
(* chapter of the lowest id, safe or not (chapter_advisor.py:94).            *)
FarmIsSafeAndCheap ==
  Unlocked # {} =>
    IF strength = 0
      THEN \A c \in Unlocked : FarmPick <= c
      ELSE /\ TooRisky(FarmPick) => \A c \in Unlocked : TooRisky(c)
           /\ \A c \in Unlocked :
                power >= need[c] => Energy[FarmPick] <= Price(Energy[c])

(* "Farming already picks the safest chapter available by construction"      *)
(* (architecture.md:829-830), read as little as it can mean: whatever the    *)
(* build, the pick is too risky only if everything that is unlocked is.      *)
FarmPickIsSafest ==
  Unlocked # {} /\ TooRisky(FarmPick) => \A c \in Unlocked : TooRisky(c)

(* Getting stronger never turns the advice from a chapter that is not too    *)
(* risky to an easier one.                                                   *)
StrongerPushesFarther ==
  [][power' > power /\ Unlocked # {} /\ ~ TooRisky(PushPick)
       => need'[PushPick'] >= need[PushPick] /\ ~ TooRisky(PushPick)']_vars

(* Where chapters get harder with their number and without a gap, the advice *)
(* leads through all of them that the account will have the power for.       *)
Regular ==
  /\ \A c \in Chapter : number[c] = 1 \/ \E d \in Chapter : number[d] = number[c] - 1
  /\ \A c, d \in Chapter : number[c] < number[d] => need[c] < need[d]
AdviceLeadsThrough ==
  \A c \in Chapter :
    (Regular /\ \E p \in Powers : p >= need[c]) ~> (Regular => c \in cleared)
=============================================================================
