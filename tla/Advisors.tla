------------------------------ MODULE Advisors ------------------------------
(***************************************************************************)
(* The gear, upgrade and skill advisors (optimizer/advisors), used by a    *)
(* player who does what they say: equips the recommended item, spends gold *)
(* on the recommended upgrade, selects the recommended skill, and tells    *)
(* the program about it, so that the next advice starts from there.        *)
(*                                                                         *)
(* What an advisor optimizes is an ObjectiveProfile; the advice itself     *)
(* needs nothing of it but that it is a function of the context.           *)
(***************************************************************************)
EXTENDS BuildContext

CONSTANTS Objective(_),
          GearSlot,          \* the slots the Gear Advisor compares items for
          Order,             \* [Item -> Nat], one-to-one: ties, by category, catalog and row id
          SkillOrder,        \* [Skill -> Nat]: ties, by catalog id
          TierValue,         \* [Skill -> Nat]: SKILL_TIER_BASE_VALUE * tier
          UpgradeCost,       \* BASE_UPGRADE_COST_PER_LEVEL
          MaxUpgradeLevels,  \* MAX_UPGRADE_LEVELS_CONSIDERED
          Budget             \* bound: the gold the player ever earns

ASSUME AdvisorAssumption ==
  /\ GearSlot \subseteq Slot
  /\ Order \in [Item -> Nat] /\ \A i, j \in Item : Order[i] = Order[j] => i = j
  /\ SkillOrder \in [Skill -> Nat]
  /\ \A k, l \in Skill : SkillOrder[k] = SkillOrder[l] => k = l
  /\ TierValue \in [Skill -> Nat]
  /\ UpgradeCost \in Nat \ {0} /\ MaxUpgradeLevels \in Nat \ {0} /\ Budget \in Nat

(* What the weighted sums of objectives.py have in common, on a set of        *)
(* contexts: they can be compared, more of a stat is no worse, and stats that *)
(* are all worth nothing do not become worth something by growing.           *)
ScoresAreIntegers(contexts) == \A c \in contexts : Objective(c) \in Int
MoreIsNoWorse(contexts) ==
  \A c, d \in contexts : (\A s \in Stat : c[s] <= d[s]) => Objective(c) <= Objective(d)
NothingFromNothing(contexts) ==
  \A c, d \in contexts :
    (\A s \in Stat : c[s] = 0 => d[s] = 0) /\ Objective(c) = 0 => Objective(d) = 0

VARIABLES owned,     \* the items of the account
          worn,      \* those that are equipped or active
          level,     \* [Item -> 1..]
          selected,  \* the skills with an equipped_slot
          gold,      \* the account's gold
          earned     \* gold earned so far, at most Budget

vars == <<owned, worn, level, selected, gold, earned>>

Now == Context(worn, level, selected)
At(i) == Contribution(i, level[i])

(* The first of the ranking of a function from options to scores: the best   *)
(* score, ties by the lowest order.                                          *)
Best(score, order) ==
  CHOOSE x \in DOMAIN score :
    \A y \in DOMAIN score \ {x} :
      score[x] > score[y] \/ (score[x] = score[y] /\ order[x] < order[y])

-----------------------------------------------------------------------------
(* Gear Advisor *)
WornIn(s) == {i \in worn : SlotOf[i] = s}
GearCandidates(s) == {i \in owned : SlotOf[i] = s}

Current(s) ==
  IF WornIn(s) = {} THEN NoContribution ELSE At(CHOOSE i \in WornIn(s) : TRUE)

\* Mutant: the candidate on top of what is worn, as a skill is scored.
WithItemToo(i) == ReplaceContribution(Now, NoContribution, At(i))

WithItem(i) == ReplaceContribution(Now, Current(SlotOf[i]), At(i))

GearScore(i) == Objective(WithItem(i))

GearAdvice(s) == Best([i \in GearCandidates(s) |-> GearScore(i)], Order)

-----------------------------------------------------------------------------
(* Upgrade Advisor *)

\* Mutant: the level bought last is priced like the first.
AffordableFlatPrice(lvl, money) ==
  LET Levels == {n \in 0 .. MaxUpgradeLevels : n * UpgradeCost * lvl <= money}
      levels == CHOOSE n \in Levels : \A m \in Levels : m <= n
  IN [levels |-> levels, cost |-> levels * UpgradeCost * lvl]

(* max_affordable_levels: one level after the other until the gold is short. *)
Affordable(lvl, money) ==
  LET Round[n \in 0 .. MaxUpgradeLevels] ==
        IF n = 0 THEN [levels |-> 0, cost |-> 0]
        ELSE LET before == Round[n - 1]
                 next   == UpgradeCost * (lvl + before.levels)
             IN IF before.cost + next > money THEN before
                ELSE [levels |-> before.levels + 1, cost |-> before.cost + next]
  IN Round[MaxUpgradeLevels]

\* Mutant: every owned item is scored, worn or not.
OwnedCandidates == {i \in owned : Affordable(level[i], gold).levels >= 1}

UpgradeCandidates == {i \in worn : Affordable(level[i], gold).levels >= 1}

Upgraded(i) == [level EXCEPT ![i] = @ + Affordable(@, gold).levels]

WithUpgrade(i) == ReplaceContribution(Now, At(i), Contribution(i, Upgraded(i)[i]))

\* Mutant: the upgrade is ranked by the score of the item alone.
UpgradeScoreAlone(i) ==
  Objective(Contribution(i, Upgraded(i)[i])) - Objective(Now)

(* The percentage is the gain over a score that is the same for everyone. *)
UpgradeScore(i) ==
  LET before == Objective(Now)
  IN IF before = 0 THEN 0 ELSE Objective(WithUpgrade(i)) - before

WorthwhileUpgrades == {i \in UpgradeCandidates : UpgradeScore(i) > 0}

UpgradeAdvice == Best([i \in WorthwhileUpgrades |-> UpgradeScore(i)], Order)

-----------------------------------------------------------------------------
(* Skill Advisor, for the skills offered in a run *)
WithSkill(k) == ReplaceContribution(Now, NoContribution, SkillContribution(k))
SkillScore(k) == TierValue[k] + (Objective(WithSkill(k)) - Objective(Now))
SkillAdvice(offer) == Best([k \in offer |-> SkillScore(k)], SkillOrder)

-----------------------------------------------------------------------------
Init ==
  /\ owned \in SUBSET Item
  /\ worn \in {S \in SUBSET owned : \A i, j \in S : SlotOf[i] = SlotOf[j] => i = j}
  /\ level = [i \in Item |-> 1]
  /\ selected = {}
  /\ gold = 0 /\ earned = 0

(* The Gear Advisor's first choice, equipped instead of what was. *)
FollowGear(s) ==
  /\ GearCandidates(s) # {}
  /\ \E item \in {GearAdvice(s)} \ worn : worn' = (worn \ WornIn(s)) \cup {item}
  /\ UNCHANGED <<owned, level, selected, gold, earned>>

(* The Upgrade Advisor's first choice, bought: it answers 404 if there is    *)
(* none.                                                                     *)
FollowUpgrade ==
  /\ WorthwhileUpgrades # {}
  /\ \E item \in {UpgradeAdvice} :
       level' = Upgraded(item) /\ gold' = gold - Affordable(level[item], gold).cost
  /\ UNCHANGED <<owned, worn, selected, earned>>

FollowSkill(offer) ==
  /\ \E skill \in {SkillAdvice(offer)} \ selected : selected' = selected \cup {skill}
  /\ UNCHANGED <<owned, worn, level, gold, earned>>

EarnGold ==
  /\ earned < Budget
  /\ gold' = gold + 1 /\ earned' = earned + 1
  /\ UNCHANGED <<owned, worn, level, selected>>

ObtainItem(i) ==
  /\ i \notin owned
  /\ owned' = owned \cup {i}
  /\ UNCHANGED <<worn, level, selected, gold, earned>>

Follow == FollowUpgrade \/ \E s \in GearSlot : FollowGear(s)

Next ==
  \/ Follow
  \/ \E offer \in (SUBSET Skill) \ {{}} : FollowSkill(offer)
  \/ EarnGold
  \/ \E i \in Item : ObtainItem(i)

(* A player who keeps asking one advisor or another and follows what it      *)
(* says.  Gold, items and skills come or do not come.                        *)
Spec == Init /\ [][Next]_vars /\ WF_vars(Follow)

-----------------------------------------------------------------------------
(* What an advisor simulates is what the build becomes when its advice is    *)
(* followed: an item in place of the one worn, a level bought, a skill more  *)
(* (simulator.py:1-25, upgrade_advisor.py:22-36).                            *)
SimulationExact ==
  /\ \A s \in GearSlot : \A i \in GearCandidates(s) :
       WithItem(i) = Context((worn \ WornIn(s)) \cup {i}, level, selected)
  /\ \A i \in UpgradeCandidates :
       WithUpgrade(i) = Context(worn, Upgraded(i), selected)
  /\ \A k \in Skill \ selected :
       WithSkill(k) = Context(worn, level, selected \cup {k})

(* max_affordable_levels returns the most levels up to its limit whose prices *)
(* add up to no more than the gold there is.                                 *)
PriceOf(lvl, n) == UpgradeCost * (n * lvl + (n * (n - 1)) \div 2)
BuysAllItCan ==
  \A i \in owned :
    LET bought == Affordable(level[i], gold)
    IN /\ bought.cost = PriceOf(level[i], bought.levels)
       /\ bought.cost <= gold
       /\ bought.levels < MaxUpgradeLevels => PriceOf(level[i], bought.levels + 1) > gold

(* A 404 of the Upgrade Advisor means that no level of anything worn that    *)
(* can be paid makes the build better (upgrade_advisor.py:386-389).          *)
NothingMissed ==
  WorthwhileUpgrades = {} =>
    \A i \in worn :
      \/ PriceOf(level[i], 1) > gold
      \/ Objective(Context(worn, [level EXCEPT ![i] = @ + 1], selected)) <= Objective(Now)

(* Asked again after its advice was followed, the Gear Advisor recommends    *)
(* the item that is now worn, and the build is no worse than it was.         *)
GearAdviceStable ==
  [][\A s \in GearSlot :
       FollowGear(s) => /\ GearAdvice(s)' \in worn'
                        /\ WornIn(s) # {} => Objective(Now)' >= Objective(Now)]_vars

(* Gold spent on an upgrade always makes the build strictly better           *)
(* ("never recommending an upgrade that wouldn't actually improve the        *)
(* build", README.md:51-54).                                                 *)
UpgradePays ==
  [][gold' < gold => Objective(Now)' > Objective(Now) /\ gold' >= 0]_vars

(* Following the advice leads somewhere: the gear advice of one slot cannot  *)
(* undo that of another forever, and the gold that helps is spent.           *)
Settles ==
  <>[](/\ WorthwhileUpgrades = {}
       /\ \A s \in GearSlot : GearCandidates(s) = {} \/ GearAdvice(s) \in worn)
=============================================================================
