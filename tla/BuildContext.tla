---------------------------- MODULE BuildContext ----------------------------
(***************************************************************************)
(* optimizer/context.py and optimizer/simulator.py: the build of an        *)
(* account as one number per stat, summed over what it wears and the       *)
(* skills it has selected, and the simulation of a change by subtracting   *)
(* one contribution and adding another.                                    *)
(*                                                                         *)
(* Numbers are exact: 1.0 is Unit, the product of the denominators of the  *)
(* level growth (0.08 = 2/25) and of the star bonus (0.05 = 1/20).         *)
(***************************************************************************)
EXTENDS Integers, FiniteSetsExt

CONSTANTS Stat,
          Item,    \* heroes, weapons, armor, rings, amulets, pets, runes
          Slot,    \* what an item takes up: the hero, the weapon, a rune socket, ...
          SlotOf,  \* [Item -> Slot]
          Base,    \* [Item -> [Stat -> Nat]]: stats of the catalog row
          Grows,   \* [Item -> SUBSET Stat]: the stats that scale with the level
          Stars,   \* [Item -> Nat]: star level, 0 where the table has none
          Baseline,\* [Stat -> Nat]: what a build has with nothing on: one projectile
          Skill,
          Effect   \* [Skill -> [Stat -> Nat]]: the sum of a skill's SkillEffects

ASSUME CatalogAssumption ==
  /\ IsFiniteSet(Item) /\ IsFiniteSet(Skill)
  /\ SlotOf \in [Item -> Slot]
  /\ Base \in [Item -> [Stat -> Nat]]
  /\ Grows \in [Item -> SUBSET Stat]
  /\ Stars \in [Item -> Nat]
  /\ Baseline \in [Stat -> Nat]
  /\ Effect \in [Skill -> [Stat -> Nat]]

Unit == 25 * 20
LevelMultiplier(lvl) == 25 + 2 * (IF lvl > 1 THEN lvl - 1 ELSE 0)
StarMultiplier(stars) == 20 + stars

Contribution(i, lvl) ==
  [s \in Stat |->
     Base[i][s] * (IF s \in Grows[i] THEN LevelMultiplier(lvl) * StarMultiplier(Stars[i])
                                     ELSE Unit)]

SkillContribution(k) == [s \in Stat |-> Effect[k][s] * Unit]

NoContribution == [s \in Stat |-> 0]

(* build_context: whatever is worn and selected, and nothing else. *)
Context(worn, level, selected) ==
  [s \in Stat |->
     Baseline[s] * Unit
       + SumFunction([i \in worn |-> Contribution(i, level[i])[s]])
       + SumFunction([k \in selected |-> SkillContribution(k)[s]])]

\* Mutant: the replaced contribution stays.
AddContribution(context, before, after) ==
  [s \in Stat |-> context[s] + after[s]]

ReplaceContribution(context, before, after) ==
  [s \in Stat |-> context[s] + (after[s] - before[s])]
=============================================================================
