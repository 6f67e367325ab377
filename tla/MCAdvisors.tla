----------------------------- MODULE MCAdvisors -----------------------------
(***************************************************************************)
(* A small catalog for Advisors: two weapons (one starred) that trade      *)
(* attack against attack speed, two rings that add to either, so that the  *)
(* best item of one slot depends on the other, and two skills of one tier, *)
(* whose tier bonus therefore cancels.                                     *)
(***************************************************************************)
EXTENDS Advisors, TLC

CONSTANTS bow, spear, ringA, ringB, multishot, swift

Stats(attack, speed, projectiles) ==
  "attack" :> attack @@ "attack_speed" :> speed @@ "projectile_count" :> projectiles

MCSlotOf == bow :> "weapon" @@ spear :> "weapon" @@ ringA :> "ring" @@ ringB :> "ring"
MCBase == bow :> Stats(2, 3, 0) @@ spear :> Stats(4, 1, 0)
          @@ ringA :> Stats(0, 2, 0) @@ ringB :> Stats(2, 0, 0)
MCGrows == bow :> {"attack"} @@ spear :> {"attack"}
           @@ ringA :> {"attack_speed"} @@ ringB :> {"attack"}
MCStars == bow :> 1 @@ spear :> 0 @@ ringA :> 0 @@ ringB :> 0
MCBaseline == Stats(0, 0, 1)
MCOrder == bow :> 3 @@ spear :> 4 @@ ringA :> 1 @@ ringB :> 2
MCEffect == multishot :> Stats(0, 0, 1) @@ swift :> Stats(0, 1, 0)
MCSkillOrder == multishot :> 1 @@ swift :> 2
MCTier == multishot :> 0 @@ swift :> 0

\* The offense and aoe parts of the objective "farm", times 5000 * Unit * Unit;
\* the square root is exact for at most one extra projectile.
Farm(c) ==
  c["attack"] * (25 * (Unit + c["attack_speed"]) + 6 * (c["projectile_count"] - Unit))

ASSUME FarmIsAnObjective ==
  LET contexts == [Stat -> {0, 1, Unit - 1, Unit, 3 * Unit}]
  IN ScoresAreIntegers(contexts) /\ MoreIsNoWorse(contexts) /\ NothingFromNothing(contexts)
=============================================================================
