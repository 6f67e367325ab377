SPECIFICATION Spec
CONSTANTS
  bow = bow  spear = spear  ringA = ringA  ringB = ringB
  multishot = multishot  swift = swift
  Stat = {"attack", "attack_speed", "projectile_count"}
  Item = {bow, spear, ringA, ringB}
  Slot = {"weapon", "ring"}
  GearSlot = {"weapon", "ring"}
  SlotOf <- MCSlotOf
  Base <- MCBase
  Grows <- MCGrows
  Stars <- MCStars
  Baseline <- MCBaseline
  Order <- MCOrder
  Skill = {multishot, swift}
  Effect <- MCEffect
  SkillOrder <- MCSkillOrder
  TierValue <- MCTier
  Objective <- Farm
  UpgradeCost = 1
  MaxUpgradeLevels = 2
  Budget = 3
INVARIANTS SimulationExact BuysAllItCan NothingMissed
PROPERTIES GearAdviceStable UpgradePays Settles
CHECK_DEADLOCK FALSE
