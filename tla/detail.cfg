SPECIFICATION Spec
CONSTANTS
  bow = bow  helmet = helmet  boots = boots
  Hand = Hand  Head = Head  Feet = Feet
  weapons = weapons  armor = armor
  Item = {bow, helmet, boots}
  Slot = {Hand, Head, Feet}
  SlotOf <- MCSlotOf
  Table = {weapons, armor}
  TableOf <- MCTableOf
  Wealth = {poor, rich}
  Nothing = Nothing  Unread = Unread
  MaxCommits = 3
INVARIANTS IInv TornOnlyAcrossTables SeenBuildFits SecondLookAgrees
