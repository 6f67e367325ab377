SPECIFICATION Spec
CONSTANTS
  a = a  b = b  c = c  Head = Head  Feet = Feet
  Row = {a, b}
  Worker = {w1, w2}
  Slot = {Head}
  SlotOf <- OneSlot
  Dialect = "sqlite"
  Requests = {"equip"}
  Absent = Absent  None = None

PROPERTIES EquipReplaces
