SPECIFICATION FairSpec
CONSTANTS
  a = a  b = b  c = c  Head = Head  Feet = Feet
  Row = {a, b}
  Worker = {w1, w2}
  Slot = {Head}
  SlotOf <- OneSlot
  Dialect = "sqlite"
  Requests <- Op
  Absent = Absent  None = None
INVARIANTS SqliteNeverConflicts
PROPERTIES EveryRequestAnswered
