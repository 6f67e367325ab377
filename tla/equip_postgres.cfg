SPECIFICATION Spec
CONSTANTS
  a = a  b = b  c = c  Head = Head  Feet = Feet
  Row = {a, b, c}
  Worker = {w1, w2}
  Slot = {Head, Feet}
  SlotOf <- TwoSlots
  Dialect = "postgresql"
  Requests <- Op
  Absent = Absent  None = None
SYMMETRY Symmetry
INVARIANTS AtMostOneEquipped ConflictMeansLostRace CommitInv
PROPERTIES SlotEmptiedOnRequest CommitStaysInSlot CommitTakesEffect LoadoutSpec
