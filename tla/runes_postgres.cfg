SPECIFICATION Spec
CONSTANTS
  Kind = "rune"
  Row = {a, b, c}
  Worker = {w1, w2}
  Socket = {s1, s2}
  Dialect = "postgresql"
  Requests <- Op
  Absent = Absent  None = None  Null = Null
SYMMETRY Symmetry
INVARIANTS ConflictMeansLostRace UnequipNeverRejected IInv
PROPERTIES BoardSpec
