SPECIFICATION Spec
CONSTANTS
  Kind = "skill"
  Row = {a, b}
  Worker = {w1, w2}
  Socket = {s1, s2}
  Dialect = "sqlite"
  Requests <- Op
  Absent = Absent  None = None  Null = Null
SYMMETRY Symmetry
INVARIANTS SocketsSound
PROPERTIES EquipKeepsUnlocks
