SPECIFICATION Spec
CONSTANTS
  Row = {progress, account}
  Worker = {w1, w2}
  Dialect = "sqlite"
  Progress = {progress}
  Field = {f1, f2}
  Value = {v0, v1}
  Default = v0
  Optional = {f2}
  Absent = Absent  None = None  Null = Null  Unset = Unset
SYMMETRY Symmetry
INVARIANTS IInv
PROPERTIES OmittedStaysUntouched SentIsStored CreateNeverOverwrites
