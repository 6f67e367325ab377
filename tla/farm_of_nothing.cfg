SPECIFICATION Spec
CONSTANTS
  Chapter = {1, 2, 3}
  Number = {1, 2, 3}
  Needs = {7, 10, 12}
  Powers = {7, 10}
  Strengths = {0, 2}
  Energy <- MCEnergy
INVARIANT FarmPickIsSafest
CHECK_DEADLOCK FALSE
