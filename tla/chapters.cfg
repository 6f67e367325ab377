SPECIFICATION Spec
CONSTANTS
  Chapter = {1, 2, 3}
  Number = {1, 2, 3, 4}
  Needs = {0, 7, 10, 12}
  Powers = {6, 7, 8, 9, 10, 12}
  Strengths = {0, 2}
  Energy <- MCEnergy
INVARIANTS ClearedInOrder PushIsFar FarmIsSafeAndCheap
PROPERTIES StrongerPushesFarther AdviceLeadsThrough
CHECK_DEADLOCK FALSE
