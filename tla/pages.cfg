CONSTANTS
  Restaurant = {a, b, c, d}
  Limits = {1, 2}
  MaxChanges = 2
  MaxPage = 7
SPECIFICATION Spec
INVARIANTS
  NothingMissed
  NothingRepeated
PROPERTY
  WalkEnds
CHECK_DEADLOCK FALSE
