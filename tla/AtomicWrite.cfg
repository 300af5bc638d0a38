SPECIFICATION Spec
CONSTANTS
  Calls = {c1, c2, c3}
  Torn = Torn
INVARIANT LitterOnlyFromKills
PROPERTY CellSpec
CHECK_DEADLOCK FALSE
