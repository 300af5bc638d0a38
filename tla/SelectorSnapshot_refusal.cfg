SPECIFICATION Spec
CONSTANTS
  Build = {b1, b2}
  Selections = {s1, s2}
  None = None
CHECK_DEADLOCK FALSE
INVARIANT RefusalIsComplete
