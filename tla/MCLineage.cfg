SPECIFICATION Spec
CONSTANTS
  r1 = r1
  r2 = r2
  a = a
  b = b
  c = c
  p1 = p1
  p2 = p2
  p3 = p3
  q = q
  x = x
  Foreign = Foreign
  Roots <- MCRoots
  Inventory <- MCInventory
  Refs <- MCRefs
  RootOf <- MCRootOf
  Starts <- MCStarts
  MaxRank = 2
INVARIANTS
  TypeOK
  LineageIsInherited
  ReachedIsSeen
PROPERTIES
  LineageIsForever
