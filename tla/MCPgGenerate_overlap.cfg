SPECIFICATION Spec
CONSTANTS
  q1 = q1
  q2 = q2
  Proc = {p1, p2}
  Dataset <- MCDataset
  Hash <- MCSkewed
  PlanRequests <- MCTwoShards
  MaxShards = 2
  Stops <- MCStops
  Contents = {c1, c2}
  Stale = Stale
  Leftovers <- MCLeftovers
  Discipline <- MCOverlap
  None = None
SYMMETRY MCSymmetry
INVARIANT ScannedIsTerminal
INVARIANT CompleteIsMergeable
