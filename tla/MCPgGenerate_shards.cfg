SPECIFICATION Spec
CONSTANTS
  q1 = q1
  q2 = q2
  Proc = {p1, p2}
  Dataset <- MCDataset
  Hash <- MCHash
  PlanRequests <- MCReplans
  MaxShards = 2
  Stops <- MCNoStop
  Contents = {c1, c2}
  Stale = Stale
  Leftovers <- MCFresh
  Discipline <- MCOrderly
  None = None
SYMMETRY MCSymmetry
INVARIANT TypeOK
INVARIANT ReportStays
INVARIANT VerifiedIsOneMerge
INVARIANT VerifiedIsRecords
PROPERTY RecordsImmutable
