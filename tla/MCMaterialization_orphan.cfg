SPECIFICATION Spec
CONSTANTS
  a = a
  b = b
  s1 = s1
  s2 = s2
  e1 = e1
  e2 = e2
  NoState = NoState
  E0 <- NoIds
  StateIds <- MCStates
  EntryIds <- MCEntries
  Seeds <- EmptySeeds
  Certificates <- MCCertificates
  Descendants <- EmptyStates
  RootBindings <- EmptyRoots
  Calls <- OrphanCalls
  MaxRank = 3
INVARIANTS
  NoOrphan
CHECK_DEADLOCK FALSE
