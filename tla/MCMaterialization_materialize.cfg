SPECIFICATION FairSpec
CONSTANTS
  a = a
  b = b
  s1 = s1
  s2 = s2
  e1 = e1
  e2 = e2
  NoState = NoState
  E0 <- MCE0
  StateIds <- MCStates
  EntryIds <- MCEntries
  Seeds <- MCSeeds
  Certificates <- MCCertificates
  Descendants <- MCDescendants
  RootBindings <- MCRootBindings
  Calls <- MCCalls
  MaxRank = 3
INVARIANTS
  TypeOK
  HandlesRetired
  PublishedIsSeed
  LineageShape
  CreditIsSignature
PROPERTIES
  NoResurrection
  CallShrinks
  Ends
CHECK_DEADLOCK FALSE
