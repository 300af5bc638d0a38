SPECIFICATION ProtocolSpec
CONSTANTS
  a = a
  b = b
  p = p
  q = q
  e1 = e1
  e2 = e2
  e3 = e3
  t1 = t1
  t2 = t2
  s1 = s1
  s2 = s2
  NoState = NoState
  NoArtifact = NoArtifact
  Profiles <- AllProfiles
  Tasks <- MCTasks
  States <- MCStates
  Entries <- MCEntries
  E0 <- MCE0
  Rows <- MCRows
  Stray <- MCStray
  Inventories <- MCInventories
  FreshStores <- MCFreshStores
  Artifacts <- MCArtifacts
  MaxReplays = 2
SYMMETRY Interchangeable
INVARIANTS
  TypeOK
  SingleOwner
  RegisteredIsHeld
  LostOnlyByIngest
  CertificateTruth
  TokensAreFresh
  RebindingAgrees
PROPERTIES
  CertifiedMemory
  CertificatesFit
