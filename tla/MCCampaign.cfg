SPECIFICATION Spec
CONSTANTS
  r1 = r1
  r2 = r2
  a = a
  b = b
  c = c
  o1 = o1
  o2 = o2
  Roots <- MCRoots
  Ids <- MCIds
  Opportunities = {o1, o2}
  RelationOf <- MCRelationOf
  Enabled = {"meaning_preserving_query", "update"}
  Methods = {"random_mutation", "coverage_guided", "llm_as_judge", "ufuzz"}
  Rankings <- MCRankings
  FirstRanking <- MCFirstRanking
  Enumerations <- MCEnumerations
  JudgeScores = {0, 1}
  Depth = 2
  Unit = 2
  Distance <- MCDistance
  Budget = 2
  Rounds = 3
CHECK_DEADLOCK FALSE
INVARIANTS
  TypeOK
  WitnessesAccount
  RoundDiscipline
PROPERTIES
  AtomicTrajectory
  ExhaustionIsFinal
