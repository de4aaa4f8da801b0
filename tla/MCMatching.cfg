SPECIFICATION Spec
CONSTANTS
  None = None
  Concept <- MCConcept
  TypeOf <- MCTypeOf
  Parent <- MCParent
  Relations <- MCRelations
  Alcohol <- MCAlcohol
  AssumedVisit = 10
  MinimumSample = 3
  StructuredLimit = 2
  VectorLimit = 3
  PerParticipation = 2
  PopularityLimit = 1
  InterestLimit = 1
  ExplorationLimit = 1
  PoolCap = 4
  MinimumRelevance = 1
CHECK_DEADLOCK FALSE
INVARIANTS MissingDataNeutral ShadowGateSound StatementsBind RecallContained OrderConfined WorseNeverScoresHigher ReasonsTruthful SlateContained EvidenceOnlyHelps
