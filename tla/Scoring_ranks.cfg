SPECIFICATION Spec
CONSTANTS
  None = None
  Count = 3
  Submitted <- SomeWeights
  Musts <- SomeMusts
  Units = 10
  Cap = 4
  Candidates = 2
INVARIANTS WeightsFair ScoresFair RankingAgrees
PROPERTIES MintKeepsCriteria
