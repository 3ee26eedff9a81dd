\* The standalone worker recovers a completed run and turns it into a failed one.
SPECIFICATION Spec
CONSTANTS
  r1 = r1
  r2 = r2
  w1 = w1
  w2 = w2
  w3 = w3
  c1 = c1
  c2 = c2
  NoWorker = NoWorker
  NoRun = NoRun
  Runs <- OneRun
  Workers <- TwoWorkers
  Registered <- ApiWorker
  Candidates <- TwoCandidates
  JudgeCodes <- NoCodes
  MaxAttempts = 2
  SlowWorkers = FALSE
  ReuseFails = FALSE
  MaxRecoveries = 2
  MaxReschedules = 1
  MaxAbandons = 2
SYMMETRY RunSymmetry
PROPERTY
  CompletedStaysCompleted
CHECK_DEADLOCK FALSE
