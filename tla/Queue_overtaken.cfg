\* A live execution whose claim was requeued turns a completed run into a failed one.
SPECIFICATION Spec
CONSTANTS
  r1 = r1
  r2 = r2
  w1 = w1
  w2 = w2
  w3 = w3
  c1 = c1
  c2 = c2
  NoWorker = NoWorker
  NoRun = NoRun
  Runs <- OneRun
  Workers <- TwoWorkers
  Registered <- TwoWorkers
  Candidates <- TwoCandidates
  JudgeCodes <- NoCodes
  MaxAttempts = 2
  SlowWorkers = TRUE
  ReuseFails = FALSE
  MaxRecoveries = 2
  MaxReschedules = 1
  MaxAbandons = 2
SYMMETRY Symmetry
PROPERTY
  CompletedStaysCompleted
CHECK_DEADLOCK FALSE
