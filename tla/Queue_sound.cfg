\* Executions fit the window and every drain is sound: two runs share the workers.
SPECIFICATION Spec
CONSTANTS
  r1 = r1
  r2 = r2
  w1 = w1
  w2 = w2
  w3 = w3
  c1 = c1
  c2 = c2
  NoWorker = NoWorker
  NoRun = NoRun
  Runs <- TwoRuns
  Workers <- TwoWorkers
  Registered <- TwoWorkers
  Candidates <- OneCandidate
  JudgeCodes <- SomeCodes
  MaxAttempts = 1
  SlowWorkers = FALSE
  ReuseFails = FALSE
  MaxRecoveries = 1
  MaxReschedules = 1
  MaxAbandons = 2
SYMMETRY Symmetry
INVARIANT
  SingleExecutor
  TaskOutcomeAgrees
  NoHiddenScores
PROPERTY
  CompletedIsFinal
  ImplementsLifecycle
CHECK_DEADLOCK FALSE
