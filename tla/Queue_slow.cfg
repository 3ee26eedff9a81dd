\* Two drains of the API process and a standalone worker; executions may outlive the claim
\* window, so that two of them overlap on one run; every admitted task settles under the
\* fairness of the worker loop.
SPECIFICATION FairSpec
CONSTANTS
  r1 = r1
  r2 = r2
  w1 = w1
  w2 = w2
  w3 = w3
  c1 = c1
  c2 = c2
  NoWorker = NoWorker
  NoRun = NoRun
  Runs <- OneRun
  Workers <- ThreeWorkers
  Registered <- TwoWorkers
  Candidates <- TwoCandidates
  JudgeCodes <- SomeCodes
  MaxAttempts = 2
  SlowWorkers = TRUE
  ReuseFails = TRUE
  MaxRecoveries = 1
  MaxReschedules = 1
  MaxAbandons = 2
INVARIANT
  TypeOK
  AttemptsBounded
  AttemptCoversExecutions
  NoPartialRanking
PROPERTY
  ScoresOnlyGrow
  TaskSettles
CHECK_DEADLOCK FALSE
