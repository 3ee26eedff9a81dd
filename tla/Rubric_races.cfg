SPECIFICATION Spec
CONSTANTS
  q1 = q1
  q2 = q2
  q3 = q3
  r1 = r1
  r2 = r2
  Nobody = Nobody
  Requests <- TwoRequests
  Runs <- OneRun
  MaxVersion = 3
  MaxSaves = 3
SYMMETRY RequestSymmetry
INVARIANTS TypeOK LatestIsLive VersionsHaveCriteria VerdictsKeepCriteria HashCoversCriteria OneNormalizedSet OneSuccessor
PROPERTIES ThawedByEditOnly RetiredStaysRetired ImplementsRegister
CONSTRAINT ThirdVersionOrRun
