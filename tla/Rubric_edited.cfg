SPECIFICATION Spec
CONSTANTS
  q1 = q1
  q2 = q2
  q3 = q3
  r1 = r1
  r2 = r2
  Nobody = Nobody
  Requests <- TwoRequests
  Runs <- OneRun
  MaxVersion = 2
  MaxSaves = 3
SYMMETRY RequestSymmetry
PROPERTY ApprovedIsImmutable
