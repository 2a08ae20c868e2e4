SPECIFICATION Spec
CONSTANTS
  j1 = j1
  j2 = j2
  w1 = w1
  w2 = w2
  n1 = n1
  n2 = n2
  Jobs = {j1, j2}
  Workers = {w1, w2}
  Ids = {n1, n2}
  Rank <- RankDef
  MaxAttempts <- AttemptsDef
  NoJob = NoJob
  Nobody = Nobody
  WorkerId <- OwnName
  Unknown = {}
  MaxLate = 0
INVARIANTS FailedNeverSucceeded
