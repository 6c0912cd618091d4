\* No commit fails and nothing is reopened.
SPECIFICATION Spec
CONSTANTS
  Keys = {1, 2}
  Sizes = {1, 2, 3, 4}
  MaxSize = 4
  CommitMayFail = FALSE
  Reopens = FALSE
  LoadOverhead = 0
  MaxRecords = 3
  MaxBatch = 0
  MaxDrift = 4
INVARIANTS
  ValidReplaceNotRejected
