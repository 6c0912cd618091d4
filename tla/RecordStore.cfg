\* Both policies, the three treatments of duplicate keys; one size does not
\* fit at all; commits fail and the datastore is reopened.
SPECIFICATION Spec
CONSTANTS
  Keys = {1, 2}
  Sizes = {1, 2, 4}
  MaxSize = 3
  CommitMayFail = TRUE
  Reopens = TRUE
  LoadOverhead = 1
  MaxRecords = 3
  MaxBatch = 2
  MaxDrift = 3
INVARIANTS
  TypeOK
  SizeAccountedFor
  BatchIsAtomic
  EvictsOnlyWhatIsNeeded
  TurnoverMakesRoom
