SPECIFICATION Spec
CONSTANTS
  MaxCommitId = 2
  MaxVersion = 2
INVARIANTS
  TypeOK
  NoGarbageAfterCommit
PROPERTIES
  ImplementsDurableStore
