SPECIFICATION Spec
CONSTANTS
  MaxChunks = 2
  MaxGeneration = 3
  MaxVersion = 3
INVARIANTS
  TypeOK
  NoOrphanChunks
PROPERTIES
  ImplementsDurableStore
