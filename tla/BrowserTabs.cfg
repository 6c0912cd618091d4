SPECIFICATION FairSpec
CONSTANTS
  Tabs = {t1, t2}
  MaxSchema = 2
  MaxCommitId = 2
  MaxVersion = 2
INVARIANTS
  TypeOK
  OpensOnceCommitted
  LastWriterWins
PROPERTIES
  ImplementsDurableStore
  CallsSettle
