\* Four callers; a dead prefix of two slots is long enough to be cut off.
SPECIFICATION FairSpec
CONSTANTS
  Clients = {c1, c2, c3, c4}
  Dead = Dead
  CompactThreshold = 1
INVARIANTS
  TypeOK
  MutualExclusion
  NoLostWaiter
PROPERTIES
  ImplementsFifoLock
  EveryWaiterServed
