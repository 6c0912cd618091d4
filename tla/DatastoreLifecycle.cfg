\* Two writers, a reader and two close() calls around any kind of
\* initialisation.  Once every call has settled nothing is left to do.
SPECIFICATION FairSpec
CONSTANTS
  Writers = {w1, w2}
  Readers = {r1}
  Closers = {k1, k2}
  NoWriter = NoWriter
INVARIANTS
  TypeOK
  OneActiveWriter
  NoOperationDuringTeardown
  ControllerClosedOnce
  ClosedRefusesOperations
PROPERTIES
  EveryCallSettles
CHECK_DEADLOCK FALSE
