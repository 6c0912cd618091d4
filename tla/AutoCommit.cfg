\* Both frequencies; sizes below, at and above the pending-bytes threshold.
\* A closed controller has no step left, so deadlock is not an error.
SPECIFICATION FairSpec
CONSTANTS
  MaxPending = 2
  Sizes = {0, 1, 2}
  MaxVersion = 4
INVARIANTS
  TypeOK
  NothingSignalledForgotten
  ResolvedRequestDurableOrPending
  ImmediateResolvesDurable
  SingleCommitter
  CloseSavesSignalled
PROPERTIES
  NoCommitAfterRelease
  EveryoneAnswered
  SignalledBecomesDurable
CHECK_DEADLOCK FALSE
