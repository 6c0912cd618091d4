\* A closed controller has no step left, so deadlock is not an error.
SPECIFICATION Spec
CONSTANTS
  MaxPending = 3
  Sizes = {1}
  MaxVersion = 2
INVARIANTS
  ResolvedRequestDurable
CHECK_DEADLOCK FALSE
