\* A closed controller has no step left, so deadlock is not an error.
SPECIFICATION Spec
CONSTANTS
  MaxPending = 3
  Sizes = {0, 1}
  MaxVersion = 2
INVARIANTS
  UnsavedChangeTracked
CHECK_DEADLOCK FALSE
