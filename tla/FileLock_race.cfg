\* When all processes have been killed nothing happens any more.
SPECIFICATION Spec
CONSTANTS
  Processes = {p1, p2, p3}
  NoFile = NoFile
INVARIANTS
  SingleWriter
CHECK_DEADLOCK FALSE
