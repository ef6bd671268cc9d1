SPECIFICATION Spec
CONSTANTS
  x = x
  Addr = {x}
  GroupSize = 3
  NumRegions = 4
  BlindWrites = FALSE
INVARIANTS SequentialMemory
\* The program ends after its last region.
CHECK_DEADLOCK FALSE
