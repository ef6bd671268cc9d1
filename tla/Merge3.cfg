SPECIFICATION Spec
CONSTANTS
  x = x
  y = y
  Addr = {x, y}
  GroupSize = 3
  NumRegions = 3
  BlindWrites = FALSE
INVARIANTS SequentialMemory CheckedIsRight MainPasses
\* The program ends after its last region.
CHECK_DEADLOCK FALSE
