SPECIFICATION Spec
CONSTANTS
  NumRegions = 3
  Lengths = {1, 2, 3}
  MaxItems = 2
INVARIANTS BufferHoldsText OutputIsSequential FileIsSequential AssertionsHold
\* The program ends.
CHECK_DEADLOCK FALSE
