SPECIFICATION Spec
CONSTANTS
  MaxAddr = 5
  MaxSize = 3
INVARIANT AddExact
