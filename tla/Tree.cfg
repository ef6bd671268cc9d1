SPECIFICATION Spec
CONSTANTS
  MaxAddr = 6
  MaxSize = 3
INVARIANTS TreeOK LookupExact AddSound AddExactUnlessInside SetOpsExact
