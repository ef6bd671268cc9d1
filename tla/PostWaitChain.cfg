SPECIFICATION Spec
CONSTANTS
  GroupSize = 5
  Kinds = {"ordered", "skip"}
INVARIANT PostReaches
\* The group ends: its tasks commit, or wait for the understudy.
CHECK_DEADLOCK FALSE
