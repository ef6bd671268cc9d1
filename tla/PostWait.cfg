SPECIFICATION Spec
CONSTANTS
  GroupSize = 4
  Kinds = {"ordered", "late", "early", "empty", "skip", "plain", "twice"}
INVARIANTS OrderedIsSequential CommittedIsRight CommitIsSequential PostReaches
\* The group ends: its tasks commit, or wait for the understudy.
CHECK_DEADLOCK FALSE
