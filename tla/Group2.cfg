SPECIFICATION FairSpec
CONSTANTS
  GroupSize = 2
  Events = {"conflict", "late_abort", "abort", "abort_next",
            "silent_exit", "malloc", "fork_fail", "other_region"}
INVARIANTS
  TypeOK AtMostOneWinner ConcededToHeir CommitChecked
  CommitOnlyCorrect NothingMissed AbortSticks
PROPERTIES RaceSettles LosersLeave
\* The group ends: its processes exit, or leave the modelled part of the program.
CHECK_DEADLOCK FALSE
