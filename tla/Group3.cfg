SPECIFICATION Spec
CONSTANTS
  GroupSize = 3
  Events = {"conflict", "late_abort", "abort", "abort_next",
            "silent_exit", "malloc", "fork_fail", "other_region"}
INVARIANTS
  AtMostOneWinner CommitChecked CommitOnlyCorrect NothingMissed
PROPERTIES ImplementsTaskGroup EscapeByForkOnly
\* The group ends: its processes exit, or leave the modelled part of the program.
CHECK_DEADLOCK FALSE
