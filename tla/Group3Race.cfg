SPECIFICATION FairSpec
CONSTANTS
  GroupSize = 3
  Events = {"abort", "abort_next",
            "silent_exit", "malloc", "fork_fail", "other_region"}
INVARIANT ConcededToHeir
PROPERTY RaceSettles
\* The group ends: its processes exit, or leave the modelled part of the program.
CHECK_DEADLOCK FALSE
