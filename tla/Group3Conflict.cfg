SPECIFICATION Spec
CONSTANTS
  GroupSize = 3
  Events = {"conflict"}
INVARIANT ConcededToHeir
\* The group ends: its processes exit, or leave the modelled part of the program.
CHECK_DEADLOCK FALSE
