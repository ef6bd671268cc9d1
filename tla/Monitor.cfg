SPECIFICATION Spec
CONSTANTS
  NumGroups = 2
  Troubles = {"segv", "int", "abort", "exit"}
INVARIANTS StatusReported OutputFlushed
PROPERTIES MonitorEnds NoSurvivors
\* All processes end.
CHECK_DEADLOCK FALSE
