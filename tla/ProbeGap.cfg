SPECIFICATION Spec
CONSTANTS
  Machines <- Gaps
  MaxFaults = 0
INVARIANT GapStarted
CHECK_DEADLOCK FALSE
