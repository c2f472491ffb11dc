CONSTANTS
  N = 2
  Chips = {"flag", "sata"}
  SecondIsr = {TRUE, FALSE}
  Waits = {"again", "dpc", "rdp"}
SPECIFICATION Spec
INVARIANTS TypeOK SpinEnds SilentHasCaller NotForgotten
CHECK_DEADLOCK FALSE
