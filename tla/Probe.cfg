SPECIFICATION Spec
CONSTANTS
  Machines <- SomeMachines
  MaxFaults = 1
INVARIANTS OneOwner LegacyServed AllStarted
CHECK_DEADLOCK FALSE
