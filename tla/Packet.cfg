SPECIFICATION Spec
CONSTANTS
  Options <- SomeOptions
  Commands <- FewCommands
  MaxResets = 2
INVARIANTS TypeOK AsMoved EngineDone Awaited
PROPERTY SenseKept
CHECK_DEADLOCK FALSE
