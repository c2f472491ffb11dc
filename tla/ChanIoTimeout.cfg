CONSTANTS
  r1 = r1
  r2 = r2
  r3 = r3
  r4 = r4
  r5 = r5
  NULL = NULL
  Reqs <- SmartReqs
  Cmd <- SmartCmd
  Parts <- SmartParts
  Kind <- SmartKind
  Luns = {0, 1}
  Faults = {"error", "refuse", "stuck", "busy"}
  MaxRetries = 3
  Reorder = TRUE
  MinTtl = 2
  TtlMod = 4
  CostMax = 100000
  SeekBackM = 2
  RwSwitchM = 4
  RwSwitchCost = 0
SPECIFICATION TimeoutSpec
PROPERTY EveryoneCompleted
CHECK_DEADLOCK FALSE
