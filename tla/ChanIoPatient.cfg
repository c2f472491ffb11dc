CONSTANTS
  r1 = r1
  r2 = r2
  r3 = r3
  r4 = r4
  r5 = r5
  NULL = NULL
  Reqs <- PatientReqs
  Cmd <- PatientCmd
  Parts <- PatientParts
  Kind <- PatientKind
  Luns = {0, 1}
  Faults = {"error"}
  MaxRetries = 3
  Reorder = TRUE
  MinTtl = 2
  TtlMod = 4
  CostMax = 100000
  SeekBackM = 2
  RwSwitchM = 4
  RwSwitchCost = 0
SPECIFICATION PatientSpec
INVARIANTS StaysBusy CurIsExecuted
PROPERTY EveryoneCompleted
CHECK_DEADLOCK FALSE
