CONSTANTS
  r1 = r1
  r2 = r2
  r3 = r3
  r4 = r4
  r5 = r5
  NULL = NULL
  Reqs <- MixedReqs
  Cmd <- MixedCmd
  Parts <- MixedParts
  Kind <- MixedKind
  Luns = {0, 1}
  Faults = {"error", "refuse", "stuck", "busy", "abort", "resetDevice", "immediate"}
  MaxRetries = 3
  Reorder = TRUE
  MinTtl = 2
  TtlMod = 8
  CostMax = 100000
  SeekBackM = 2
  RwSwitchM = 4
  RwSwitchCost = 0
SPECIFICATION Spec
INVARIANTS TypeOK CompletedOnce NoneLeftBehind LeftAlone
CHECK_DEADLOCK FALSE
