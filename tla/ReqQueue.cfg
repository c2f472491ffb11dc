CONSTANTS
  r1 = r1
  r2 = r2
  r3 = r3
  r4 = r4
  r5 = r5
  NULL = NULL
  Reqs <- FiveReqs
  Cmd <- TwoLunCmd
  Luns = {0, 1}
  Reorder = TRUE
  MaxDepth = 4
  MinTtl = 2
  TtlMod = 5
  CostMax = 100000
  SeekBackM = 2
  RwSwitchM = 4
  RwSwitchCost = 0
SPECIFICATION SpecQueue
INVARIANTS ListsAgree WaitBounded
PROPERTY ImplementsPlaces
CHECK_DEADLOCK FALSE
