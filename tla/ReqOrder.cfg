CONSTANTS
  r1 = r1
  r2 = r2
  r3 = r3
  r4 = r4
  r5 = r5
  Reqs <- FiveReqs
  Cmd <- OneLunCmd
  Luns = {0}
  Reorder = TRUE
  MaxDepth = 4
  MinTtl = 2
  TtlMod = 5
SPECIFICATION Spec
INVARIANTS TypeOK ConflictOrder BoundedOvertaking
PROPERTY HeadStays
CHECK_DEADLOCK FALSE
