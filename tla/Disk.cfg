SPECIFICATION Spec
CONSTANTS
  Cases <- AllCases
  Requests <- AllRequests
  Track = 3
  MaxRetries = 6
  MaxResets = 3
INVARIANTS TypeOK Placed TableFits ChipFits FailedInPio
CHECK_DEADLOCK FALSE
