SPECIFICATION Spec
CONSTANTS
  Devices <- SomeDevices
  Len = 2
  MaxRetries = 4
  MaxEvents = 4
INVARIANTS TypeOK NoneMissed Truthful
PROPERTY Answered
CHECK_DEADLOCK FALSE
