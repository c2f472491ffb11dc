CONSTANTS
  ch0 = ch0
  ch1 = ch1
  ch2 = ch2
  Chans <- ThreeChans
  NOCHAN = NOCHAN
  NEVER = NEVER
  Delays = {0, 1, 3}
  Slack = 1
  Wrap = 64
  MaxTime = 6
SPECIFICATION SpecDpc
INVARIANTS TypeOKDpc NeverCallsNull TimerSet InOrder
SYMMETRY AnyChan
CHECK_DEADLOCK FALSE
