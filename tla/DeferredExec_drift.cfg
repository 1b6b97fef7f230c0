SPECIFICATION Spec
CONSTANTS
  TableSize = 2
  TokenRange = 3
  TimerRange = 12
  Delays = {1, 2}
  RepeatDelays = {1, 2}
  OtherEntries = 1
  MaxCalls = 2
  MaxLag = 2
  MaxDrift = 2
INVARIANTS
  NeverFarOff
