SPECIFICATION Spec
CONSTANTS
  TableSize = 2
  TokenRange = 4
  TimerRange = 10
  Delays = {1, 2}
  RepeatDelays = {1, 2}
  OtherEntries = 1
  MaxCalls = 2
  MaxLag = 2
  MaxDrift = 1
INVARIANTS
  SameExecutor
