SPECIFICATION Spec
CONSTANTS
  Keys <- TwoKeys
  Rows = {"r1"}
  Row <- OneRow
  DEBOUNCE = 2
  ElapsedMax = 3
  TimerRange = 6
  MaxGap = 4
INVARIANTS
  TypeOK
  Follows
PROPERTIES
  NoiseFiltered
  ChatterFiltered
