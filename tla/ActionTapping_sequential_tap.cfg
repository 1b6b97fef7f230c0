SPECIFICATION Spec
CONSTANTS
  Keys <- ThreeKeys
  Layers <- TwoLayers
  Codes = {"a","b","c","d"}
  Mods = {"shift", "ctrl"}
  Keymap <- MtLtKey
  TAPPING_TERM = 4
  QUICK_TAP_TERM = 0
  TIMER_RANGE = 9
  WAITING_BUFFER_SIZE = 8
  PERMISSIVE_HOLD = FALSE
  HOLD_ON_OTHER_KEY_PRESS = FALSE
  MaxGap = 1
  DEBOUNCE = TRUE
  NoKey = NoKey
  NoCode = NoCode
PROPERTIES
  HeldMeansLong
