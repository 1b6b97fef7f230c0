SPECIFICATION Spec
CONSTANTS
  Keys <- ThreeKeys
  Layers <- TwoLayers
  Codes = {"a","b","c","d"}
  Mods = {"shift", "ctrl"}
  Keymap <- MtLtMod
  TAPPING_TERM = 2
  QUICK_TAP_TERM = 2
  TIMER_RANGE = 5
  WAITING_BUFFER_SIZE = 4
  PERMISSIVE_HOLD = FALSE
  HOLD_ON_OTHER_KEY_PRESS = FALSE
  MaxGap = 1
  DEBOUNCE = TRUE
  NoKey = NoKey
  NoCode = NoCode
INVARIANTS
  NoStuckKeys
