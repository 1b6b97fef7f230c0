SPECIFICATION Spec
CONSTANTS
  Keys <- FourKeys
  Layers <- TwoLayers
  Codes = {"a","b","c","d"}
  Mods = {"shift", "ctrl"}
  Keymap <- MtLtKeyMo
  TAPPING_TERM = 3
  QUICK_TAP_TERM = 3
  TIMER_RANGE = 7
  WAITING_BUFFER_SIZE = 8
  PERMISSIVE_HOLD = FALSE
  HOLD_ON_OTHER_KEY_PRESS = TRUE
  MaxGap = 3
  DEBOUNCE = TRUE
  NoKey = NoKey
  NoCode = NoCode
INVARIANTS
  NoStuckKeys
  NoStuckLayers
