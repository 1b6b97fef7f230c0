SPECIFICATION Spec
CONSTANTS
  Keys = {"a", "b", "c", "d"}
  Switches = {}
  SwitchOf <- NoSwitches
  COMBO_COUNT = 2
  Layouts <- DisjointCombos
  COMBO_TERM = 1
  COMBO_KEY_BUFFER_LENGTH = 8
  COMBO_BUFFER_LENGTH = 2
  TimerRange = 4
  MaxGap = 2
  NoCombo = NoCombo
INVARIANTS
  NoStuckKeys
