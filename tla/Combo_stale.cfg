SPECIFICATION Spec
CONSTANTS
  Keys = {"a", "b", "c", "d", "e"}
  Switches = {}
  SwitchOf <- NoSwitches
  COMBO_COUNT = 3
  Layouts <- ThreeCombos
  COMBO_TERM = 1
  COMBO_KEY_BUFFER_LENGTH = 8
  COMBO_BUFFER_LENGTH = 4
  TimerRange = 4
  MaxGap = 1
  NoCombo = NoCombo
INVARIANTS
  NoLostPress
