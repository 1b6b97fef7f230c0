SPECIFICATION FairSpec
CONSTANTS
  Keys = {"a", "b", "c", "t"}
  Switches = {"t"}
  SwitchOf <- ToggleKey
  COMBO_COUNT = 2
  Layouts <- OverlappingLayouts
  COMBO_TERM = 1
  COMBO_KEY_BUFFER_LENGTH = 8
  COMBO_BUFFER_LENGTH = 4
  TimerRange = 4
  MaxGap = 2
  NoCombo = NoCombo
INVARIANTS
  TypeOK
  NoStuckKeys
  NoLostPress
  OneComboPerKey
PROPERTIES
  Flushed
