SPECIFICATION FairSpec
CONSTANTS
  Dances = {"p", "q"}
  OtherKeys = {}
  Modifiers = {"LCTL", "LSFT"}
  Magic = {"MO1", "MO2"}
  Entries <- OneEntry
  TimerRange = 4
  MaxGap = 2
  MaxTaps = 4
  KC_NO = "KC_NO"
PROPERTIES
  EveryDanceFinishes
