SPECIFICATION FairSpec
CONSTANTS
  Dances = {"p", "q"}
  OtherKeys = {"LCTL"}
  Modifiers = {"LCTL", "LSFT"}
  Magic = {"MO1", "MO2"}
  Entries <- TwoEntries
  TimerRange = 4
  MaxGap = 2
  MaxTaps = 4
  KC_NO = "KC_NO"
INVARIANTS
  TypeOK
  ReportJustified
PROPERTIES
  OrphanedByEarlyRelease
  DanceFinishes
