SPECIFICATION Spec
CONSTANTS
  BACKING_STORE_WRITE_SIZE = 4
  WEAR_LEVELING_LOGICAL_SIZE = 24
  WEAR_LEVELING_BACKING_SIZE = 48
  SECTOR_SIZE = 24
  OPTIMIZED_64_LIMIT = 0
  WORD_01_LIMIT = 0
  Requests <- WideRequests
  Device = "open"
  Faults = {"power"}
  Beyond <- ErasedFlash
  MaxOverrun = 0
  NoHash = NoHash
  NoRequest = NoRequest
INVARIANTS
  TornAppendConfined
PROPERTIES
  ImplementsEeprom
