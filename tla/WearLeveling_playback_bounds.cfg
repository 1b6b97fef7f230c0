SPECIFICATION Spec
CONSTANTS
  BACKING_STORE_WRITE_SIZE = 2
  WEAR_LEVELING_LOGICAL_SIZE = 4
  WEAR_LEVELING_BACKING_SIZE = 20
  SECTOR_SIZE = 20
  OPTIMIZED_64_LIMIT = 1
  WORD_01_LIMIT = 4
  Requests <- SmallRequests
  Device = "open"
  Faults = {"power"}
  Beyond <- ErasedFlash
  MaxOverrun = 0
  NoHash = NoHash
  NoRequest = NoRequest
INVARIANTS
  ReadInBounds
