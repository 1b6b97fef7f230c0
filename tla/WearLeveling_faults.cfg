SPECIFICATION FairSpec
CONSTANTS
  BACKING_STORE_WRITE_SIZE = 8
  WEAR_LEVELING_LOGICAL_SIZE = 8
  WEAR_LEVELING_BACKING_SIZE = 32
  SECTOR_SIZE = 16
  OPTIMIZED_64_LIMIT = 0
  WORD_01_LIMIT = 0
  Requests <- FewRequests
  Device = "locking"
  Faults = {"init", "read", "unlock", "lock", "erase", "write"}
  Beyond <- ErasedFlash
  MaxOverrun = 1
  NoHash = NoHash
  NoRequest = NoRequest
PROPERTIES
  CallsReturn
