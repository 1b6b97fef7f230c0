SPECIFICATION FairSpec
CONSTANTS
  Matrices = {"none", "a", "ab"}
  NoKeys = "none"
  Checksums = {0, 1, 2}
  Crc <- CollidingCrc
  NoCrc = 0
  Values = {0, 1}
  NoValue = 0
  Retries = 2
  SPLIT_MAX_CONNECTION_ERRORS = 2
  FORCED_SYNC_THROTTLE_MS = 1
  SPLIT_CONNECTION_CHECK_TIMEOUT = 1
INVARIANTS
  TypeOK
PROPERTIES
  MatrixSeen
  MatrixConverges
  ValueConverges
  ReleasedWhenGone
