SPECIFICATION LineSpec
CONSTANTS
  LB = 4
  WINDOW = 2
  Skips = {0, 1}
  CHUNK = 5
  EMPTY_READS = TRUE
  MAX_BYTES = 8
  MAX_REARMS = 2
INVARIANT EveryByteIsCounted
CHECK_DEADLOCK FALSE
