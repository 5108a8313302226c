SPECIFICATION ScanSpec
CONSTANTS
  STRIPS_MAX = 1
  LINES_PER_STRIP = 3
  LEVELS = {30000, 64000}
  MAX_LINES = 3
INVARIANT FailedWriteIsTold
CHECK_DEADLOCK FALSE
