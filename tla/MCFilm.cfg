SPECIFICATION MCSpec
CONSTANTS
  STRIPS_MAX = 2
  LINES_PER_STRIP = 3
  LEVELS = {30000, 64000}
  MAX_LINES = 5
  LENGTHS <- AllLengths
  CONTROLS <- AllControls
  FEEDS = {0, 2, 3}
  TIMES = {0, 1, 300000, 300001}
  FACTORS = {0, 1, 20, 21}
  KEYS = {"scan_config", "complete"}
  EVENTS = 1
  STRIPS = 2
  OPS = 3
  MAX_DEPTH = 4
  JOBS = {"film", "motor", "dx", "session", "track"}
  FAULTS = 3
INVARIANTS
  SidecarIsTrue BudgetIsSound SidecarIsRead
PROPERTIES
  FinishedIsKept ScanEnds DriveEnds
CHECK_DEADLOCK FALSE
