SPECIFICATION MCSpec
CONSTANTS
  LB = 4
  WINDOW = 2
  Skips = {0, 1}
  CHUNK = 5
  EMPTY_READS = FALSE
  MAX_BYTES = 12
  MAX_REARMS = 2
  MAX_LINK = 2
  MAX_STREAM = 2
  PIDS = {1, 2}
  ITEMS = {1, 2, 3}
  REQUIRED = {1, 2}
  MISHAPS = 2
  HIVES = {1}
  LINES = 5
  MAX_VALS = 3
  WORD = 8
  GAIN_LIMIT = 1
  PX_MAX = 1
  RETRIES = 1
  s1 = s1
  s2 = s2
  SCANNERS = {s1, s2}
  PLUS = {s2}
  ERASED = {s2}
  TOGETHER = FALSE
  STEPS = 4
INVARIANTS
  LinesAreOfTheBytes ReplayIsFaithful ImportsAreSound PsiIsFaithful ImagesAreSafe
CHECK_DEADLOCK FALSE
