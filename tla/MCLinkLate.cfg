SPECIFICATION MCSpec
CONSTANTS
  Thread = {controller, idler}
  Capped = {idler}
  NoThread = NoThread
  Request <- MCRequest
  HOST = "host"
  RETRIES = 2
  DRAIN_MAX = 8
  PROMPT = FALSE
  SCANNERS = {1, 2}
  WAIT = 3
  SIZE = 3
  BYTES = 3
  CONFIGS <- MCConfigs
  LIGHTS <- MCLights
  ATTEMPTS = 3
  MOVES = 3
  FAULTS = 2
  RUNS = 2
  PRESSES = 2
INVARIANT AnswerIsOwn
CHECK_DEADLOCK FALSE
