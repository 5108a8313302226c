CONSTANTS
    JOBS <- MCJobs
    LIM_RGB <- MCLimRgb
    LIM_IR <- MCLimIr
    DARK_ROUNDS = 3
    DUTY_ROUNDS = 5
    DUTY_CONFIRM = 2
    CURRENT_STEPS_MAX = 4
    OUTER_MAX = 18
    MAXD = 12
    GAIN_START = 1
    GAIN_FAIL_ABOVE = 2
    GAIN_MAX = 3
    OFFSET_START = 1
    OFFSET_MAX = 4
    BUFFER = 2
    CHUNK = 3
    SETTLE_LINES = 2
    NEED = 2
    SETTINGS = 2
    CFG = {16, 8}
    HOURS = 3
    DARK_AFTER = 0
    FULL_AFTER = 1
    MAX_RECORDS = 2
SPECIFICATION MCSpec
INVARIANTS
  LightIsSound CaptureIsOfTheSetting RecordsAreTrue
CHECK_DEADLOCK FALSE
