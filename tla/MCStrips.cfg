SPECIFICATION MCSpec
CONSTANTS
  WORD = 8
  BACK = 2
  SLOTS = 2
  TABLE = 2
  PER_PACKET = 2
  CODES = {1, 2, 3}
  OFFSET = 1
  STEPS = {3, 5}
  RECORDS <- MCRecords
  STATUSES <- MCStatuses
  MAX_RECORDS = 4
  MAX_LINE = 10
  ENTRIES = 20
  M = 4096
  BIG = 256
  SPACING = 8
  LEAD = 5
  FILM = 32
  TABLES <- MCTables
  PITCH = 400
  SIZE = 375
  RATIO = 4
  PLANES = 3
  RUNS = 2
  GAPS = {0, 1, 6, 25, 210, 600}
  BRIGHTS = {3, 190, 356, 357, 375, 430, 431, 760, 800, 830}
  ENDS = {2, 30, 420}
  ODD = {0, 3}
  ROLLS <- MCRolls
  SIZES = {20, 26, 27}
  ROW = 2
  NPLANES = 3
  HEIGHT = 4
  FAULTS = 2
  PICKS = {"picked"}
INVARIANTS
  ParserIsTrue TableIsTheFilms FramesAreSound DecodeIsSound
CHECK_DEADLOCK FALSE
