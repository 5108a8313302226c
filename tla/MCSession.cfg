SPECIFICATION MCSpec
CONSTANTS
  CAP = 3
  NoByte = NoByte
  LB = 2
  WINDOW = 1
  Skips = {0}
  CHUNK = 2
  EMPTY_READS = FALSE
  MAX_BYTES = 5
  MAX_REARMS = 1
INVARIANTS
  BoardsHaveOneOwner RunIsMarked IdleIsStopped BooksAreTrue FileIsOfTheBytes
PROPERTIES
  FaultedUntilClosed WaitsEnd GridIsLineSync StopReturns
