SPECIFICATION MCSpec
CONSTANTS
  x = x
  y = y
  Unset = Unset
  Byte <- MCByte
  Stage1 <- MCStage1
  Stage1Candidates <- MCStage1Candidates
  FwImages <- MCFwImages
  S1Records <- MCS1Records
  Jobs <- MCJobs
  A3_MIN_EXCL = 1
  A0_INT_END = 3
  A0_EXT_END = 5
  LOAD_REC_MAX = 2
INVARIANTS
  IndInv OnlyVettedCode LoaderSafe
PROPERTY
  OkMeansLoaded
