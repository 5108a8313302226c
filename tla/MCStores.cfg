SPECIFICATION StoresSpec
CONSTANTS
    AutoPin = AutoPin
    None = None
    i1 = i1
    i2 = i2
    i3 = i3
    ownCal = ownCal
    otherCal = otherCal
    psiCal = psiCal
    Cals = {ownCal, otherCal, psiCal}
    Imported <- MCImported
    Elsewhere <- MCElsewhere
    Utc <- MCUtc
    Base <- MCBase
    Ir <- MCIr
    Keys <- MCKeys
    Nameless = TRUE
    p1 = p1
    p2 = p2
    Procs = {p1, p2}
    MaxCalls = 3
    MaxLosses = 1
    Images = {i1, i2, i3}
    HasCalWiz <- MCHasCalWiz
    DirSyncFails = FALSE
    MaxPuts = 3
    MaxEepromLosses = 2
SYMMETRY MCSymmetry
INVARIANTS
  EntriesAreWhole SelectionIsSound CurrentIsFirst
CHECK_DEADLOCK FALSE
