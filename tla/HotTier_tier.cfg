SPECIFICATION FairSpec
CONSTANTS
  MaxRow = 3
  MaxHour = 5
  RecordHours = {0, 4}
  DayLen = 2
  Window = 3
  Grace = 1
  DaysPerPass = 1
  Refused = {1}
  MaxFaults = 1
  MaxRestarts = 1
  MaxFreezes = 1
INVARIANTS PrunedIsCopied PrunedIsHeld UncountedWasBuffered CopyHoldsDay
PROPERTIES WindowKept
CHECK_DEADLOCK FALSE
