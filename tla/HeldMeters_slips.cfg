SPECIFICATION FairSpec
CONSTANTS
  Meter = {1, 2}
  ClearAfter = 1
  MaxHolds = 1
  MaxTrouble = 0
PROPERTIES RowsWait
CHECK_DEADLOCK FALSE
