SPECIFICATION FairSpec
CONSTANTS
  NStreams = 1
  MaxRows = 4
  RefusedRows <- FirstTwoRefused
  MinBatch = 2
  MaxBatch = 4
  TablesRefuse = FALSE
  MidDrain = FALSE
  Broken = {}
  BudgetRunsOut = FALSE
  MaxFreezes = 0
  MaxCrashes = 0
PROPERTIES Delivered
