SPECIFICATION Spec
CONSTANTS
  NStreams = 2
  MaxRows = 3
  RefusedRows <- SomeRefused
  MinBatch = 2
  MaxBatch = 4
  TablesRefuse = TRUE
  MidDrain = FALSE
  Broken = {}
  BudgetRunsOut = TRUE
  MaxFreezes = 2
  MaxCrashes = 1
CONSTRAINT FreezesAlone
INVARIANTS NothingSkipped OnlyRefusedSetAside FlagOwed
PROPERTIES Implements
