SPECIFICATION AnySpec
CONSTANTS
  Room = {"hot", "cold"}
  MinC = 16
  MaxC = 18
  StepC = 2
  Interval = 1
  Hold = 1
  MaxNow = 2
  MaxStrife = 2
  Fitted = {"f"}
  Enrollable = {"d", "e"}
  Vendor = {1, 2, 3}
  Op = {1, 2}
  MaxRequests = 4
  MaxTrouble = 1
  Field = {"on", "days", "enabled"}
  Arming = "enabled"
  MaxFaults = 1
  Behind = 2
  Ahead = 1
  MaxTime = 2
  MaxRows = 2
  MaxLives = 2
INVARIANTS EveryType MemoryIsSaved ToldOnce PolledOnce Agree NothingVanishes ShownIsStored StampsTrue
PROPERTIES StepsSpaced
CHECK_DEADLOCK FALSE
