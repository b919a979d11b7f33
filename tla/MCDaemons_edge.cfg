SPECIFICATION AnySpec
CONSTANTS
  Config <- Configs
  Target = {1, 2}
  MaxMinute = 1
  Limit = 0
  MaxFailures = 1
  MaxUpsets = 1
  DayLen = 2
  GraceOfDay = 1
  MaxNow = 3
  MaxTrouble = 2
  Meter = {1, 2}
  ClearAfter = 2
  MaxHolds = 1
  MaxStrife = 2
  Device = {"a", "b"}
  Threshold = 1
  EnterAfter = 2
  LeaveAfter = 2
  GrowBy = 1
  Remind = 3
  CheckEvery = 1
  FirstCheck = 3
  Cooldown = 4
  Grace = 2
  MaxFaults = 3
INVARIANTS FiredOnce StaleIsRebuilt EstimateKept
PROPERTIES
  OlderOnlyWhenOvertaken ConfigReaches BreachStops
  MadeWhole Reported
  EndedForGood HoldEstimated
  RestartsSpaced StuckRecovered OutageTold
CHECK_DEADLOCK FALSE
