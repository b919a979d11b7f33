SPECIFICATION Spec
CONSTANTS
  Field = {"on", "days", "enabled"}
  Arming = "enabled"
  MaxRequests = 3
  MaxFaults = 0
PROPERTIES OthersKept
CHECK_DEADLOCK FALSE
