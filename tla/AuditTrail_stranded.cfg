\* A person's command and a power cut.
SPECIFICATION FairSpec
CONSTANTS
  ProxyCmds = {p1}
  SchedCmds = {}
  p1 = p1
  s1 = s1
  s2 = s2
  Dispatchable = {p1}
  Unwritable = {}
  MaxCrashes = 0
  MaxPowerCuts = 1
PROPERTIES QueueDrained
CHECK_DEADLOCK FALSE
