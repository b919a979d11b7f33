\* One process crash in either.
SPECIFICATION AnySpec
CONSTANTS
  p1 = p1
  s1 = s1
  ProxyCmds = {p1}
  SchedCmds = {s1}
  Dispatchable = {s1}
  Unwritable = {s1}
  MaxCrashes = 1
  MaxPowerCuts = 0
  NStreams = 2
  MaxRows = 3
  MinBatch = 2
  MaxBatch = 4
  Broken = {1}
  MaxRestarts = 1
PROPERTIES CommandsDelivered RowsDelivered
CHECK_DEADLOCK FALSE
