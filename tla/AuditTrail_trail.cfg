\* Two commands that reach hardware; one process crash or one power cut, at any
\* step; the database may refuse the row of a fired command.
SPECIFICATION MCSpec
CONSTANTS
  p1 = p1
  s1 = s1
  s2 = s2
  ProxyCmds = {p1}
  SchedCmds = {s1, s2}
  Dispatchable = {p1, s1, s2}
  Unwritable = {s1, s2}
  MaxCrashes = 1
  MaxPowerCuts = 1
CONSTRAINTS OneKindOfFault OneInCloud
SYMMETRY SameSched
INVARIANTS ForgottenOnlyByOverwrite RowsHonest OutcomeKept
CHECK_DEADLOCK FALSE
