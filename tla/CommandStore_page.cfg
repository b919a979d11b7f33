SPECIFICATION FairSpec
CONSTANTS
  Target = {s1, s2}
  MaxInFlight = 2
  MaxCommands = 4
INVARIANTS SlotsExact EntryHonest
PROPERTIES OnlyNewestAsked SlotsReturn
CHECK_DEADLOCK FALSE
