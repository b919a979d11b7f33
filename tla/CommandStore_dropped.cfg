\* A newest command the page drops while it queues.
SPECIFICATION Spec
CONSTANTS
  Target = {s1}
  MaxInFlight = 1
  MaxCommands = 2
INVARIANT LastWordSent
CHECK_DEADLOCK FALSE
