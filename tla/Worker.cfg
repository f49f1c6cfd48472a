SPECIFICATION FairSpec
CONSTANTS
  Tasks = {a, b}
  Events = 1
  Room = 1
  None = None
INVARIANTS EventsThenExit
PROPERTIES NobodyStuck
CHECK_DEADLOCK FALSE
