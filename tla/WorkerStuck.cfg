SPECIFICATION FairSpec
CONSTANTS
  Tasks = {a, b}
  Events = 1
  Room = 1
  None = None
PROPERTIES ForcedStopEnds
CHECK_DEADLOCK FALSE
