CONSTANTS
  MaxStarts = 2
  MaxStops = 0
SPECIFICATION Spec
INVARIANT ReadyCoreIsAlive
CHECK_DEADLOCK FALSE
