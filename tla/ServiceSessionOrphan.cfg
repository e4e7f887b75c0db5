CONSTANTS
  MaxStarts = 2
  MaxStops = 1
  MaxQueue = 8
  MaxCalls = 24
SPECIFICATION Spec
PROPERTY StopLeavesNoCore
CHECK_DEADLOCK FALSE
