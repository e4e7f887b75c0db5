CONSTANTS
  MaxStarts = 1
  MaxStops = 1
  MaxQueue = 8
  MaxCalls = 24
SPECIFICATION Spec
PROPERTY StopConfirmedMeansExited
CHECK_DEADLOCK FALSE
