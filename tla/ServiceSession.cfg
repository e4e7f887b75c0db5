CONSTANTS
  MaxStarts = 3
  MaxStops = 1
  MaxQueue = 8
  MaxCalls = 24
SPECIFICATION FairSpec
INVARIANT Safety
PROPERTIES ConfirmedStopLeavesNoCore StopIsAnswered TransitionsEnd
CHECK_DEADLOCK FALSE
