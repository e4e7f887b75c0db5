CONSTANTS
  MaxStarts = 4
  MaxStops = 2
SPECIFICATION FairSpec
INVARIANT Safety
PROPERTIES ReadyOnOwnAnswer StopFinishedAnswersStop
  RunningSurvivesRejection ImplementsContract StopIsAnswered TransitionsEnd
CHECK_DEADLOCK FALSE
