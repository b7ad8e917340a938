CONSTANTS
  NumDays = 4
  MaxSims = 2
  Limit = 2
  MaxFailures = 0
  ResetMidTick = TRUE
SPECIFICATION Spec
INVARIANT RecordedWasTriggered
