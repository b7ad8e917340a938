CONSTANTS
  NumDays = 4
  MaxSims = 2
  Limit = 2
  MaxFailures = 2
  ResetMidTick = FALSE
SPECIFICATION FairSpec
INVARIANTS TriggeredDaysAreOver RecordedWasTriggered
PROPERTY EndedDayTriggeredUnlessStuck
