CONSTANTS
  NumDays = 4
  MaxSims = 1
  Limit = 2
  MaxFailures = 1
  ResetMidTick = FALSE
SPECIFICATION FairSpec
PROPERTY EndedDayTriggered
