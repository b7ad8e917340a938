SPECIFICATION Spec
CONSTANTS
  NumDays = 3
  MaxSims = 2
  MaxRuns = 2
INVARIANTS
  EachDayFromOneLayer
  DayBillsMoveForward
  BilledOrSaysWhy
  OverdueIsTrue
  FailuresAreExplained
CHECK_DEADLOCK FALSE
