CONSTANTS
  NumDays = 1
  MaxSims = 2
  MaxRuns = 2
  MaxVersions = 2
  MaxReadings = 1
  Procs = {p1}
  OrphansSurvive = FALSE
  AirflowStopsForReset = TRUE
  BlankRuns = FALSE
  AckMayBeLost = FALSE
SPECIFICATION FairSpec
INVARIANTS OneRunningRowPerDay LeftoverRunWritesNothing SettledDayIsOver VerdictBacksRun ReportsAreComplete
PROPERTIES FailedRunsStayFailed ImplementsLedger DagRunEnds
