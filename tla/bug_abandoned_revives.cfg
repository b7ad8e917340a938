CONSTANTS
  NumDays = 1
  MaxSims = 1
  MaxRuns = 2
  MaxVersions = 1
  MaxReadings = 0
  Procs = {p1, p2}
  OrphansSurvive = TRUE
  AirflowStopsForReset = TRUE
  BlankRuns = FALSE
  AckMayBeLost = FALSE
SPECIFICATION Spec
PROPERTY FailedRunsStayFailed
