CONSTANTS
  NumDays = 1
  MaxSims = 2
  MaxRuns = 3
  MaxVersions = 1
  MaxReadings = 1
  Procs = {p1, p2}
  OrphansSurvive = TRUE
  AirflowStopsForReset = TRUE
  BlankRuns = FALSE
  AckMayBeLost = FALSE
SPECIFICATION Spec
SYMMETRY ProcSymmetry
INVARIANTS TypeOK BilledIffSucceeded
PROPERTY SettledIsFinal
