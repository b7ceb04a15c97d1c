SPECIFICATION Spec
CONSTANTS
  SeatCount = 2
  AttemptLimit = 3
  Window = 2
  HealthAttempts = 2
  MaxRuns = 2
  Nothing = Nothing
INVARIANTS
  SuccessReportIsEvidence
CHECK_DEADLOCK FALSE
