SPECIFICATION FairSpec
CONSTANTS
  SeatCount = 2
  AttemptLimit = 3
  Window = 2
  HealthAttempts = 2
  MaxRuns = 2
  Nothing = Nothing
INVARIANTS
  TypeOK
  OneSeatPerRun
PROPERTIES
  EveryRunEnds
CHECK_DEADLOCK FALSE
