SPECIFICATION FairSpec
CONSTANTS
  Attempts = 2
  LoginTimes = {1}
  Timeout = 4
  PollInterval = 4
  QueryPoll = 2
  RefreshCatalog = TRUE
  RefreshDelay = 1
  Midnight = 3
INVARIANTS
  TypeOK
  PassedIsEvidence
  IncompleteMeansDeadline
  BoundedOverrun
PROPERTIES
  FindsWhatWasThere
  RunEnds
CHECK_DEADLOCK FALSE
