SPECIFICATION Spec
CONSTANTS
  Attempts = 1
  LoginTimes = {0}
  Timeout = 3
  PollInterval = 2
  QueryPoll = 2
  RefreshCatalog = TRUE
  RefreshDelay = 1
  Midnight = 2
INVARIANTS
  TableLookupIsRetried
CHECK_DEADLOCK FALSE
