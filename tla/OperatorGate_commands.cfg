SPECIFICATION FairSpec
CONSTANTS
  Runs = {r1, r2}
  Accounts = {a1, a2}
  Roles = {admin}
  AuditAccount = a1
  WorkloadAccount = a2
  MaxEdits = 1
  Nothing = Nothing
INVARIANTS
  TypeOK
  UsedFilesWerePrivate
  LoginsReachTwoAccounts
  ReportedMeansEvidence
PROPERTIES
  BootstrapsOnlyAuditAccount
  CompletedBootstrapIsComplete
  EveryCommandEnds
CHECK_DEADLOCK FALSE
