SPECIFICATION FairSpec
CONSTANTS
  Accounts = {a1, a2}
  Events = {e1}
  RetryAttempts = 1
  MaxEventAge = 2
  FreshnessThreshold = 1
  EvaluationPeriods = 3
  StoreWindow = 6
  ArchiveRetention = 7
  DeadLetterRetention = 8
  MaxRedeploys = 2
  MaxReplays = 1
  Nothing = Nothing
INVARIANTS
  TypeOK
  OwnPartition
PROPERTIES
  ImplementsAuditTrail
  EveryLoginIsAccountedFor
