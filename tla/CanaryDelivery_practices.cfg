SPECIFICATION FairSpec
CONSTANTS
  Digests = {good, bad}
  BadDigests = {bad}
  NoDigest = none
  MaxRevisions = 4
  MaxSettings = 2
  Operators = {o1}
  Exclusive = TRUE
  SyncAlways = TRUE
  GateAlways = FALSE
  WrapperMayDie = FALSE
INVARIANTS
  TypeOK
  RollbackCheckpoint
PROPERTIES
  DeployKeepsRunningRevision
  NoStackedDeployment
  InfraDeployKeepsImage
  ReleasesFollowRecipe
  ImplementsImageRelease
  ScriptsEnd
  RetriedDeployCompletes
  HaltIsRolledForward
