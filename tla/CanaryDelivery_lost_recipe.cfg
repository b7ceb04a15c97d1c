SPECIFICATION Spec
CONSTANTS
  Digests = {good, bad}
  BadDigests = {bad}
  NoDigest = none
  MaxRevisions = 4
  MaxSettings = 2
  Operators = {o1}
  Exclusive = TRUE
  SyncAlways = TRUE
  GateAlways = TRUE
  WrapperMayDie = FALSE
PROPERTY
  DoneMeansRecipeRuns
