SPECIFICATION FairSpec
CONSTANTS
  Digests = {d1, d2}
  Indexes = {d2}
  Runs = {r1, r2}
  Nothing = Nothing
INVARIANTS
  TypeOK
  CopiedIsRetained
PROPERTIES
  OnlyInspectedImagesEnter
  EveryRunEnds
CHECK_DEADLOCK FALSE
