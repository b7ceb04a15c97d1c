SPECIFICATION Spec
CONSTANTS
  RepositoryCount = 2
  Operators = {o1}
  MaxDeploys = 3
  MaxFaults = 2
  FoundationRaces = TRUE
  WorkloadRaces = FALSE
INVARIANTS
  TypeOK
PROPERTIES
  DeletesOnlyInspected
  CleanedIsCurrent
