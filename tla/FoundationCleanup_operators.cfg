SPECIFICATION FairSpec
CONSTANTS
  RepositoryCount = 2
  Operators = {o1, o2}
  MaxDeploys = 2
  MaxFaults = 2
  FoundationRaces = FALSE
  WorkloadRaces = FALSE
INVARIANTS
  StackImpliesRepositories
PROPERTIES
  NoCleanupUnderWorkload
  Converges
