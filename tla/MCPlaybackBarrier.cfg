SPECIFICATION FairSpec
CONSTANTS
  Renderers = {r1, r2}
  MaxPermits = 4
  MaxGeneration = 5
INVARIANTS
  TypeOK
  ExclusiveEndpoint
  FailedCleanupBlocksStart
PROPERTIES
  CondemnedNeverSubmits
  DrainEnds
CHECK_DEADLOCK FALSE
