SPECIFICATION FairSpec
CONSTANTS
  Cues = {"c1"}
  Policies = {TRUE}
  MaxPublishing = 2
  CUE_MUTATION_CAPACITY = 1
  MaxSequence = 2
  MaxSession = 2
  MaxFaults = 1
  MaxControl = 2
INVARIANTS
  TypeOK
  NothingLost
  OpenSessionIsActive
PROPERTIES
  ImplementsLedger
  AckMeansArchived
  RowsNeverRegress
  EverythingArchived
