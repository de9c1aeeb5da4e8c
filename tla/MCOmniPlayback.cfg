SPECIFICATION FairSpec
CONSTANTS
  Cues = {c1, c2}
  None = None
  Routes <- AllRoutes
  Capacity = 2
  MaxDeltas = 1
  DeltaUnits = {1, 3}
  MaxMishaps = 1
INVARIANTS
  TypeOK
  RestartInterruptsNothing
  StreamsStayInOrder
  DrainDeliversTail
  PendingFlagTracksOutput
PROPERTIES
  SessionEnds
  EndedSessionIsQuiet
CHECK_DEADLOCK FALSE
