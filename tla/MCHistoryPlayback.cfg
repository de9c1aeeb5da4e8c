SPECIFICATION FairSpec
CONSTANTS
  MaxPlaybacks = 2
  MaxPieces = 2
  MaxRoutes = 1
  MaxTimeouts = 1
  MaxGeneration = 2
INVARIANTS
  StoppedPlaysOneMorePiece
  UnstoppedIsActive
PROPERTIES
  OneTerminalEvent
CHECK_DEADLOCK FALSE
