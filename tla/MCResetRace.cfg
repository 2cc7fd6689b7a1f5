SPECIFICATION RaceSpec
CONSTANTS
  Connections <- MCConnections
  W = 16
  Segments = {}
  MaxRst = 3
  IdleLimit = 1
  Ring = 1
  Client <- MCClient
  Server <- MCServer
  Start <- MCStart
  Lens <- MCLens
  MaxData <- MCMaxData
  Offsets <- MCOffsets
CHECK_DEADLOCK FALSE
INVARIANT
  RaceTypeOK
PROPERTIES
  OnlyAnswersDefeat
  QuietSweepsHit
