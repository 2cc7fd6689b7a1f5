SPECIFICATION Spec
CONSTANTS
  Connections <- MCConnections
  W = 8
  Segments <- MCSegments
  MaxRst = 3
  IdleLimit = 1
  Ring = 1
INVARIANTS
  TypeOK
  SweepBudget
  OnlyGuiltySwept
  OneSessionPerConnection
PROPERTIES
  SweepsMove
  ActiveSessionsKept
