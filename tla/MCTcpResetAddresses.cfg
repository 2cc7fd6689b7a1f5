SPECIFICATION Spec
CONSTANTS
  Connections <- MCConnections
  W = 8
  Segments <- MCSegments
  MaxRst = 3
  IdleLimit = 1
  Ring = 3
PROPERTY SweepsAddressed
