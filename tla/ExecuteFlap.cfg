CONSTANTS
  MaxHandlers = 1
  MaxIncidents = 3
  NoResult = NoResult
SPECIFICATION Spec
PROPERTY MoveFromOkRaises
