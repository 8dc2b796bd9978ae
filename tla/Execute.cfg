CONSTANTS
  MaxHandlers = 2
  MaxIncidents = 3
  NoResult = NoResult
SPECIFICATION FairSpec
INVARIANTS
  TypeOK
  OneOpenIncident
  OpenIncidentMatches
  NotOkHasIncident
  ProcessingContained
PROPERTIES
  NothingWrittenWhileProcessing
  RaisedOnChange
  ExecuteReturns
