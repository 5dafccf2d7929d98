SPECIFICATION Spec
CONSTANTS
  Locations <- MCLocations
  QueriesFor <- MCQueriesFor
  MaxArgs = 3
INVARIANTS
  TypeOK
  SentAsMeant
  SentIsAllowed
  RejectedForCause
CHECK_DEADLOCK FALSE
