SPECIFICATION Spec
CONSTANTS
  Locations <- MCLocations
  QueriesFor <- MCQueriesFor
  MaxArgs = 3
INVARIANT ListedAreServed
CHECK_DEADLOCK FALSE
