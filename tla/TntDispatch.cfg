SPECIFICATION Spec
CONSTANTS
  r1 = r1
  r2 = r2
  R = {r1, r2}
  Locations <- MCLocations
  raw <- MCRaw
  Traffic <- MCTraffic
  CallHeader = 3
  BufSize = 19
INVARIANTS
  TypeOK
  CallsItsOwn
  MapIsTheRequest
  BodyIsServed
  RejectedForCause
  HeadersAnnounceItems
CHECK_DEADLOCK FALSE
