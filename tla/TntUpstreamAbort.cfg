SPECIFICATION Spec
CONSTANTS
  Requests <- MCRequests
  MaxCalls = 2
  BadReplies = FALSE
  NReqs = 2
  Tries = 1
  Keepalive = TRUE
  ResendAllowed = FALSE
  Aborts = TRUE
  SplitGreeting = FALSE
INVARIANTS
  OwnReplies
CHECK_DEADLOCK FALSE
