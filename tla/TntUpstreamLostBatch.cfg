SPECIFICATION Spec
CONSTANTS
  Requests <- MCBatches
  MaxCalls = 2
  BadReplies = FALSE
  NReqs = 1
  Tries = 2
  Keepalive = FALSE
  ResendAllowed = TRUE
  Aborts = FALSE
  SplitGreeting = FALSE
INVARIANTS
  CompleteAnswer
CHECK_DEADLOCK FALSE
