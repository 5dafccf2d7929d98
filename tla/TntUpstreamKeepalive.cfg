SPECIFICATION Spec
CONSTANTS
  Requests <- MCRequests
  MaxCalls = 2
  BadReplies = FALSE
  NReqs = 3
  Tries = 1
  Keepalive = TRUE
  ResendAllowed = FALSE
  Aborts = FALSE
  SplitGreeting = FALSE
INVARIANTS
  OwnReplies
  CompleteAnswer
  RejectedIsReported
PROPERTIES
  OkReusesClean
  RefinesRpcProxy
CHECK_DEADLOCK FALSE
