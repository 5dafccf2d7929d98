SPECIFICATION FairSpec
CONSTANTS
  Requests <- MCRequests
  MaxCalls = 3
  BadReplies = TRUE
  NReqs = 1
  Tries = 2
  Keepalive = FALSE
  ResendAllowed = TRUE
  Aborts = TRUE
  SplitGreeting = TRUE
INVARIANTS
  TypeOK
  AnsweredOnce
  RejectedIsReported
PROPERTIES
  EveryRequestEnds
CHECK_DEADLOCK FALSE
