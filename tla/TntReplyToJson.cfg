SPECIFICATION Spec
CONSTANTS
  Replies <- MCReplies
  Multipliers = {1, 3}
  NumRoom = 11
  DoubleRoom = 11
  ResultHead = 3
  ErrorHead = 6
  Overhead = 8
INVARIANTS
  TypeOK
  WritesTheReply
  Balanced
  WritesTheTokens
  FitsIsWritten
CHECK_DEADLOCK FALSE
