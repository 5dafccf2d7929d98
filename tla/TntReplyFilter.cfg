SPECIFICATION FairSpec
CONSTANTS
  MaxReplies = 3
  Bodies = {1, 3}
  Wires <- MCWires
  BufSize = 7
INVARIANTS
  TypeOK
  OneArray
  NothingUnread
  EndsAtLastReply
  CacheIsReplyPrefix
PROPERTIES
  RefinesReplyStream
  AnswerEnds
CHECK_DEADLOCK FALSE
