SPECIFICATION Spec
CONSTANTS
  Inputs <- MCInputs
  InnerKeys = {"x"}
  MAX_STACK_SIZE = 7
  MAX_BATCH_SIZE = 2
  UINT32_MAX = 3
  StackChunk = 2
  ByteSize = 8
INVARIANTS
  TypeOK
  StackFits
  Faithful
  BatchSizeIsCalls
  StackMirrorsNesting
  ErrorsAreTrue
  RefusedBeyondLimits
  WritesTheCalls
CHECK_DEADLOCK FALSE
