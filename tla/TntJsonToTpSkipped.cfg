SPECIFICATION Spec
CONSTANTS
  Inputs <- MCInputs
  InnerKeys = {"x", "params", "id", "method"}
  MAX_STACK_SIZE = 7
  MAX_BATCH_SIZE = 2
  UINT32_MAX = 3
  StackChunk = 2
  ByteSize = 8
INVARIANT SkippedIsSkipped
CHECK_DEADLOCK FALSE
