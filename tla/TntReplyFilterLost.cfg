SPECIFICATION Spec
CONSTANTS
  MaxReplies = 3
  Bodies = {1, 3}
  Wires <- MCWires
  BufSize = 7
INVARIANTS
  LostConnectionIsReported
CHECK_DEADLOCK FALSE
