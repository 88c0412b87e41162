SPECIFICATION Spec
CONSTANTS
  HD_VALUE_SIZE = 56
  HD_MIN_ARGS = 5
  Values <- MCValues
  Nodes <- MCNodes
  Programs <- MCOperandPrograms
  Backends = {"c"}
  Order = "right"
CHECK_DEADLOCK FALSE
INVARIANT CallsInOrder
