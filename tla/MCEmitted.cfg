SPECIFICATION Spec
CONSTANTS
  HD_VALUE_SIZE = 56
  HD_MIN_ARGS = 5
  Values <- MCValues
  Nodes <- MCNodes
  Programs <- MCPrograms
  Backends = {"asm", "c"}
  Order = "left"
INVARIANT TypeOK FrameHolds TempsDeclared EntryAgrees
PROPERTY ImplementsStructured SlotKeptUntilBound
CHECK_DEADLOCK FALSE
