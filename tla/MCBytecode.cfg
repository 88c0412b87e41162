SPECIFICATION Spec
CONSTANTS
  Values <- MCValues
  Nodes <- MCNodes
  Nesting <- MCNesting
  Programs <- MCPrograms
  StackMax = 3
INVARIANT TypeOK JumpsLand AcceptedCompiles TempsDistinct StatementsLeaveNothing OperandsAreThere CountersBound EntryRuns
PROPERTY ImplementsStructured
CHECK_DEADLOCK FALSE
