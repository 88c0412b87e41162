SPECIFICATION Spec
CONSTANTS
  NoSymbol = NoSymbol
  Symbols <- MCSymbols
  Globals <- MCGlobals
  Names <- MCNames
  NameOf <- MCNameOf
  Programs <- MCPrograms
  Backends = {"asm", "c"}
INVARIANTS TypeOK CoveredLosesNothing StableIsTyped
PROPERTY ImplementsBoxed
CHECK_DEADLOCK FALSE
