SPECIFICATION Spec
CONSTANTS
  NoSymbol = NoSymbol
  Symbols <- MCSymbols
  Globals <- MCGlobals
  Names <- MCNames
  NameOf <- MCNameOf
  Programs <- MCPrograms
  Backends = {"asm", "c"}
INVARIANT NonRejecting
CHECK_DEADLOCK FALSE
