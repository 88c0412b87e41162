SPECIFICATION Spec
CONSTANTS
  NoSymbol = NoSymbol
  Symbols <- MCSymbols
  Globals <- MCGlobals
  Names <- MCNames
  NameOf <- MCNameOf
  Programs <- MCPrograms
  Backends = {"asm", "c"}
CONSTRAINT OthersAgree
INVARIANT NothingLost
CHECK_DEADLOCK FALSE
