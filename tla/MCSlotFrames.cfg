SPECIFICATION Spec
CONSTANTS
  NoName = NoName
  Unbound = Unbound
  Junk = Junk
  MaxDepth = 2
  GlobalCount = 2
  Names <- MCNames
  Temps <- MCTemps
  Functions <- MCFunctions
  Params <- MCParams
  Locals <- MCLocals
  Globals <- MCGlobals
  RuntimeConstants <- MCRuntimeConstants
  RuntimeValue <- MCRuntimeValue
  Values <- MCValues
  MainTemps <- MCMainTemps
  TempsOf <- MCTempsOf
  GlobalSlot <- MCGlobalSlot
  LocalSlot <- MCLocalSlot
  FrameCount <- MCFrameCount
INVARIANTS TypeOK ActiveIsInitialised ParamsActive EnvIsScoped
PROPERTIES StoreKeepsChain ImplementsNameScope
CHECK_DEADLOCK FALSE
