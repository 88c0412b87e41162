SPECIFICATION Spec
CONSTANTS
  Names <- MCNames
  NoName = NoName
  Nodes <- MCNodes
  NoNode = NoNode
  Programs <- MCPrograms
INVARIANTS TypeOK TablesFitFrames ParametersHaveSlots BindingsFollowScope
INVARIANTS FallbacksLeadOut RefusesExactly
CHECK_DEADLOCK FALSE
