SPECIFICATION FairSpec
CONSTANTS
  Events <- MCEvents
  Nothing = Nothing
  Cap = 3
INVARIANT TypeOK
PROPERTIES ImplementsEventQueue OldestLeaves
