SPECIFICATION Spec
CONSTANTS
  NULL = NULL
  Texts <- MCTexts
  Nodes <- MCNodes
  MaxParses = 2
  MaxWrappers = 2
  MaxHeld = 2
  MaxResources = 1
  MaxDepth = 2
  MaxElements = 2
  MaxLeaked = 0
CHECK_DEADLOCK FALSE
INVARIANTS
  TypeOK
  
  WrappersCounted
  MapsOwned
  EmptiedByLending
