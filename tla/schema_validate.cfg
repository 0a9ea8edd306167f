SPECIFICATION Spec
CONSTANTS
  a = a
  b = b
  NULL = NULL
  Keys = {a, b}
  Scalars <- MCScalars
  Remote <- MCRemote
  Tops <- MCTops
  Schemas <- MCSchemas
  MaxEvents = 5
CHECK_DEADLOCK FALSE
INVARIANTS
  TypeOK
  StackFollowsText
  Verdict
