\* Streams with any calls in any order, and values with one level too many.
CONSTANTS
  a = a
  one = one
  Strings = {a}
  Others = {one}
  Layers <- MCLayers
  MaxDepth = 3
  MaxCalls = 6
  NULL = NULL
SPECIFICATION Spec
INVARIANTS
  TypeOK
  ToStringExact
  TextFollowsCalls
