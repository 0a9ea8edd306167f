\* Three handles and two iterators over up to three values.
SPECIFICATION Spec
CONSTANTS
  Dom = dom
  Handles = {dom, x, y}
  Walks = {v, w}
  Addresses = {p1, p2, p3}
  Documents <- MCDocuments
  Null = null
  EmptyString = empty
  MaxItems = 2
  MaxLost = 1
SYMMETRY HandleSymmetry
INVARIANTS
  TypeOK
  Counted
PROPERTY
  SharedSpec

