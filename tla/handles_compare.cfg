\* Handles whose values are compared as well.
SPECIFICATION CompareSpec
CONSTANTS
  Dom = dom
  Handles = {dom, x, y}
  Walks = {w}
  Addresses = {p1, p2, p3}
  Documents <- MCDocuments
  Null = null
  EmptyString = empty
  MaxItems = 2
  MaxLost = 1
INVARIANT ElementsRemain
CHECK_DEADLOCK FALSE
