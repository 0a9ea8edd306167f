\* Every call, those that lose elements included.
CONSTANTS
  Arrays = {x1, x2}
  Values = {v1}
  JNull = JNull
  NULL = NULL
  Junk = Junk
  Bucket = 2
  MaxCells = 3
  MaxIndex = 3
  MaxLost = 1
SPECIFICATION Spec
INVARIANTS TypeOK OutsideEmpty Ownership NothingLost
SYMMETRY ArraySymmetry
