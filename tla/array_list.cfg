\* Calls by which the code keeps what jobject.h promises.  One value and the null
\* are enough to tell the positions of a list apart.
CONSTANTS
  Arrays = {x1, x2}
  Values = {v1}
  JNull = JNull
  NULL = NULL
  Junk = Junk
  Bucket = 2
  MaxCells = 3
  MaxIndex = 2
  MaxLost = 1
SPECIFICATION ListSpec
PROPERTY Lists
SYMMETRY ArraySymmetry
