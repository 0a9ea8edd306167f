\* jobject_remove against the map it promises.
CONSTANTS
  k1 = k1  k2 = k2  k3 = k3  k4 = k4
  b1 = b1  b2 = b2
  v1 = v1  v2 = v2
  Keys = {k1, k2, k3}
  Values = {v1, v2}
  Buckets = {b1, b2}
  Hash <- MCHashPair
  MaxTables = 2
  MaxLost = 0
  Start = Start
  NULL = NULL
SPECIFICATION Spec
INVARIANT LookupExact
CHECK_DEADLOCK FALSE
SYMMETRY ValueSymmetry
