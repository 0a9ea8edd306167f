\* Clients that only build, replace, iterate and destroy.
CONSTANTS
  k1 = k1  k2 = k2  k3 = k3  k4 = k4
  b1 = b1  b2 = b2
  v1 = v1  v2 = v2
  Keys = {k1, k2, k3, k4}
  Values = {v1, v2}
  Buckets = {b1, b2}
  Hash <- MCHash
  MaxTables = 3
  MaxLost = 1
  Start = Start
  NULL = NULL
SPECIFICATION BuildSpec
INVARIANTS TypeOK Findable LookupExact Ownership
PROPERTIES MapSpec DestroyTerminates
CHECK_DEADLOCK FALSE
