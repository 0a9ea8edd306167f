SPECIFICATION Spec
CONSTANTS
  a = a
  b = b
  s = s
  one = one
  NULL = NULL
  Names = {a, b, e}
  Strings = {s}
  Others = {one}
  Empty = e
  JNull = null
  Defaults <- MCDefaults
  Clients <- MCClients
  MaxEvents = 6
  MaxInjected = 2
CHECK_DEADLOCK FALSE
INVARIANTS
  TypeOK
  Ownership
  ContextMirrorsText
  CanceledForCause
  RefusalIsFinal
PROPERTY
  DocumentSpec
