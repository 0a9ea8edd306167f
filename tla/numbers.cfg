\* Every text up to MaxLength, and integers and doubles at the boundaries.
CONSTANTS
  Width = 8
  NarrowWidth = 5
  MaxDouble = 40
  MaxExact = 31
  Digits = {0, 1, 2, 7, 8}
  Point = Point
  E = E
  Minus = Minus
  PlusSign = PlusSign
  Integer64 <- MCIntegers
  Doubles <- MCDoubles
  MaxLength = 6
  Unset = Unset
SPECIFICATION Spec
CHECK_DEADLOCK FALSE
INVARIANTS
  TypeOK
  AcceptsNumbers
  IntegersExact
  DoublesExact
  ComparesExactly
  AccessorsAgree
