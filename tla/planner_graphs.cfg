SPECIFICATION Spec
CONSTANTS
  a = a  b = b  c = c  d = d
  Node = {a, b, c}
  Dangling = {d}
  Unscoped = {a}
  Order <- MCOrder
CHECK_DEADLOCK FALSE
INVARIANTS SearchIsExact FoundAreCycles NeverRaises BatchesRespectDeps
PROPERTY Decides
