SPECIFICATION Spec
CONSTANTS
  a = a  b = b  c = c  d = d
  Node = {a, b, c}
  Dangling = {}
  Unscoped = {a}
  Order <- MCOrder
CHECK_DEADLOCK FALSE
INVARIANT CyclesRepaired
