SPECIFICATION Spec
CONSTANTS
  a = a  b = b  c = c
  Task = {a, b, c}
  Rank <- MCRank
  MaxParallel = 2
  MaxRounds = 2
CHECK_DEADLOCK FALSE
 
PROPERTY CommandEnds
