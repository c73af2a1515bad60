SPECIFICATION AutoSpec
CONSTANTS
  a = a  b = b  c = c  g1 = g1  g2 = g2
  Outside = outside
  Task = {a, b, c}
  Deps <- FreeDeps
  Rank <- MCRank
  Depth <- FreeDepth
  Gate = {g1}
  Required = {g1}
  Blames <- MCBlames
  MaxAttempts = 2
  DefaultAttempts = 3
  MaxDispatches = 0
  Edited = {a, b, c}
  CommitStates = {}
  IngestBound = 3
  DispatchBound = 9
  MaxRounds = 3
  WallBudget = FALSE
CHECK_DEADLOCK FALSE
PROPERTY ConflictMeansOverlap
