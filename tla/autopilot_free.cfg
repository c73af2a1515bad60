SPECIFICATION AutoSpec
CONSTANTS
  a = a  b = b  c = c  g1 = g1  g2 = g2
  Outside = outside
  Task = {a, b}
  Deps <- FreeDeps
  Rank <- MCRank
  Depth <- FreeDepth
  Gate = {g1}
  Required = {g1}
  Blames <- MCBlames
  MaxAttempts = 2
  DefaultAttempts = 3
  MaxDispatches = 2
  Edited = {a, b}
  CommitStates = {"dispatched"}
  IngestBound = 3
  DispatchBound = 6
  MaxRounds = 3
  WallBudget = TRUE
CHECK_DEADLOCK FALSE
INVARIANT DispatchOverrun
PROPERTY NoOverlapMerged
