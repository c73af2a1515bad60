SPECIFICATION Spec
CONSTANTS
  a = a  b = b  c = c  g1 = g1  g2 = g2
  Outside = outside
  Task = {a, b}
  Deps <- ChainDeps
  Rank <- MCRank
  Depth <- ChainDepth
  Gate = {g1}
  Required = {g1}
  Blames <- MCBlames
  MaxAttempts = 2
  DefaultAttempts = 2
  MaxDispatches = 2
  Edited = {a}
  CommitStates = {"dispatched"}
  IngestBound = 2
  DispatchBound = 3
INVARIANTS TypeOK ValidPartialSystem BranchRestsOnDeps SandboxOnTaskBranch
PROPERTIES  ReadyOnlyWhenDepsMerged AdmissionSpec
