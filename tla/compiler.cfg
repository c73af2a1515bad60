SPECIFICATION Spec
CONSTANTS
  Word <- MCWord
  Document <- MCDocument
  Parent <- MCParent
INVARIANTS Actionable NothingLost 
CHECK_DEADLOCK FALSE
