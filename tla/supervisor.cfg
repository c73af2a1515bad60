SPECIFICATION Spec
CONSTANTS
  PipeSize = 2
  QueueBound = 2
CHECK_DEADLOCK FALSE
INVARIANTS TypeOK NeverLeaked 
PROPERTIES WaitEnds 
