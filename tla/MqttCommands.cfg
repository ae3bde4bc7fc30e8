SPECIFICATION Spec

CONSTANTS
  QueueLimit = 1
  ResultLimit = 2
  IdLimit = 1
  Batch = 2
  MaxMid = 2
  MaxCopies = 4
  MaxFaults = 1

PROPERTY EveryCommandEnds
INVARIANT DuplicatesRecognised
CHECK_DEADLOCK FALSE
