SPECIFICATION Spec

CONSTANTS
  Sets = {1, 2, 3}
  Smart = {2}

INVARIANT SamplesFitConfiguration
INVARIANT NothingLeftRunning
PROPERTY OneReadAtATime
PROPERTY StopEnds
CHECK_DEADLOCK FALSE
