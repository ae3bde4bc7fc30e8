SPECIFICATION Spec

CONSTANTS
  Service = {1, 2, 3}
  ByHand = {4}
  Pids = {11, 12}

INVARIANT FileIsHolders
INVARIANT HealthyHoldsSlot
PROPERTY KillsTheJudged
PROPERTY HungIsKilled
