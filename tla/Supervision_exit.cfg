SPECIFICATION SafetySpec

CONSTANTS
  Service = {1, 2}
  ByHand = {}
  Pids = {11, 12}

PROPERTY FaultExitsWith75
