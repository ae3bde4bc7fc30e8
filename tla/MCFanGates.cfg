SPECIFICATION Spec

CONSTANTS
  cpufan = cpufan
  sysfan = sysfan
  cpu = cpu
  disk = disk
  Fans = {cpufan, sysfan}
  Sources = {cpu, disk}
  Lower = 30
  Upper = 100
  StaleAfter <- MCStaleAfter
  Temps = {1, 3}
  Settings <- MCSettings
  AgeCap = 3

INVARIANT TypeOK
INVARIANT GateTracksDuty
PROPERTY RiseIsEarned
PROPERTY LoweringIsEarned
PROPERTY BoostIsImmediate
PROPERTY RiseHappens
PROPERTY LoweringHappens
CHECK_DEADLOCK FALSE
