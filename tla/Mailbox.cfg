SPECIFICATION Spec

CONSTANTS
  Duties = {40, 80}
  Bios = Bios
  Zero = 0
  Noise = 1

INVARIANT QuietWhileBusy
INVARIANT VerifiedPairs
PROPERTY CallReturns
PROPERTY ImplementsEcService
