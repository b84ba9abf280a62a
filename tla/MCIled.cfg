SPECIFICATION FairSpec
CONSTANTS
  Requests <- MCRequests
  Timings <- MCTimings
  MaxLeds = 6
  Word = 256
  NodemConfigs <- MCNodemConfigs
  DefaultIled <- MCDefaultIled
  DefaultNodem <- MCDefaultNodem
  Contents = {"corner", "rest"}
  Drawn <- MCDrawn
  None = None
  Malformed = Malformed
  MaxFaults = 2
  MaxCommands = 3
  MaxReboots = 1
INVARIANTS
  RateMatches
  SurfaceMatches
  Survives
PROPERTIES
  LedsCatchUp
  GoesDark
