SPECIFICATION FairSpec
CONSTANTS
  Requests <- WideRequests
  Timings <- MCTimings
  MaxLeds = 6
  Word = 256
  NodemConfigs <- MCNodemConfigs
  DefaultIled <- MCDefaultIled
  DefaultNodem <- MCDefaultNodem
  Contents = {"corner", "rest"}
  Drawn <- MCDrawn
  None = None
  Malformed = Malformed
  MaxFaults = 2
  MaxCommands = 3
  MaxReboots = 1
INVARIANT
  NeverTooLong
