SPECIFICATION FairSpec
CONSTANTS
  Listeners = {uart, websocket}
  Size = 4
  SectorLen = 2
  Lengths = {3, 5}
  None = None
  Erased = Erased
  Garbled = Garbled
  Foreign = Foreign
  MaxCommands = 3
  MaxReboots = 1
  MaxFaults = 1
INVARIANTS
  Bootable
  FallbackKept
  HandlesHeld
PROPERTIES
  UpdateSpec
  UpdateBoots
  UpdateConfirmed
CHECK_DEADLOCK FALSE
