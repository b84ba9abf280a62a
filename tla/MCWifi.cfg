SPECIFICATION FairSpec
CONSTANTS
  Networks = {n1, n2}
  Clients = {client}
  None = None
  CounterMax = 2
  MaxCommands = 3
  MaxDrops = 1
  MaxReboots = 1
  MaxFaults = 1
INVARIANTS
  AppliedOrPending
  CountersCurrent
PROPERTIES
  EventuallyOnline
CHECK_DEADLOCK FALSE
