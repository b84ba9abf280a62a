SPECIFICATION FairSpec
CONSTANTS
  BufLen = 4
  Lengths = {1, 2, 3, 5}
  Window = 1
  MaxCommands = 3
  MaxFaults = 2
  MaxReboots = 1
INVARIANTS
  InStep
  OnceInOrder
PROPERTIES
  KeepsReading
CHECK_DEADLOCK FALSE
