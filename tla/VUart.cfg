SPECIFICATION Spec
CONSTANTS
  BufLen = 8
  Lengths = {1, 3}
  Window = 2
  MaxCommands = 2
  MaxFaults = 0
  MaxReboots = 0
INVARIANT BytesKept
CHECK_DEADLOCK FALSE
