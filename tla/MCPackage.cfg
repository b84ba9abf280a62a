SPECIFICATION Spec
CONSTANTS
  Listeners = {uart, websocket}
  Size = 6
  EraseSize = 2
  ChunkLen = 3
  Lengths = {3, 5, 7}
  None = None
  Erased = Erased
  Garbled = Garbled
  Foreign = Foreign
  MaxCommands = 3
  MaxReboots = 1
  MaxFaults = 1
INVARIANTS
  WrittenInOrder
  LoadedIsStored
  StoredIsLoaded
PROPERTIES
  UploadSucceeds
