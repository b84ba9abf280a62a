SPECIFICATION FairSpec
CONSTANTS
  Pages = 2
  Pixels = {x, y}
  Configs = {c1, c2}
  None = None
  Garbled = Garbled
  MaxFaults = 2
INVARIANTS
  Woken
  SentIsShown
  FrameWhole
PROPERTIES
  PanelCatchesUp
