SPECIFICATION FairSpec
CONSTANTS
  Networks = {n1}
  CounterMax = 1
  MaxWifiCommands = 2
  MaxDrops = 1
  MaxWifiFaults = 0
  Codes = {c1}
  Names = {a}
  Hosts = {h}
  LongHosts = {}
  DefaultHost = default
  Spent = Spent
  MaxCloudCommands = 2
  MaxCloudFaults = 0
  None = None
  MaxReboots = 1
PROPERTIES
  CloudSpec
  BackOnline
  CodeGetsThrough
