SPECIFICATION FairSpec
CONSTANTS
  Signals = {"INT", "HUP"}
  MaxSignals = 2
  MaxSeconds = 0
  PoolMax = 1
  MaxPackets = 0
  MayFail = {}
  MayError = FALSE
  BusFirst = {"boot"}
  Flowing = {"playing"}
PROPERTIES
  ExitHonoured
CHECK_DEADLOCK FALSE
