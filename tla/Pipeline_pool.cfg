SPECIFICATION FairSpec
CONSTANTS
  Signals = {"INT"}
  MaxSignals = 1
  MaxSeconds = 0
  PoolMax = 1
  MaxPackets = 2
  MayFail = {}
  MayError = TRUE
  BusFirst = {"boot"}
  Flowing = {"playing"}
PROPERTIES
  ErrorHandled
CHECK_DEADLOCK FALSE
