SPECIFICATION Spec
CONSTANTS
  Signals = {"USR1"}
  MaxSignals = 2
  MaxSeconds = 1
  PoolMax = 1
  MaxPackets = 0
  MayFail = {}
  MayError = FALSE
  BusFirst = {"boot"}
  Flowing = {"playing"}
INVARIANTS
  OutputExclusive
CHECK_DEADLOCK FALSE
