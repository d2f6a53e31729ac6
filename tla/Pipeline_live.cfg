SPECIFICATION FairSpec
CONSTANTS
  Signals = {"INT", "HUP"}
  MaxSignals = 2
  MaxSeconds = 0
  PoolMax = 1
  MaxPackets = 2
  MayFail = {"decoder", "recorder"}
  MayError = TRUE
  BusFirst = {"boot", "restart"}
  Flowing = {"playing", "halted"}
PROPERTIES
  ExitHonoured
  ErrorHandled
  RestartServed
