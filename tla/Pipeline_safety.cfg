SPECIFICATION Spec
CONSTANTS
  Signals = {"INT", "TERM", "HUP", "USR1", "USR2"}
  MaxSignals = 2
  MaxSeconds = 1
  PoolMax = 1
  MaxPackets = 2
  MayFail = {"card", "wire", "udp", "playing", "decoder", "worker"}
  MayError = TRUE
  BusFirst = {}
  Flowing = {"playing"}
INVARIANTS
  TypeOK
  ThreadsOutlived
  RecordersAccounted
  RecordingFollowsConfig
  OrderlyExit
  RequestHonoured
  PipelineInv
CHECK_DEADLOCK FALSE
