SPECIFICATION FairSpec
CONSTANTS
  Procs = {p1, p2, p3}
  None = None
INVARIANTS
  InstanceInv
  SequentialInstance
PROPERTIES
  StaleFileHarmless
  Decided
CHECK_DEADLOCK FALSE
