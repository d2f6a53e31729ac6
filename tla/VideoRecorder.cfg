SPECIFICATION Spec
CONSTANTS
  Times = {0, 1, 4, 12}
  Second = 10
  Rate = 9
  MaxU32 = 8
  Default = 3
  FpsDurations = {0, 2}
  MaxSamples = 4
INVARIANTS
  TypeOK
  InOrderOnce
  NoSampleLost
  DurationsWritable
  RecorderInv
  MediaTimeFollowsPts
CHECK_DEADLOCK FALSE
