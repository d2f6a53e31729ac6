SPECIFICATION FairSpec
CONSTANTS
  NumSlots = 1
  InCap = 1
  MaxFrames = 2
  MaxInfoChanges = 2
  MaySetupFail = FALSE
PROPERTIES
  StopCompletes
  PictureShown
