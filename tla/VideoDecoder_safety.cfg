SPECIFICATION Spec
CONSTANTS
  NumSlots = 2
  InCap = 2
  MaxFrames = 3
  MaxInfoChanges = 2
  MaySetupFail = TRUE
INVARIANTS
  TypeOK
  ThreadsOwnResources
  SlotsOwnKernelObjects
  CommitsLiveFramebuffer
  DecoderInv
PROPERTY
  ImplementsLatestFrame
