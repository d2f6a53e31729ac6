SPECIFICATION Spec
CONSTANTS
  ModeW = 16
  ModeH = 9
  Sizes <- MCSizes
  Slots = {1, 2}
  MaxGroups = 3
INVARIANTS
  TypeOK
  WholePicture
  Letterboxed
  PlaneInv
CHECK_DEADLOCK FALSE
