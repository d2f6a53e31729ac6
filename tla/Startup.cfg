SPECIFICATION Spec
CONSTANTS
  CommandLines <- MCCommandLines
  Files <- MCFiles
  Numbers <- MCNumbers
  IntMax = 8191
  Boards <- MCBoards
  MaxDecoders = 2
INVARIANTS
  TypeOK
  CliWins
  ParseInv
  FilterFollowsConfig
  ChosenOutput
  DisplayObjects
  BackgroundBehind
  DisplayInv
CHECK_DEADLOCK FALSE
