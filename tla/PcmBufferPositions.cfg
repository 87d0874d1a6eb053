SPECIFICATION BSpec
CONSTANTS
  Blocksize0 = 4
  Blocksize1 = 8
  BufLen = 60
  MaxPos = 6
  MaxAnnounced = 6
  FlagsAgree = FALSE
  NoWindow = NoWindow
CHECK_DEADLOCK FALSE
INVARIANTS
  TypeOK
PROPERTIES
  TotalFollowsPositions
