SPECIFICATION BSpec
CONSTANTS
  Blocksize0 = 4
  Blocksize1 = 8
  BufLen = 60
  MaxPos = 64
  MaxAnnounced = 0
  FlagsAgree = TRUE
  NoWindow = NoWindow
CHECK_DEADLOCK FALSE
INVARIANTS
  InBounds
  Reconstruction
