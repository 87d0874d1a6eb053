SPECIFICATION BSpec
CONSTANTS
  Blocksize0 = 4
  Blocksize1 = 16
  BufLen = 100
  MaxPos = 96
  MaxAnnounced = 0
  FlagsAgree = TRUE
  NoWindow = NoWindow
CHECK_DEADLOCK FALSE
INVARIANTS
  NoInternalCheckFails
  Reconstruction
PROPERTIES
  ImplementsLapping
