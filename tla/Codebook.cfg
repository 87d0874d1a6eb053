SPECIFICATION CSpec
CONSTANTS
  WordLen = 5
  MaxEntries = 8
  MaxUnused = 1
  Dimensions = {1, 2, 3, 4}
CHECK_DEADLOCK FALSE
INVARIANTS
  CTypeOK
  PrefixFree
  VerdictIsRight
  FastIsSlow
  GreatestRoot
