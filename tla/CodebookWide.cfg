SPECIFICATION CSpec
CONSTANTS
  WordLen = 5
  MaxEntries = 4
  MaxUnused = 0
  Dimensions = {5}
CHECK_DEADLOCK FALSE
INVARIANTS
  GreatestRoot
