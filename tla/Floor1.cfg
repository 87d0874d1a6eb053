SPECIFICATION FSpec
CONSTANTS
  TableSize = 8
  WordSize = 64
  RangeBits = {2}
  MaxPoints = 4
  Sizes = {2, 6}
  Scalars = {0, 1, 2, 3, 5, 9, 33}
CHECK_DEADLOCK FALSE
INVARIANTS
  FTypeOK
  AmplitudesInRange
  EveryAmplitudeIsReached
  ValidIsDecoded
  CurveIsInterpolated
