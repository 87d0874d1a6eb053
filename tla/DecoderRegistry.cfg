SPECIFICATION DSpec
CONSTANTS
  Threads = {t1, t2}
  Addresses = {a1, a2, a3, a4, a5}
  NoAddress = NoAddress
  MaxAliases = 2
  MaxDecoders = 4
  MaxOutputs = 3
SYMMETRY Symmetry
CHECK_DEADLOCK FALSE
INVARIANTS
  DTypeOK
  PointersStayValid
  AliasesAreLive
  DecodersAreDistinct
  NothingIsLeft
