SPECIFICATION ASpec
CONSTANTS
  Passes = 2
  AudioChannels = 3
  FloorBits = 2
  BadCurves = {3}
  Codebooks <- MCCodebooks
  Blocksize <- MCBlocksize
  Setups <- MCSetups
  Packets <- MCPackets
  Noise <- MCNoise
  Cuts = {0, 1, 3}
  Widths = {1, 8, 33, 70}
CHECK_DEADLOCK FALSE
INVARIANTS
  ATypeOK
  DecodesWhatWasEncoded
  CouplingIsUndone
  RefusedForAReason
  SilenceIsKept
  WithinLimit
  ReadsAreInOrder
