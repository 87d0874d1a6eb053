SPECIFICATION ASpec
CONSTANTS
  Passes = 2
  AudioChannels = 3
  FloorBits = 2
  BadCurves = {3}
  Codebooks <- MCCodebooks
  Blocksize <- MCBlocksize
  Setups <- MCSeveral
  Packets <- MCPackets
  Noise = {}
  Cuts = {0}
  Widths = {1}
CHECK_DEADLOCK FALSE
INVARIANT WithinLimit
