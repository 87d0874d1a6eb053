SPECIFICATION RSpec
CONSTANTS
  Serials = {s1, s2}
  Laps = {1, 2}
  MaxPages = 5
  MaxPackets = 8
  MaxGranule = 3
CHECK_DEADLOCK FALSE
INVARIANTS
  RTypeOK
  PushesAreRegistered
  DecodersHaveStreams
  PagesEndAtTheirPosition
PROPERTIES
  ImplementsListener
