SPECIFICATION LSpec
CONSTANTS
  Callers = {c1, c2}
  Nobody = Nobody
  PipeSize = 1
  BufSize = 2
  MaxPushes = 3
CHECK_DEADLOCK FALSE
INVARIANTS
  ErrorIsOwn
