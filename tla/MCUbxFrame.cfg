\* Four values per byte; a buffer that one of the frames just fills.
CONSTANTS
  Byte    = 4
  Sync1   = 3
  Sync2   = 1
  Class   = 1
  Id      = 2
  Lengths = {0, 1, 2, 3, 4}
  BufSize = 12
SPECIFICATION Spec
CHECK_DEADLOCK FALSE
INVARIANTS
  TypeOK
  AcceptedIffIntact
