\* Delays in units of 200 ms, an update rounded down to 800 ms.
CONSTANTS
  PpsPeriod  = 5
  PvtDelay   = 1
  FirstPoll  = 15
  PollPeriod = 5
  MaxUpdate  = 4
  MaxConns   = 2
  Lengths    = {21}
  UintSize   = 65536
  AdvMayFail = TRUE
SPECIFICATION Spec
INVARIANTS
  HeardInTime
CHECK_DEADLOCK FALSE
