\* Everything goes wrong but the reset pulse.
CONSTANTS
  MaxReq = 2
  MaxReboots = 1
  MaxStream = 5
  MaxPending = 2
  DrainMax = 2
  ReadMax = 2
  Env = {"late", "split", "lost", "nak", "readErr", "writeErr"}
SPECIFICATION Spec
INVARIANTS
  AcceptedIsPvt
  SilentOnceAcked
PROPERTIES
  FixesAreAnswers
  PollsEnd
CHECK_DEADLOCK FALSE
