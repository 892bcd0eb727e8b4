\* A receiver that answers in time; it may refuse the configuration, and the
\* reset pulse may fail: a restarted tracker then meets it with its settings
\* and with answers from before the restart.
CONSTANTS
  MaxReq = 3
  MaxReboots = 1
  MaxStream = 5
  MaxPending = 2
  DrainMax = 3
  ReadMax = 3
  Env = {"nak", "noReset"}
SPECIFICATION Spec
INVARIANTS
  TypeOK
  FreshFix
  SilentOnceAcked
  ConfiguredPollsSucceed
CHECK_DEADLOCK FALSE
