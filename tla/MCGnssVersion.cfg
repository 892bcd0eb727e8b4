\* docs/M10_design.md:26-28 against the order of app_m10.c:223-230.
CONSTANTS
  MaxReq = 1
  MaxReboots = 0
  MaxStream = 3
  MaxPending = 1
  DrainMax = 2
  ReadMax = 2
  Env = {}
SPECIFICATION Spec
INVARIANTS
  VersionReplyAlone
CHECK_DEADLOCK FALSE
