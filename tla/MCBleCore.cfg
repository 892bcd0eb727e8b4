CONSTANTS
  MaxConns = 3
  Lengths = {14, 21}
  UintSize = 65536
  AdvMayFail = TRUE
SPECIFICATION FairSpec
INVARIANTS
  TypeOK
  ConnTracked
  FlagIsSubscription
  FitsMtu
PROPERTIES
  AlwaysReachable
  FixesReachPhone
CHECK_DEADLOCK FALSE
