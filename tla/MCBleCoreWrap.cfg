\* ble_lns.h:152 against the unsigned mtu - 3U of ble_lns.c:219.
CONSTANTS
  MaxConns = 2
  Lengths = {14, 21}
  UintSize = 65536
  AdvMayFail = FALSE
SPECIFICATION FairSpec
PROPERTIES
  TooLongRefused
CHECK_DEADLOCK FALSE
