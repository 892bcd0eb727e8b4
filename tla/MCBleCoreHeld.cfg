\* ble_core.h:30 against ble_core.c:224-227.
CONSTANTS
  MaxConns = 2
  Lengths = {14, 21}
  UintSize = 65536
  AdvMayFail = FALSE
SPECIFICATION Spec
INVARIANTS
  HeldIsReferenced
CHECK_DEADLOCK FALSE
