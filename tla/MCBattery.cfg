\* The real delays, in seconds; voltages around both thresholds and between.
CONSTANTS
  First       = 1
  Interval    = 300
  Latency     = 2
  Pins        = {0, 1, 1649, 1650, 1651, 1655,
                 1875, 2099, 2100, 2101, 2102, 3599}
  MaxFailures = 2
SPECIFICATION Spec
CHECK_DEADLOCK FALSE
INVARIANTS
  TypeOK
  LevelFresh
  LevelFaithful
