\* docs/M10_design.md:37-41 against the ticks thrown away by main.c:84.
\* One unit of time is 200 ms, an update is shorter than the second.
CONSTANTS
  PpsPeriod  = 5
  PvtDelay   = 1
  FirstPoll  = 15
  PollPeriod = 5
  MaxUpdate  = 4
SPECIFICATION TickSpec
PROPERTIES
  EveryTickServed
