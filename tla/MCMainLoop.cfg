\* One unit of time is 40 ms, the greatest common divisor of the code's delays:
\* 1PPS every 1 s, 200 ms to the poll, 3 s and 1 s of pvt_timer, 880 ms of update.
CONSTANTS
  PpsPeriod  = 25
  PvtDelay   = 5
  FirstPoll  = 75
  PollPeriod = 25
  MaxUpdate  = 22
SPECIFICATION FairSpec
INVARIANTS
  TypeOK
  BoundedSilence
  LedShowsPoll
  OneEventPerWakeup
PROPERTIES
  PollsForever
