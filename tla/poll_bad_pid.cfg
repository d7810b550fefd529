\* A packet whose PID is damaged and whose CRC is right.
SPECIFICATION Spec
CONSTANTS
  EpSize = 1
  Capacity = 1
  Total = 2
  MaxRetry = 3
  BurstMax = 1
  PidDamage = TRUE
  PollLimit = 4
INVARIANT DeliveredOnce
CHECK_DEADLOCK FALSE
