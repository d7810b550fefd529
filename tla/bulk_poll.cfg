\* Four IN tokens over a bus that loses tokens, packets and ACKs.
SPECIFICATION Spec
CONSTANTS
  EpSize = 1
  Capacity = 1
  Total = 2
  MaxRetry = 3
  BurstMax = 1
  PidDamage = FALSE
  PollLimit = 4
INVARIANTS
  DeliveredOnce
  SnapshotConsistent
CHECK_DEADLOCK FALSE
