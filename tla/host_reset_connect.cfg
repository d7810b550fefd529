\* A device is plugged in between the two halves of port_reset_end.
SPECIFICATION Spec
CONSTANTS
  PortCnt = 1
  PoolCnt = 1
  MaxRetry = 2
  DevAddrs = {1}
  Descs <- OneOut
  Lens = {0}
  Replies = {"ACK", "NAK", "NONE"}
  RxLens = {0}
  Lines <- FirstPort
  SameCore = TRUE
  Disciplined = TRUE
INVARIANTS
  ResetBeforeUse
