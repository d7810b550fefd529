\* Two ports, the device at the second, and one pool entry, every kind of transfer and
\* of reply: control (SETUP, IN and OUT) and a periodic IN endpoint, transfers of two
\* packets.
SPECIFICATION Spec
CONSTANTS
  PortCnt = 2
  PoolCnt = 1
  MaxRetry = 2
  DevAddrs = {1}
  Descs <- ControlAndIn
  Lens = {3}
  Replies = {"DATA0", "DATA1", "ACK", "NAK", "STALL", "NONE"}
  RxLens = {1, 2}
  Lines <- SecondPort
  SameCore = TRUE
  Disciplined = TRUE
INVARIANTS
  TypeOK
  Accounted
  AbortedOnce
  TransactionOwned
  NothingLeftOver
  ProgressInBounds
  EncodedInSync
  FlagsScoped
  ConnectEventCurrent
PROPERTIES
  DisconnectRetires
