\* Two pool entries, two devices on one port, which never answer: entries that are
\* searched, closed one by one, reused and visited in one frame.
SPECIFICATION FairSpec
CONSTANTS
  PortCnt = 1
  PoolCnt = 2
  MaxRetry = 2
  DevAddrs = {1, 2}
  Descs <- OneOut
  Lens = {0}
  Replies = {"NONE"}
  RxLens = {0}
  Lines <- FirstPort
  SameCore = TRUE
  Disciplined = TRUE
INVARIANTS
  OneSlotPerAddress
PROPERTIES
  SilentDeviceRetires
  LineNoticed
