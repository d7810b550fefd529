\* A host's transactions with a device whose packets may be damaged, cut, late or endless.
SPECIFICATION FairSpec
CONSTANTS
  Payloads <- SomePayloads
  ReplyPids = {195, 75}
  MaxPayload = 1
  Addresses <- SomeAddresses
  SofCounts = {2047}
  EarlyBits <- SomeEarlyBits
  Damage = {1}
  FifoDepth = 1
INVARIANTS
  TypeOK
  OwnPacketUnheard
  WholeReplies
  AcceptedIsSent
  LineSound
PROPERTIES
  TransactionEnds
