\* A stream of packets of one byte through a ring of 8 to the microphone example.
SPECIFICATION FairSpec
CONSTANTS
  Size = 8
  MaxSilent = 2
  MaxLen = 1
  BufLen = 5
  Ids = 3
INVARIANTS
  GapsMarked
  NeverQueuedTwice
PROPERTIES
  SilentTransferFails
