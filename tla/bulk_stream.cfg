\* Every interleaving of application, stack and frame handler, on one core or
\* two, with and without calls that overlap.
SPECIFICATION FairSpec
INVARIANTS
  FrameKeepsOff
  CallsKeepOff
  ExclusiveOwner
  AttachedToBulkIn
  LossReported
PROPERTIES
  DetachedBeforeSetup
  StopHonoured
