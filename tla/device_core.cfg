\* Every kind of request, endpoint 0 alone or with endpoint 1 polled, a host
\* that waits for the task before it sends SETUP and OUT data.
SPECIFICATION FairSpec
CONSTANTS
  Requests <- Either
  DescLen <- Lengths
  ReportRoom = 1
  Address = 1
  EpSize = 2
  Patient = TRUE
INVARIANTS
  TypeOK
  AnswersRequest
  StartsWithData1Alone
  AddressAgreed
  ReportStored
PROPERTIES
  TransferEnds
