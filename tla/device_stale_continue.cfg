\* The host polls endpoint 1 while a request is answered on endpoint 0.
SPECIFICATION Spec
CONSTANTS
  Requests <- Polled
  DescLen <- Lengths
  ReportRoom = 1
  Address = 1
  EpSize = 2
  Patient = TRUE
INVARIANTS
  StartsWithData1
