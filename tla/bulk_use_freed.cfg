\* The application stops and frees its ring while the stack closes the endpoint.
SPECIFICATION Spec
INVARIANTS
  RingOutlivesCalls
