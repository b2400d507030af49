SPECIFICATION FairSpec
CONSTANTS
  MaxRequests = 2
  MaxUnits = 2
  MaxInterim = 2
  Capacity = 1
INVARIANTS
  TypeOK
  RequestsStayWhole
  WholeUnlessReset
PROPERTIES
  ImplementsService
  CallsEnd
\* The client may make no further request, and the server may do nothing.
CHECK_DEADLOCK FALSE
