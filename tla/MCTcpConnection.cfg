\* The clock goes beyond every deadline: 2 ticks/ms * 3 ms + 2.
SPECIFICATION FairSpec
CONSTANTS
  Timeouts = {0, 2, 3}
  Sizes = {0, 1, 2}
  EndpointLists <- MCEndpointLists
  Ms = 2
  MaxPoll = 2
  MaxElapsed = 8
INVARIANTS
  TypeOK
  BlockingBetweenCalls
  FailureCloses
  SuccessIsWhole
  WaitsEndOnTime
  TimeoutsNotEarly
  ConnectTriesAll
PROPERTIES
  CallsReturn
CHECK_DEADLOCK FALSE
