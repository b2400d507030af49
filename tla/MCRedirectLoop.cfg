\* Up to two redirects between two origins.
SPECIFICATION FairSpec
CONSTANTS
  here = here
  there = there
  Origins = {here, there}
  Lengths = {0, 2}
  Fields <- MCFields
  Statuses <- MCStatuses
  MaxLimit = 2
INVARIANTS
  CredentialsConfined
  RedirectsSerialize
  NothingRestored
  HopsBounded
PROPERTIES
  Terminates
CHECK_DEADLOCK FALSE
