\* Streams of up to five units, both for HEAD and for the other methods.
SPECIFICATION FairSpec
CONSTANTS
  Heads <- MCHeads
  Segments <- MCSegments
  MaxFed = 5
  MaxHeadBytes = 2
  MaxBodyBytes = 2
INVARIANTS
  WholeMessage
  ReusableIsSelfDelimiting
  EofNeverTruncates
  NoForbiddenContent
  BodyBounded
PROPERTIES
  FeedReturns
CHECK_DEADLOCK FALSE
