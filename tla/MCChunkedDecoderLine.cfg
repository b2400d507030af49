\* A size line of exactly the limit, its CRLF cut in two.
SPECIFICATION Spec
CONSTANTS
  Segments <- ShortSegments
  MaxFed = 4
  MaxChunkLineBytes = 2
  MaxTrailerBytes = 4
  MaxBodyBytes = 2
  SizeMax = 20
INVARIANTS
  LineLimitExcludesCrlf
CHECK_DEADLOCK FALSE
