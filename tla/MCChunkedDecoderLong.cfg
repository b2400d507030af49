\* Streams of up to 18 bytes, several chunks and trailer lines, put together from pieces.
\* Sizes have two bits: the sum of two chunk sizes overflows.
SPECIFICATION Spec
CONSTANTS
  Segments <- LongSegments
  MaxFed = 18
  MaxChunkLineBytes = 2
  MaxTrailerBytes = 6
  MaxBodyBytes = 2
  SizeMax = 3
INVARIANTS
  BodyBounded
  SameAsInOnePiece
CHECK_DEADLOCK FALSE
