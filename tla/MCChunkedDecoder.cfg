\* Every stream of up to eight bytes of an alphabet of eight, fed byte by byte.
SPECIFICATION FairSpec
CONSTANTS
  Segments <- ShortSegments
  MaxFed = 8
  MaxChunkLineBytes = 2
  MaxTrailerBytes = 4
  MaxBodyBytes = 2
  SizeMax = 20
INVARIANTS
  BufferBounded
  SameAsInOnePiece
PROPERTIES
  ProcessReturns
CHECK_DEADLOCK FALSE
