\* A chain of one redirect: the next starts from a URL that was parsed again.
SPECIFICATION Spec
CONSTANTS
  Words <- MCWords
  Forbidden = {"sp "}
  Escaped = {"%41", "%2F", "%"}
  BadEscapes = {"%"}
  PortOf <- MCPortOf
  Literals <- MCLiterals
  Urls <- MCUrls
  Locations <- MCLocations
  SchemeWords <- MCSchemeWords
  Fields = {}
  Folded <- MCFolded
  BadNames = {}
  BadValues = {}
  LengthOf <- MCLengthOf
  Params <- MCParams
  EncodedOf <- MCEncodedOf
  Sizes = {0}
  MaxCalls = 1
INVARIANTS
  ParsesTheGrammar
  ResolvesAsRfc3986
CHECK_DEADLOCK FALSE
