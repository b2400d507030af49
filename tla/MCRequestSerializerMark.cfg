\* The calls of the other configuration; one parameter is enough.
SPECIFICATION Spec
CONSTANTS
  Words <- MCWords
  Forbidden = {"ctl "}
  Escaped = {"%41", "%2541", "%26", "%3D", "%3F", "%"}
  BadEscapes = {"%"}
  PortOf <- MCPortOf
  Literals <- MCLiterals
  Urls <- MCUrls
  Fields <- MCFields
  Folded <- MCFolded
  BadNames = {"X Y"}
  BadValues = {"ctl "}
  LengthOf <- MCLengthOf
  Params <- MCParams
  EncodedOf <- MCEncodedOf
  Sizes = {0, 2}
  SchemeWords = {"http"}
  Locations = {}
  MaxCalls = 1
INVARIANTS
  ParametersAreAppended
CHECK_DEADLOCK FALSE
