\* Every sequence of calls that leaves up to three fields and parameters.
SPECIFICATION Spec
CONSTANTS
  Words <- MCWords
  Forbidden = {"ctl "}
  Escaped = {"%41", "%2541", "%26", "%3D", "%3F", "%"}
  BadEscapes = {"%"}
  PortOf <- MCPortOf
  Literals <- MCLiterals
  Urls <- MCUrls
  Fields <- MCFields
  Folded <- MCFolded
  BadNames = {"X Y"}
  BadValues = {"ctl "}
  LengthOf <- MCLengthOf
  Params <- MCParams
  EncodedOf <- MCEncodedOf
  Sizes = {0, 2}
  SchemeWords = {"http"}
  Locations = {}
  MaxCalls = 3
INVARIANTS
  ServerReadsOneMessage
  QueryReadsBack
  RedirectBaseIsWhatWasSent
CHECK_DEADLOCK FALSE
