\* Two clients, three descriptor numbers (0 is a valid one), two ports.
SPECIFICATION Spec
CONSTANTS
  c1 = c1
  c2 = c2
  Clients = {c1, c2}
  Handles <- MCHandles
  Hosts = {"a"}
  Ports <- MCPorts
  NoHandle <- MCNoHandle
  NoHost = ""
SYMMETRY ClientSymmetry
INVARIANTS
  SoleOwner
  NoLeak
  RightPeer
  CleanBeforeWrite
PROPERTIES
  ForeignUntouched
  KeepsOnlyItsOwn
CHECK_DEADLOCK FALSE
