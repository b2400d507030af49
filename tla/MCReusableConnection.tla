------------------------- MODULE MCReusableConnection -------------------------
(* Two clients that share three descriptor numbers, two origins that differ *)
(* in the port, and the rest of the program.                                *)
EXTENDS ReusableConnection, TLC

CONSTANTS c1, c2

MCHandles == 0..2
MCPorts   == {80, 81}
MCNoHandle == -1
ClientSymmetry == Permutations(Clients)
===============================================================================
