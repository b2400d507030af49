---------------------------- MODULE MCTcpConnection ----------------------------
(* Half-millisecond ticks, timeouts up to and above what one poll can wait     *)
(* for, up to two endpoints.                                                  *)
EXTENDS TcpConnection

MCEndpointLists == {<<>>, <<TRUE>>, <<FALSE>>, <<TRUE, TRUE>>, <<FALSE, TRUE>>}
===============================================================================
