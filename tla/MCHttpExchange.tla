---------------------------- MODULE MCHttpExchange ----------------------------
(* HttpExchange on a small instance: two requests, so that the second meets  *)
(* what the first left behind, with bodies of up to two units, so that each  *)
(* can be cut before and in its body, on a connection that holds one unit.   *)
EXTENDS HttpExchange
===============================================================================
