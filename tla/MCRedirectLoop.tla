----------------------------- MODULE MCRedirectLoop -----------------------------
(* Two origins and one body length.  Content-Length may come twice, once for *)
(* the body and once for none; Transfer-Encoding stands for the fields the   *)
(* serializer rejects outright.                                              *)
EXTENDS RedirectLoop

CONSTANTS here, there

MCStatuses == {200, 302, 303, 307}
MCFields ==
  {[name |-> n, value |-> 0, at |-> 1] :
      n \in {"Host", "Credential", "Content-Type", "Transfer-Encoding"}}
  \cup {[name |-> "Content-Length", value |-> v, at |-> v] : v \in {0, 2}}
===============================================================================
