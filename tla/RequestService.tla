----------------------------- MODULE RequestService -----------------------------
(***************************************************************************)
(* What a Client promises its caller, without connections: the requests    *)
(* are made one after the other; each is sent at most once, and ends with  *)
(* an error or with the answer to this very request.  There is no hidden   *)
(* retry (docs/getting-started.md), and no late answer to an earlier       *)
(* request is taken for the answer to a later one.                         *)
(***************************************************************************)
EXTENDS Integers

CONSTANT Requests   \* the numbers of the requests, in their order

VARIABLES
  sent,     \* sent[n]: how often request n was sent
  outcome   \* outcome[n]: "none" until the call has returned

Init ==
  /\ sent    = [n \in Requests |-> 0]
  /\ outcome = [n \in Requests |-> "none"]

\* The call of request n is the one that may be under way.
Current(n) ==
  /\ outcome[n] = "none"
  /\ \A m \in Requests : m < n => outcome[m] # "none"

Send(n) ==
  /\ Current(n) /\ sent[n] = 0
  /\ sent' = [sent EXCEPT ![n] = 1]
  /\ UNCHANGED outcome

Answer(n) ==
  /\ Current(n) /\ sent[n] = 1
  /\ outcome' = [outcome EXCEPT ![n] = "own"]
  /\ UNCHANGED sent

Fail(n) ==
  /\ Current(n)
  /\ outcome' = [outcome EXCEPT ![n] = "error"]
  /\ UNCHANGED sent

Next == \E n \in Requests : Send(n) \/ Answer(n) \/ Fail(n)

Spec == Init /\ [][Next]_<<sent, outcome>>
===============================================================================
