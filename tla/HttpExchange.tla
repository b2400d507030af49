------------------------------ MODULE HttpExchange ------------------------------
(***************************************************************************)
(* Client::execute_once (src/src/core/client.cpp) against a server: the    *)
(* bytes of requests and responses on each connection, and what either     *)
(* side makes of what it has seen of them.  One client makes its requests  *)
(* to one origin, one after the other.                                     *)
(*                                                                         *)
(* The server answers early, late or never, stops reading, closes or       *)
(* resets a connection at any time, sends any number of interim responses  *)
(* before its answer, and may send more than it announced, but no response *)
(* unasked.  A response is parsed as module ResponseParser does it; here   *)
(* it is counted (by Content-Length or chunks) or close-delimited.         *)
(* Deadlines are the subject of module TcpConnection: a call may fail at   *)
(* any time while it writes or reads, and does so when it waits for ever.  *)
(***************************************************************************)
EXTENDS Integers, Sequences, FiniteSets, SequencesExt

CONSTANTS MaxRequests,  \* bound on the requests made, for model checking
          MaxUnits,     \* bound on the units of a body, for model checking
          MaxInterim,   \* bound on the interim heads that wait to be read, likewise
          Capacity      \* units a connection holds before the writer blocks

ASSUME BoundAssumption ==
  /\ MaxRequests \in Nat /\ MaxUnits \in Nat /\ MaxInterim \in Nat
  /\ Capacity \in Nat \ {0}

VARIABLES
  net,      \* the connections opened so far, with the server's side of each
  slot,     \* the kept connection, 0 for none
  pc,       \* where execute_once is
  request,  \* the number of the current request
  conn,     \* the connection the local TcpConnection owns, 0 for none
  unsent,   \* what write_all has still to send
  parser,   \* the local ResponseParser
  result,   \* result[n]: what the call of request n returned
  stream    \* history: stream[k], all that was written on connection k

vars == <<net, slot, pc, request, conn, unsent, parser, result, stream>>

RequestNumbers == 1..MaxRequests
\* No more connections than requests: a call opens one at most.
Connections == 1..Len(net)

\* A request is its head and the units of the body the head announces.
RequestUnits == [kind: {"head", "body"}, req: RequestNumbers, size: 0..MaxUnits]

\* A response is a head and the units of its body, perhaps with something behind
\* that is no response; interim heads may come before it.  Every unit is marked with
\* what the head says, as the server means it.  keep: neither side asks to close.
ResponseUnits == [kind: {"interim", "head", "body", "surplus"}, req: RequestNumbers,
                  size: 0..MaxUnits, counted: BOOLEAN, keep: BOOLEAN]
Fin == [kind |-> "fin"]

\* up and down hold what was sent and not read; reading is the request the server
\* has read of last, answered the one it has answered last.
Network == [up: Seq(RequestUnits), down: Seq(ResponseUnits \cup {Fin}),
            reading: {0} \cup RequestNumbers, answered: {0} \cup RequestNumbers,
            server: {"open", "closed", "reset", "gone"}]
NewConnection == [up |-> <<>>, down |-> <<>>, reading |-> 0, answered |-> 0,
                  server |-> "open"]

Answers  == [req: {0} \cup RequestNumbers, size: 0..MaxUnits, counted: BOOLEAN,
             keep: BOOLEAN, body: Seq(RequestNumbers)]
NoAnswer == [req |-> 0, size |-> 0, counted |-> FALSE, keep |-> FALSE, body |-> <<>>]

Parsers   == [stage: {"head", "counted", "close", "complete", "error"},
              answer: Answers, pending: BOOLEAN]
NewParser == [stage |-> "head", answer |-> NoAnswer, pending |-> FALSE]

Results  == [kind: {"none", "error", "response"}, answer: Answers]
NoResult == [kind |-> "none", answer |-> NoAnswer]

\* A connection is held exactly while it is used, and never also in the slot.
TypeOK ==
  /\ net \in Seq(Network) /\ Len(net) <= MaxRequests
  /\ slot \in {0} \cup Connections /\ conn \in {0} \cup Connections
  /\ pc \in {"idle", "acquire", "write", "read", "decide"}
  /\ conn # 0 <=> pc \in {"write", "read", "decide"}
  /\ conn # 0 => slot = 0
  /\ request \in {0} \cup RequestNumbers
  /\ unsent \in Seq(RequestUnits)
  /\ parser \in Parsers
  /\ result \in [RequestNumbers -> Results]
  /\ stream \in Seq(Seq(RequestUnits)) /\ Len(stream) = Len(net)

Init ==
  /\ net = <<>> /\ stream = <<>>
  /\ slot = 0 /\ conn = 0 /\ request = 0
  /\ pc = "idle" /\ unsent = <<>> /\ parser = NewParser
  /\ result = [n \in RequestNumbers |-> NoResult]

-------------------------------------------------------------------------------
(* The parser.                                                             *)

ParseUnit(p, u) ==
  CASE p.stage \in {"error", "complete"} -> [p EXCEPT !.pending = TRUE]
    [] p.stage = "head" /\ u.kind = "interim" -> p
    [] p.stage = "head" /\ u.kind = "surplus" -> [p EXCEPT !.stage = "error"]
    [] p.stage = "head" /\ u.kind = "head" ->
         [p EXCEPT !.stage  = IF ~u.counted THEN "close"
                              ELSE IF u.size = 0 THEN "complete" ELSE "counted",
                   !.answer = [req |-> u.req, size |-> u.size, counted |-> u.counted,
                               keep |-> u.keep, body |-> <<>>]]
    [] OTHER ->
         [p EXCEPT !.stage = IF /\ p.stage = "counted"
                                /\ Len(p.answer.body) + 1 = p.answer.size
                               THEN "complete" ELSE p.stage,
                   !.answer.body = Append(@, u.req)]

\* feed
Parse(p, units) ==
  LET parsed[i \in 0..Len(units)] ==
        IF i = 0 THEN p ELSE ParseUnit(parsed[i - 1], units[i])
  IN parsed[Len(units)]

-------------------------------------------------------------------------------
(* execute_once.                                                           *)

\* A connection the client has closed; that it was reset is remembered.
Closed(k) == [net EXCEPT ![k] = [NewConnection EXCEPT
                !.server = IF net[k].server = "reset" THEN "reset" ELSE "gone"]]

Return(r) ==
  /\ pc' = "idle" /\ conn' = 0
  /\ result' = [result EXCEPT ![request] = r]
  /\ unsent' = <<>> /\ parser' = NewParser

Error       == [kind |-> "error", answer |-> NoAnswer]
Response(a) == [kind |-> "response", answer |-> a]

Begin(size) ==
  /\ pc = "idle" /\ request < MaxRequests
  /\ request' = request + 1
  /\ LET unit(kind) == [kind |-> kind, req |-> request + 1, size |-> size]
     IN unsent' = <<unit("head")>> \o [i \in 1..size |-> unit("body")]
  /\ pc' = "acquire"
  /\ UNCHANGED <<net, slot, conn, parser, result, stream>>

\* The kept connection is used as it is, whatever has become of it.
Adopt ==
  /\ pc = "acquire" /\ slot # 0
  /\ conn' = slot /\ slot' = 0
  /\ pc' = "write"
  /\ UNCHANGED <<net, request, unsent, parser, result, stream>>

Connect ==
  /\ pc = "acquire" /\ slot = 0
  /\ net' = Append(net, NewConnection) /\ stream' = Append(stream, <<>>)
  /\ conn' = Len(net) + 1
  /\ pc' = "write"
  /\ UNCHANGED <<slot, request, unsent, parser, result>>

\* Fault: the error is not looked at.
ConnectErrorIgnored ==
  /\ pc = "acquire" /\ slot = 0
  /\ pc' = "write"
  /\ UNCHANGED <<net, slot, request, conn, unsent, parser, result, stream>>

ConnectFails ==
  /\ pc = "acquire" /\ slot = 0
  /\ Return(Error)
  /\ UNCHANGED <<net, slot, request, stream>>

\* ::send takes what the connection has room for; a server that has closed does
\* not keep it from succeeding.
Write ==
  /\ pc = "write" /\ conn # 0
  /\ net[conn].server # "reset" /\ Len(net[conn].up) < Capacity
  /\ net'    = [net EXCEPT ![conn] = [net[conn] EXCEPT !.up = Append(@, Head(unsent))]]
  /\ stream' = [stream EXCEPT ![conn] = Append(@, Head(unsent))]
  /\ unsent' = Tail(unsent)
  /\ pc' = IF Tail(unsent) = <<>> THEN "read" ELSE "write"
  /\ UNCHANGED <<slot, request, conn, parser, result>>

\* Fault: a timeout returns the connection to the slot.
IoFailsKeeps ==
  /\ pc \in {"write", "read"}
  /\ slot' = conn
  /\ Return(Error)
  /\ UNCHANGED <<net, request, stream>>

\* Fault: when the body cannot be written, an early answer is still read.
IoFailsReadsOn ==
  /\ pc = "write"
  /\ pc' = "read" /\ unsent' = <<>>
  /\ UNCHANGED <<net, slot, request, conn, parser, result, stream>>

\* write_all or read_some fails or runs out of time, and closes.
IoFails ==
  /\ pc \in {"write", "read"}
  /\ net' = Closed(conn)
  /\ Return(Error)
  /\ UNCHANGED <<slot, request, stream>>

Readable(k) ==
  IF net[k].down # <<>> /\ Last(net[k].down).kind = "fin"
    THEN Front(net[k].down) ELSE net[k].down

\* read_some returns some of what has arrived.
ReadData ==
  /\ pc = "read"
  /\ \E m \in 1..Len(Readable(conn)) :
       LET p == Parse(parser, SubSeq(Readable(conn), 1, m)) IN
       IF p.stage = "error"
         THEN Return(Error) /\ net' = Closed(conn)
         ELSE /\ parser' = p
              /\ net' = [net EXCEPT ![conn] =
                           [net[conn] EXCEPT !.down = SubSeq(@, m + 1, Len(@))]]
              /\ pc' = IF p.stage = "complete" THEN "decide" ELSE "read"
              /\ UNCHANGED <<unsent, conn, result>>
  /\ UNCHANGED <<slot, request, stream>>

\* Nothing more will arrive.
Ended(k) ==
  /\ Readable(k) = <<>>
  /\ net[k].down # <<>> \/ net[k].server = "reset"

\* Fault: a counted body may end early, too.
ReadEndsAnyBody ==
  /\ pc = "read" /\ Ended(conn)
  /\ Return(IF parser.stage = "head" THEN Error ELSE Response(parser.answer))
  /\ net' = Closed(conn)
  /\ UNCHANGED <<slot, request, stream>>

\* Fault: zero bytes are read as if there were more to come.
ReadEndsReadsOn == pc = "read" /\ Ended(conn) /\ UNCHANGED vars

\* The end of the stream and a reset alike: read_some closes and reports
\* ConnectionClosed, and finish_eof decides.
ReadEnds ==
  /\ pc = "read" /\ Ended(conn)
  /\ Return(IF parser.stage = "close" THEN Response(parser.answer) ELSE Error)
  /\ net' = Closed(conn)
  /\ UNCHANGED <<slot, request, stream>>

Reusable == parser.answer.counted /\ parser.answer.keep /\ ~parser.pending

Retain ==
  /\ pc = "decide" /\ Reusable
  /\ slot' = conn
  /\ Return(Response(parser.answer))
  /\ UNCHANGED <<net, request, stream>>

Discard ==
  /\ pc = "decide" /\ ~Reusable
  /\ net' = Closed(conn)
  /\ Return(Response(parser.answer))
  /\ UNCHANGED <<slot, request, stream>>

-------------------------------------------------------------------------------
(* The server.                                                             *)

Serves(k, c) ==
  /\ net' = [net EXCEPT ![k] = c]
  /\ UNCHANGED <<slot, pc, request, conn, unsent, parser, result, stream>>

ServerReads(k) ==
  /\ net[k].server = "open" /\ net[k].up # <<>>
  /\ Serves(k, [net[k] EXCEPT !.up = Tail(@), !.reading = Head(net[k].up).req])

\* A response to n, and what the server sends behind it.
ResponseTo(n, size, counted, keep, surplus) ==
  LET unit(kind) == [kind |-> kind, req |-> n, size |-> size,
                     counted |-> counted, keep |-> keep]
  IN <<unit("head")>> \o [i \in 1..size |-> unit("body")]
       \o (IF surplus THEN <<unit("surplus")>> ELSE <<>>)

\* There is a request that the server has read, or begun to, and not answered.
Asked(k) ==
  /\ net[k].server = "open"
  /\ net[k].reading # 0 /\ net[k].answered # net[k].reading

\* An interim head (100, 103), of which there may be any number; it has no body.
Interim(n) == [kind |-> "interim", req |-> n, size |-> 0, counted |-> TRUE, keep |-> TRUE]

ServerInforms(k) ==
  /\ Asked(k)
  /\ Cardinality({i \in DOMAIN net[k].down : net[k].down[i].kind = "interim"}) < MaxInterim
  /\ Serves(k, [net[k] EXCEPT !.down = Append(@, Interim(net[k].reading))])

\* A response to the request it reads, early or late, once.
ServerAnswers(k, size, counted, keep, surplus) ==
  /\ Asked(k)
  /\ surplus => counted
  /\ Serves(k, [net[k] EXCEPT
       !.answered = net[k].reading,
       !.down = @ \o ResponseTo(net[k].reading, size, counted, keep, surplus)])

\* The stream is ended, perhaps in the middle of a response; a close-delimited
\* body is what was sent before its end.
ServerCloses(k) ==
  /\ net[k].server = "open"
  /\ \E m \in 0..Len(net[k].down) :
       /\ m < Len(net[k].down) =>
            net[k].down[m + 1].counted \/ net[k].down[m + 1].kind # "body"
       /\ Serves(k, [net[k] EXCEPT !.server = "closed",
                                   !.down = Append(SubSeq(@, 1, m), Fin)])

\* A crash, or a request that arrives at a closed socket: what has not reached the
\* client is lost.
ServerResets(k) ==
  /\ net[k].server \in {"open", "closed"}
  /\ \E m \in 0..Len(net[k].down) :
       Serves(k, [net[k] EXCEPT !.server = "reset", !.up = <<>>,
                                !.down = SubSeq(@, 1, m)])

Server(k) ==
  \/ ServerReads(k)
  \/ ServerCloses(k)
  \/ ServerResets(k)
  \/ ServerInforms(k)
  \/ \E counted, keep, surplus \in BOOLEAN, size \in 0..MaxUnits :
       ServerAnswers(k, size, counted, keep, surplus)

-------------------------------------------------------------------------------
\* What a thread does that goes on running.
Goes == Adopt \/ Connect \/ ConnectFails \/ Write \/ ReadData \/ ReadEnds
        \/ Retain \/ Discard

Next ==
  \/ \E size \in 0..MaxUnits : Begin(size)
  \/ Goes
  \/ IoFails
  \/ \E k \in Connections : Server(k)

Spec == Init /\ [][Next]_vars

\* The server keeps the call waiting, or send fails.
Stuck ==
  \/ pc = "write" /\ (net[conn].server = "reset" \/ Len(net[conn].up) >= Capacity)
  \/ pc = "read" /\ Readable(conn) = <<>> /\ ~Ended(conn)

\* The thread runs on, and a wait ends, by its timeout at the latest.  This is all
\* that is assumed here: the server may go on, stop or send interim heads for ever.
Runs == Goes \/ (Stuck /\ IoFails)

FairSpec == Spec /\ WF_vars(Runs)

-------------------------------------------------------------------------------
(* Properties.                                                             *)

\* What is written on a connection is one request after the other: no request
\* follows one of which a part was never written, whatever failed in between
\* (execute_once writes head and body and keeps no connection that failed).
RequestsStayWhole ==
  \A k \in Connections : \A i \in 2..Len(stream[k]) :
    LET unit == stream[k][i]
        last == stream[k][i - 1]
    IN IF unit.kind = "body"
         THEN unit.req = last.req
         ELSE Cardinality({j \in DOMAIN stream[k] : stream[k][j].req = last.req})
                = last.size + 1

Whole(a) == a.body = [i \in 1..a.size |-> a.req]
WasReset(n) ==
  \E k \in Connections : /\ \E i \in DOMAIN stream[k] : stream[k][i].req = n
                         /\ net[k].server = "reset"

\* What read_some and the parser make of a stream that ends somewhere: a response
\* that is delivered has its whole body, except perhaps a close-delimited one
\* whose connection was reset.
WholeUnlessReset ==
  \A n \in RequestNumbers :
    result[n].kind = "response" =>
      Whole(result[n].answer) \/ (~result[n].answer.counted /\ WasReset(n))

\* docs/api/error-model.md calls it ReadFailed that response bytes could not be
\* read "for reasons other than timeout or clean peer closure": a response that a
\* reset has cut off is no successful one (read_some, execute_once).
DeliveredIsWhole ==
  \A n \in RequestNumbers :
    result[n].kind = "response" => Whole(result[n].answer)

Sent(n) ==
  Cardinality({ki \in UNION {{k} \X DOMAIN stream[k] : k \in Connections} :
    stream[ki[1]][ki[2]].kind = "head" /\ stream[ki[1]][ki[2]].req = n})

Outcome(n) ==
  CASE result[n].kind # "response" -> result[n].kind
    [] result[n].kind = "response" ->
         IF /\ result[n].answer.req = n
            /\ \A i \in DOMAIN result[n].answer.body : result[n].answer.body[i] = n
           THEN "own" ELSE "other"

Service == INSTANCE RequestService WITH
  Requests <- RequestNumbers,
  sent     <- [n \in RequestNumbers |-> Sent(n)],
  outcome  <- [n \in RequestNumbers |-> Outcome(n)]

\* execute_once gives the service of module RequestService: each request is written
\* at most once, also when a kept connection turns out to be dead, and is answered
\* with its own response, never with one that came late for an earlier request.
ImplementsService == Service!Spec

Informs == \E k \in Connections : ServerInforms(k)

\* Each call returns, unless the server sends interim heads without end: these are
\* consumed without a count, and each read starts its timeout anew (process_buffer,
\* execute_once).  Against any other server the timeouts of write_all and read_some
\* and the end of the stream are enough, whatever comes and however late.
CallsEnd == <>[][~Informs]_vars => (pc # "idle" ~> pc = "idle")
===============================================================================
