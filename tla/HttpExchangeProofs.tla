---------------------------- MODULE HttpExchangeProofs ----------------------------
(***************************************************************************)
(* Proofs about HttpExchange, for any number of requests, sizes of bodies  *)
(* and capacity of connections, and whatever the server does.              *)
(***************************************************************************)
EXTENDS HttpExchange, LeastNumber, SequenceTheorems, FiniteSetTheorems, TLAPS

\* The end of a stream is the last thing that arrives, and nothing follows it.
FinIsLast(c) ==
  \A i \in 1..Len(c.down) :
    c.down[i].kind = "fin" => i = Len(c.down) /\ c.server # "open"

\* Where a call is, and what it has counted.
Control ==
  /\ Len(net) <= request
  /\ pc = "acquire" => Len(net) < request
  /\ pc # "idle" => request # 0
  /\ unsent # <<>> <=> pc \in {"acquire", "write"}
  /\ pc \in {"idle", "acquire", "write"} => parser = NewParser
  /\ pc = "read"   => parser.stage \in {"head", "counted", "close"}
  /\ pc = "decide" => parser.stage = "complete"
  /\ \A n \in RequestNumbers :
       result[n].kind = "none" <=> n > request \/ (n = request /\ pc # "idle")
  /\ \A k \in Connections : FinIsLast(net[k])

-------------------------------------------------------------------------------
(* What is written.                                                        *)

\* What write_all has still to send is the end of one request.
RestOfRequest ==
  unsent # <<>> =>
    /\ \A i \in 1..Len(unsent) :
         /\ unsent[i].req = request /\ unsent[i].size = unsent[1].size
         /\ i > 1 => unsent[i].kind = "body"
    /\ Len(unsent) <= unsent[1].size + 1
    /\ unsent[1].kind = "head" <=> Len(unsent) = unsent[1].size + 1
    /\ pc = "acquire" => unsent[1].kind = "head"

NothingSent == unsent # <<>> /\ unsent[1].kind = "head"

\* The first e units of s end with a request of which only missing units are not
\* there.
EndsWithin(s, e, missing) ==
  LET first == e - s[e].size + missing
  IN /\ first \in 1..e /\ s[first].kind = "head"
     /\ \A j \in 1..e : s[j].req = s[e].req <=> j >= first
EndsWhole(s) == s = <<>> \/ EndsWithin(s, Len(s), 0)

\* Requests lie on a connection one behind the other, in their order.
InOrder(s) ==
  /\ \A i, j \in 1..Len(s) :
       i < j => s[i].req <= s[j].req /\ (s[j].kind = "head" => s[i].req < s[j].req)
  /\ \A i \in 1..Len(s) :
       /\ s[i].kind = "body" => i > 1 /\ s[i].req = s[i - 1].req
       /\ s[i].kind = "head" /\ i > 1 => EndsWithin(s, i - 1, 0)

UpToNow(s) ==
  \A i \in 1..Len(s) : s[i].req <= request /\ (NothingSent => s[i].req < request)

\* A connection that is kept, or about to be used, ends with a whole request; the
\* one in use ends with what has been sent of the current one.
Ends ==
  /\ slot # 0 => EndsWhole(stream[slot])
  /\ conn # 0 /\ NothingSent => EndsWhole(stream[conn])
  /\ conn # 0 /\ ~NothingSent =>
       LET s == stream[conn]
       IN /\ s # <<>> /\ s[Len(s)].req = request
          /\ EndsWithin(s, Len(s), Len(unsent))
          /\ unsent # <<>> => s[Len(s)].size = unsent[1].size

\* A request is begun on one connection only.
BegunOnce ==
  \A k, l \in Connections : \A i \in DOMAIN stream[k], j \in DOMAIN stream[l] :
    /\ stream[k][i].kind = "head" /\ stream[l][j].kind = "head"
    /\ stream[k][i].req = stream[l][j].req
    => k = l /\ i = j

Writing ==
  /\ RestOfRequest
  /\ \A k \in Connections : InOrder(stream[k]) /\ UpToNow(stream[k])
  /\ Ends
  /\ BegunOnce

-------------------------------------------------------------------------------
(* What is read.                                                           *)

\* What is read of a connection is all that arrives before its end.
Data(down) ==
  IF down # <<>> /\ Last(down).kind = "fin" THEN Front(down) ELSE down

\* The server reads requests in their order, and has nothing in hand but the
\* request it has answered last and the current one.
Inputs(c, current) ==
  /\ c.answered <= c.reading /\ c.reading \in {c.answered, current}
  /\ \A i \in 1..Len(c.up) :
       c.up[i].req \in {c.answered, current} /\ c.reading <= c.up[i].req
  /\ \A i, j \in 1..Len(c.up) : i < j => c.up[i].req <= c.up[j].req

\* Behind o there are rest units of the body of the response to n, then only what
\* is no response; a body without a length ends with the stream.
Follows(d, o, rest, n, counted, reset) ==
  /\ \A i \in o + 1..Len(d) :
       IF i <= o + rest
         THEN d[i].kind = "body" /\ d[i].req = n /\ d[i].counted = counted
         ELSE d[i].kind = "surplus" /\ counted
  /\ ~counted => Len(d) = o + rest \/ reset

\* Before the head there is nothing that ends or begins a response; there is a head
\* only when the server has answered the current request.
Awaited(d, o, n, answered, reset) ==
  /\ \A i \in o + 1..Len(d) :
       \/ d[i].kind \in {"interim", "surplus"}
       \/ \E h \in o + 1..i : d[h].kind = "head"
  /\ \A h \in o + 1..Len(d) :
       d[h].kind = "head" =>
         /\ d[h].req = n /\ answered = n
         /\ Follows(d, h, d[h].size, n, d[h].counted, reset)

Stored(a, n) ==
  /\ a.req = n /\ Len(a.body) <= a.size
  /\ \A i \in 1..Len(a.body) : a.body[i] = n

\* What the parser has of the body and what arrives behind o are the parts of one.
Continues(p, d, o, n, reset) ==
  /\ Stored(p.answer, n)
  /\ p.answer.counted <=> p.stage # "close"
  /\ p.stage \in {"counted", "complete"} =>
       (p.stage = "complete" <=> Len(p.answer.body) = p.answer.size)
  /\ Follows(d, o, p.answer.size - Len(p.answer.body), n, p.answer.counted, reset)

\* What the parser has read and what arrives behind o are the parts of one response
\* to n.
Coming(p, d, o, n, answered, reset) ==
  /\ p.stage = "head" => Awaited(d, o, n, answered, reset)
  /\ p.stage \notin {"head", "error"} => answered = n /\ Continues(p, d, o, n, reset)

\* A kept connection: nothing is asked of it, and what arrives is no response.
Quiet(c) ==
  /\ Inputs(c, c.answered)
  /\ \A i \in 1..Len(Data(c.down)) : Data(c.down)[i].kind = "surplus"

\* The connection in use, for request n.
InUse(c, p, n) ==
  /\ Inputs(c, n) /\ c.answered <= n
  /\ Coming(p, Data(c.down), 0, n, c.answered, c.server = "reset")

\* A response that was returned is the one to its request.
Returned(n) ==
  result[n].kind = "response" =>
    /\ Stored(result[n].answer, n)
    /\ Len(result[n].answer.body) = result[n].answer.size
         \/ (~result[n].answer.counted /\ WasReset(n))

Reading ==
  /\ slot # 0 => Quiet(net[slot]) /\ net[slot].answered <= request
  /\ conn # 0 => InUse(net[conn], parser, request)
  /\ \A n \in RequestNumbers : Returned(n)

-------------------------------------------------------------------------------
(* The parser's loop.                                                      *)

\* One unit leaves a parser.
LEMMA ParseUnitType ==
  ASSUME NEW p \in Parsers, NEW u \in ResponseUnits
  PROVE  ParseUnit(p, u) \in Parsers
<1>1. /\ p = [stage |-> p.stage, answer |-> p.answer, pending |-> p.pending]
      /\ p.stage \in {"head", "counted", "close", "complete", "error"}
      /\ p.answer \in Answers /\ p.pending \in BOOLEAN
  BY DEF Parsers
<1>2. /\ p.answer.body \in Seq(RequestNumbers)
      /\ p.answer = [req |-> p.answer.req, size |-> p.answer.size,
                     counted |-> p.answer.counted, keep |-> p.answer.keep,
                     body |-> p.answer.body]
  BY <1>1 DEF Answers
<1>3. /\ u.req \in RequestNumbers /\ u.size \in 0..MaxUnits
      /\ u.counted \in BOOLEAN /\ u.keep \in BOOLEAN
  BY DEF ResponseUnits
<1>4. Append(p.answer.body, u.req) \in Seq(RequestNumbers)
  BY <1>2, <1>3
<1>5. [req |-> u.req, size |-> u.size, counted |-> u.counted, keep |-> u.keep,
       body |-> <<>>] \in Answers
  BY <1>3 DEF Answers
<1>6. [p.answer EXCEPT !.body = Append(@, u.req)] \in Answers
  BY <1>1, <1>4 DEF Answers
<1> QED  BY <1>1, <1>5, <1>6 DEF ParseUnit, Parsers

\* The loop of feed takes one unit after the other.
LEMMA ParseSteps ==
  ASSUME NEW p \in Parsers, NEW units \in Seq(ResponseUnits)
  PROVE  \E run :
           /\ run[0] = p /\ Parse(p, units) = run[Len(units)]
           /\ \A i \in 1..Len(units) : run[i] = ParseUnit(run[i - 1], units[i])
<1> DEFINE n == Len(units)
           Eq(f) == f = [i \in 0..n |-> IF i = 0 THEN p ELSE ParseUnit(f[i - 1], units[i])]
           run == CHOOSE f : Eq(f)
<1>1. n \in Nat /\ \A i \in 1..n : units[i] \in ResponseUnits
  OBVIOUS
<1>2. \E f : Eq(f)
  <2> DEFINE step == [x \in (1..n) \X Parsers |-> ParseUnit(x[2], units[x[1]])]
  <2>1. step \in [(1..n) \X Parsers -> Parsers]
    <3>1. \A x \in (1..n) \X Parsers : x[2] \in Parsers /\ units[x[1]] \in ResponseUnits
      BY <1>1
    <3> QED  BY <3>1, ParseUnitType
  <2>2. \A i \in 1..n, q \in Parsers : step[<<i, q>>] = ParseUnit(q, units[i])
    OBVIOUS
  <2> HIDE DEF step
  <2>3. n \in Nat /\ p \in Parsers
    BY <1>1
  <2>4. PICK f : IsTrack(f, n, Parsers, p, step)
    BY <2>1, <2>3, TrackExists
  <2>5. /\ f \in [0..n -> Parsers] /\ f[0] = p
        /\ \A i \in 1..n : f[i] = step[<<i, f[i - 1]>>]
    BY <2>4 DEF IsTrack
  <2>6. \A i \in 1..n : f[i] = ParseUnit(f[i - 1], units[i])
    <3> TAKE i \in 1..n
    <3>1. i - 1 \in 0..n
      BY <1>1
    <3>2. f[i - 1] \in Parsers
      BY <2>5, <3>1
    <3> QED  BY <2>2, <2>5, <3>2
  <2> DEFINE g == [i \in 0..n |-> IF i = 0 THEN p ELSE ParseUnit(f[i - 1], units[i])]
  <2>7. \A i \in 0..n : f[i] = g[i]
    <3> TAKE i \in 0..n
    <3>1. i = 0 \/ i \in 1..n
      BY <1>1
    <3> QED  BY <2>5, <2>6, <3>1
  <2>8. f = g
    BY <2>5, <2>7
  <2> QED  BY <2>8
<1>3. Eq(run)
  BY <1>2
<1>4. Parse(p, units) = run[n]
  BY DEF Parse
<1> HIDE DEF run
<1>5. run[0] = p
  BY <1>1, <1>3
<1>6. \A i \in 1..n : run[i] = ParseUnit(run[i - 1], units[i])
  BY <1>1, <1>3
<1> QED  BY <1>4, <1>5, <1>6

\* What each unit preserves, the loop preserves.
LEMMA ParseInvariant ==
  ASSUME NEW p \in Parsers, NEW units \in Seq(ResponseUnits), NEW T, <<0, p>> \in T,
         \A i \in 1..Len(units), q \in Parsers :
           <<i - 1, q>> \in T => <<i, ParseUnit(q, units[i])>> \in T
  PROVE  Parse(p, units) \in Parsers /\ <<Len(units), Parse(p, units)>> \in T
<1> DEFINE n == Len(units)
<1>1. PICK run : /\ run[0] = p /\ Parse(p, units) = run[n]
                 /\ \A i \in 1..n : run[i] = ParseUnit(run[i - 1], units[i])
  BY ParseSteps
<1> DEFINE Good == {i \in 0..n : run[i] \in Parsers /\ <<i, run[i]>> \in T}
<1>2. n \in Nat /\ 0 \in Good
  BY <1>1
<1>3. ASSUME NEW i \in 0..n - 1, i \in Good PROVE i + 1 \in Good
  <2>1. i + 1 \in 1..n /\ (i + 1) - 1 = i /\ run[i] \in Parsers /\ <<i, run[i]>> \in T
    BY <1>3
  <2>2. units[i + 1] \in ResponseUnits
    BY <2>1
  <2>3. run[i + 1] = ParseUnit(run[i], units[i + 1])
    BY <1>1, <2>1
  <2>4. <<i + 1, ParseUnit(run[i], units[i + 1])>> \in T
    BY <2>1
  <2> QED  BY <2>1, <2>2, <2>3, <2>4, ParseUnitType
<1> HIDE DEF Good, n
<1>4. \A i \in 0..n : i \in Good
  BY <1>2, <1>3, UpTo, Zenon
<1> QED  BY <1>1, <1>2, <1>4 DEF Good, n

-------------------------------------------------------------------------------
(* Steps.                                                                  *)

\* A sequence with another element at one place.
LEMMA Updated ==
  ASSUME NEW S, NEW s \in Seq(S), NEW k \in 1..Len(s), NEW c \in S
  PROVE  /\ [s EXCEPT ![k] = c] \in Seq(S) /\ Len([s EXCEPT ![k] = c]) = Len(s)
         /\ [s EXCEPT ![k] = c][k] = c
         /\ \A j \in 1..Len(s) : j # k => [s EXCEPT ![k] = c][j] = s[j]
BY ExceptSeq

\* The members of a connection are typed, and those of an empty one.
LEMMA ConnectionTypes ==
  ASSUME NEW c \in Network
  PROVE  /\ c.up \in Seq(RequestUnits) /\ c.down \in Seq(ResponseUnits \cup {Fin})
         /\ c.reading \in {0} \cup RequestNumbers /\ c.answered \in {0} \cup RequestNumbers
         /\ c.server \in {"open", "closed", "reset", "gone"}
         /\ \A up \in Seq(RequestUnits) : [c EXCEPT !.up = up] \in Network
         /\ \A down \in Seq(ResponseUnits \cup {Fin}) : [c EXCEPT !.down = down] \in Network
BY DEF Network

LEMMA NewConnectionType ==
  /\ NewConnection \in Network /\ NewConnection.server = "open"
  /\ NewConnection.up = <<>> /\ NewConnection.down = <<>>
  /\ \A s \in {"reset", "gone"} :
       LET c == [NewConnection EXCEPT !.server = s]
       IN c \in Network /\ c.up = <<>> /\ c.down = <<>> /\ c.server = s
<1>1. NewConnection \in Network /\ NewConnection.server = "open"
      /\ NewConnection.up = <<>> /\ NewConnection.down = <<>>
  <2>1. <<>> \in Seq(RequestUnits) /\ <<>> \in Seq(ResponseUnits \cup {Fin})
    OBVIOUS
  <2> QED  BY <2>1 DEF NewConnection, Network
<1>2. ASSUME NEW s \in {"reset", "gone"}
      PROVE  LET c == [NewConnection EXCEPT !.server = s]
             IN c \in Network /\ c.up = <<>> /\ c.down = <<>> /\ c.server = s
  BY <1>1 DEF Network
<1> QED  BY <1>1, <1>2

\* A call gives its connection up and returns r.
GivesUp(r) ==
  /\ conn # 0 /\ net' = Closed(conn) /\ Return(r)
  /\ UNCHANGED <<slot, request, stream>>

\* It reads m units and goes on.
Takes(m) ==
  /\ pc = "read" /\ m \in 1..Len(Readable(conn))
  /\ parser' = Parse(parser, SubSeq(Readable(conn), 1, m))
  /\ parser'.stage # "error"
  /\ net' = [net EXCEPT ![conn] = [net[conn] EXCEPT !.down = SubSeq(@, m + 1, Len(@))]]
  /\ pc' = IF parser'.stage = "complete" THEN "decide" ELSE "read"
  /\ UNCHANGED <<slot, request, conn, unsent, result, stream>>

Delivers ==
  \/ pc = "decide"
  \/ pc = "read" /\ parser.stage = "close" /\ Ended(conn)

\* The steps of Next by what they do.
LEMMA Steps ==
  ASSUME TypeOK, [Next]_vars
  PROVE  \/ \E size \in 0..MaxUnits : Begin(size)
         \/ Adopt \/ Connect \/ ConnectFails \/ Write \/ Retain
         \/ pc \in {"write", "read", "decide"} /\ GivesUp(Error)
         \/ Delivers /\ GivesUp(Response(parser.answer))
         \/ \E m \in 1..Len(Readable(conn)) : Takes(m)
         \/ \E k \in Connections : Server(k)
         \/ UNCHANGED vars
<1>1. ASSUME IoFails PROVE pc \in {"write", "read", "decide"} /\ GivesUp(Error)
  BY <1>1 DEF IoFails, GivesUp, TypeOK
<1>2. ASSUME ReadEnds
      PROVE  \/ pc \in {"write", "read", "decide"} /\ GivesUp(Error)
             \/ Delivers /\ GivesUp(Response(parser.answer))
  BY <1>2 DEF ReadEnds, GivesUp, Delivers, TypeOK
<1>3. ASSUME Discard PROVE Delivers /\ GivesUp(Response(parser.answer))
  BY <1>3 DEF Discard, GivesUp, Delivers, TypeOK
<1>4. ASSUME ReadData
      PROVE  \/ pc \in {"write", "read", "decide"} /\ GivesUp(Error)
             \/ \E m \in 1..Len(Readable(conn)) : Takes(m)
  <2>1. PICK m \in 1..Len(Readable(conn)) :
          LET p == Parse(parser, SubSeq(Readable(conn), 1, m)) IN
          IF p.stage = "error"
            THEN Return(Error) /\ net' = Closed(conn)
            ELSE /\ parser' = p
                 /\ net' = [net EXCEPT ![conn] = [net[conn] EXCEPT !.down = SubSeq(@, m + 1, Len(@))]]
                 /\ pc' = IF p.stage = "complete" THEN "decide" ELSE "read"
                 /\ UNCHANGED <<unsent, conn, result>>
    BY <1>4 DEF ReadData
  <2> DEFINE p == Parse(parser, SubSeq(Readable(conn), 1, m))
  <2>2. pc = "read" /\ conn # 0 /\ UNCHANGED <<slot, request, stream>>
    BY <1>4 DEF ReadData, TypeOK
  <2> HIDE DEF p
  <2>3. CASE p.stage = "error"
    BY <2>1, <2>2, <2>3 DEF GivesUp, p
  <2>4. CASE p.stage # "error"
    <3>1. Takes(m)
      BY <2>1, <2>2, <2>4 DEF Takes, p
    <3> QED  BY <3>1
  <2> QED  BY <2>3, <2>4
<1> QED  BY <1>1, <1>2, <1>3, <1>4 DEF Next, Goes

\* The state of the local parser where a call has not read.
LEMMA NewParserType ==
  NewParser \in Parsers /\ NoAnswer \in Answers /\ NewParser.stage = "head"
  /\ NewParser.answer = NoAnswer
<1>1. NoAnswer \in Answers
  BY BoundAssumption DEF NoAnswer, Answers
<1> QED  BY <1>1 DEF NewParser, Parsers

\* What closing does to the network, and returning to the call.
LEMMA GivingUp ==
  ASSUME TypeOK, NEW r \in Results, GivesUp(r)
  PROVE  /\ conn \in Connections /\ Connections' = Connections
         /\ net' \in Seq(Network) /\ Len(net') = Len(net)
         /\ net'[conn].down = <<>> /\ net'[conn].up = <<>>
         /\ net'[conn].server = "reset" <=> net[conn].server = "reset"
         /\ \A k \in Connections : k # conn => net'[k] = net[k]
         /\ pc' = "idle" /\ conn' = 0 /\ unsent' = <<>> /\ parser' = NewParser
         /\ result' = [result EXCEPT ![request] = r]
         /\ UNCHANGED <<slot, request, stream>>
<1>1. /\ pc' = "idle" /\ conn' = 0 /\ unsent' = <<>> /\ parser' = NewParser
      /\ result' = [result EXCEPT ![request] = r]
      /\ UNCHANGED <<slot, request, stream>> /\ net' = Closed(conn)
  BY DEF GivesUp, Return
<1>2. conn \in 1..Len(net) /\ net \in Seq(Network)
  BY DEF GivesUp, TypeOK, Connections
<1> DEFINE c == [NewConnection EXCEPT
                   !.server = IF net[conn].server = "reset" THEN "reset" ELSE "gone"]
<1>3. c \in Network
  BY NewConnectionType
<1>4. c.down = <<>> /\ c.up = <<>> /\ (c.server = "reset" <=> net[conn].server = "reset")
  BY NewConnectionType
<1>5. net' = [net EXCEPT ![conn] = c]
  BY <1>1 DEF Closed
<1> HIDE DEF c
<1>6. /\ net' \in Seq(Network) /\ Len(net') = Len(net) /\ net'[conn] = c
      /\ \A k \in 1..Len(net) : k # conn => net'[k] = net[k]
  BY <1>2, <1>3, <1>5, Updated
<1> QED  BY <1>1, <1>2, <1>4, <1>6 DEF Connections

-------------------------------------------------------------------------------
(* What can be read.                                                       *)

Downs == {d \in Seq(ResponseUnits \cup {Fin}) :
            \A i \in 1..Len(d) : d[i].kind = "fin" => i = Len(d)}

\* What is read of a connection is all that arrives before the end.
LEMMA DataIs ==
  ASSUME NEW d \in Downs
  PROVE  /\ Data(d) \in Seq(ResponseUnits)
         /\ Len(Data(d)) \in Nat /\ Len(Data(d)) <= Len(d) /\ Len(d) <= Len(Data(d)) + 1
         /\ \A i \in 1..Len(Data(d)) : Data(d)[i] = d[i] /\ d[i].kind # "fin"
         /\ \A i \in 1..Len(d) : d[i].kind # "fin" => i <= Len(Data(d))
<1>1. /\ d \in Seq(ResponseUnits \cup {Fin}) /\ Len(d) \in Nat
      /\ \A i \in 1..Len(d) : d[i].kind = "fin" => i = Len(d)
  BY DEF Downs
<1>2. \A u \in ResponseUnits : u.kind # "fin"
  BY DEF ResponseUnits
<1>3. \A i \in 1..Len(d) : d[i].kind # "fin" => d[i] \in ResponseUnits
  BY <1>1 DEF Fin
<1>4. CASE d # <<>> /\ Last(d).kind = "fin"
  <2>1. Data(d) = SubSeq(d, 1, Len(d) - 1) /\ d[Len(d)].kind = "fin" /\ Len(d) > 0
    BY <1>1, <1>4 DEF Data, Front, Last
  <2>2. /\ Len(Data(d)) = Len(d) - 1
        /\ \A i \in 1..Len(d) - 1 : Data(d)[i] = d[i] /\ d[i].kind # "fin"
    <3> DEFINE n == Len(d) - 1
    <3>1. n \in Nat /\ n <= Len(d)
      BY <1>1, <2>1
    <3> HIDE DEF n
    <3>2. Len(SubSeq(d, 1, n)) = n /\ \A i \in 1..n : SubSeq(d, 1, n)[i] = d[i]
      BY <1>1, <3>1
    <3>3. /\ Len(SubSeq(d, 1, Len(d) - 1)) = Len(d) - 1
          /\ \A i \in 1..Len(d) - 1 : SubSeq(d, 1, Len(d) - 1)[i] = d[i]
      BY <3>2 DEF n
    <3>4. \A i \in 1..Len(d) - 1 : d[i].kind # "fin"
      <4> TAKE i \in 1..Len(d) - 1
      <4>1. i \in 1..Len(d) /\ i # Len(d)
        BY <1>1
      <4> QED  BY <1>1, <4>1
    <3> QED  BY <2>1, <3>3, <3>4
  <2>3. Data(d) \in Seq(ResponseUnits)
    <3>1. \A i \in 1..Len(d) - 1 : d[i] \in ResponseUnits
      BY <1>1, <1>3
    <3> QED  BY <1>1, <2>1, <3>1, SubSeqProperties
  <2> QED  BY <1>1, <2>1, <2>2, <2>3
<1>5. CASE ~(d # <<>> /\ Last(d).kind = "fin")
  <2>1. Data(d) = d
    BY <1>5 DEF Data
  <2>2. \A i \in 1..Len(d) : d[i].kind # "fin"
    BY <1>1, <1>5 DEF Last
  <2>3. d \in Seq(ResponseUnits)
    BY <1>1, <1>3, <2>2
  <2> QED  BY <1>1, <2>1, <2>2, <2>3
<1> QED  BY <1>4, <1>5

\* A part of the stream ends like the stream or not at all.
LEMMA DataOfPart ==
  ASSUME NEW d \in Downs, NEW a \in 0..Len(d), NEW b \in a..Len(d)
  PROVE  LET e == SubSeq(d, a + 1, b)
         IN /\ e \in Downs /\ Len(e) = b - a
            /\ \A i \in 1..b - a : e[i] = d[a + i]
            /\ \A i \in 1..Len(Data(e)) :
                 a + i <= Len(Data(d)) /\ Data(e)[i] = Data(d)[a + i]
            /\ b <= Len(Data(d)) => Len(Data(e)) = b - a
            /\ b = Len(d) /\ a <= Len(Data(d)) => Len(Data(e)) = Len(Data(d)) - a
<1> DEFINE e == SubSeq(d, a + 1, b)
<1>1. /\ d \in Seq(ResponseUnits \cup {Fin}) /\ Len(d) \in Nat /\ a \in Nat /\ b \in Nat
      /\ a <= b /\ b <= Len(d)
      /\ \A i \in 1..Len(d) : d[i].kind = "fin" => i = Len(d)
  BY DEF Downs
<1>2. /\ e \in Seq(ResponseUnits \cup {Fin}) /\ Len(e) = b - a
      /\ \A i \in 1..b - a : e[i] = d[a + i]
  BY <1>1
<1> HIDE DEF e
<1>3. e \in Downs
  <2>1. ASSUME NEW i \in 1..Len(e), e[i].kind = "fin" PROVE i = Len(e)
    <3>1. a + i \in 1..Len(d) /\ d[a + i].kind = "fin"
      BY <1>1, <1>2, <2>1
    <3>2. a + i = Len(d)
      BY <1>1, <3>1
    <3> QED  BY <1>1, <1>2, <3>2
  <2> QED  BY <1>2, <2>1 DEF Downs
<1>4. /\ Len(Data(e)) \in Nat /\ Len(Data(e)) <= Len(e) /\ Len(e) <= Len(Data(e)) + 1
      /\ \A i \in 1..Len(Data(e)) : Data(e)[i] = e[i] /\ e[i].kind # "fin"
      /\ \A i \in 1..Len(e) : e[i].kind # "fin" => i <= Len(Data(e))
  BY <1>3, DataIs
<1>5. /\ Len(Data(d)) \in Nat /\ Len(Data(d)) <= Len(d) /\ Len(d) <= Len(Data(d)) + 1
      /\ \A i \in 1..Len(Data(d)) : Data(d)[i] = d[i] /\ d[i].kind # "fin"
      /\ \A i \in 1..Len(d) : d[i].kind # "fin" => i <= Len(Data(d))
  BY DataIs
<1>6. ASSUME NEW i \in 1..Len(Data(e))
      PROVE  a + i <= Len(Data(d)) /\ Data(e)[i] = Data(d)[a + i]
  <2>1. i \in 1..b - a /\ a + i \in 1..Len(d) /\ e[i].kind # "fin" /\ Data(e)[i] = e[i]
    BY <1>1, <1>2, <1>4
  <2>2. e[i] = d[a + i]
    BY <1>2, <2>1
  <2>3. a + i <= Len(Data(d))
    BY <1>5, <2>1, <2>2
  <2>4. a + i \in 1..Len(Data(d))
    BY <1>5, <2>1, <2>3
  <2> QED  BY <1>5, <2>1, <2>2, <2>3, <2>4
<1>7. ASSUME b <= Len(Data(d)) PROVE Len(Data(e)) = b - a
  <2>1. CASE b = a
    BY <1>1, <1>2, <1>4, <2>1
  <2>2. CASE b > a
    <3>1. Len(e) \in 1..b - a /\ a + Len(e) = b /\ b \in 1..Len(Data(d))
      BY <1>1, <1>2, <1>5, <1>7, <2>2
    <3>2. e[Len(e)].kind # "fin"
      BY <1>2, <1>5, <3>1
    <3> QED  BY <1>1, <1>2, <1>4, <3>1, <3>2
  <2> QED  BY <1>1, <2>1, <2>2
<1>8. ASSUME b = Len(d), a <= Len(Data(d)) PROVE Len(Data(e)) = Len(Data(d)) - a
  <2>1. CASE Len(Data(d)) = Len(d)
    BY <1>7, <1>8, <2>1
  <2>2. CASE Len(Data(d)) # Len(d)
    <3>1. Len(Data(d)) = Len(d) - 1 /\ d[Len(d)].kind = "fin" /\ Len(d) > 0
      BY <1>1, <1>5, <2>2
    <3>2. Len(e) = Len(Data(d)) + 1 - a /\ Len(e) > 0 /\ a + Len(e) = Len(d)
      BY <1>1, <1>2, <1>5, <1>8, <3>1
    <3>3. e[Len(e)] = d[Len(d)]
      BY <1>1, <1>2, <3>2
    <3>4. Len(Data(e)) # Len(e)
      BY <1>2, <1>4, <3>1, <3>2, <3>3
    <3> QED  BY <1>1, <1>2, <1>4, <1>5, <3>2, <3>4
  <2> QED  BY <2>1, <2>2
<1> QED  BY <1>2, <1>3, <1>6, <1>7, <1>8 DEF e

\* A stream that has not ended, ended behind m units.
LEMMA DataEnded ==
  ASSUME NEW d \in Seq(ResponseUnits), NEW m \in 0..Len(d)
  PROVE  /\ Append(SubSeq(d, 1, m), Fin) \in Downs
         /\ Data(Append(SubSeq(d, 1, m), Fin)) = SubSeq(d, 1, m)
         /\ Append(SubSeq(d, 1, m), Fin) \in Seq(ResponseUnits \cup {Fin})
<1> DEFINE s == SubSeq(d, 1, m)
           e == Append(s, Fin)
<1>1. s \in Seq(ResponseUnits) /\ Len(s) = m /\ m \in Nat
  OBVIOUS
<1> HIDE DEF s
<1>2. Fin.kind = "fin" /\ \A u \in ResponseUnits : u.kind # "fin"
  BY DEF Fin, ResponseUnits
<1>3. s \in Seq(ResponseUnits \cup {Fin})
  BY <1>1
<1>4. /\ e \in Seq(ResponseUnits \cup {Fin}) /\ Len(e) = m + 1 /\ e[m + 1] = Fin
      /\ \A i \in 1..m : e[i] = s[i] /\ s[i] \in ResponseUnits
  BY <1>1, <1>3
<1> HIDE DEF e
<1>5. e \in Downs
  <2>1. ASSUME NEW i \in 1..Len(e), e[i].kind = "fin" PROVE i = Len(e)
    BY <1>1, <1>2, <1>4, <2>1
  <2> QED  BY <1>4, <2>1 DEF Downs
<1>6. Data(e) = Front(e)
  BY <1>1, <1>2, <1>4 DEF Data, Last
<1>7. Front(e) = SubSeq(e, 1, m)
  BY <1>1, <1>4 DEF Front
<1>8. SubSeq(e, 1, m) = s
  <2>1. SubSeq(e, 1, m) \in Seq(ResponseUnits \cup {Fin}) /\ Len(SubSeq(e, 1, m)) = m
        /\ \A i \in 1..m : SubSeq(e, 1, m)[i] = s[i]
    BY <1>1, <1>4
  <2> QED  BY <1>1, <1>3, <2>1, SeqEqual
<1> QED  BY <1>4, <1>5, <1>6, <1>7, <1>8 DEF e, s

\* A stream that has not ended has no end in it.
LEMMA DataOpen ==
  ASSUME NEW d \in Seq(ResponseUnits)
  PROVE  d \in Downs /\ Data(d) = d
<1>1. /\ d \in Seq(ResponseUnits \cup {Fin}) /\ Len(d) \in Nat
      /\ \A i \in 1..Len(d) : d[i] \in ResponseUnits
  OBVIOUS
<1>2. \A i \in 1..Len(d) : d[i].kind # "fin"
  BY <1>1 DEF ResponseUnits
<1> QED  BY <1>1, <1>2 DEF Data, Last, Downs

-------------------------------------------------------------------------------
(* What the server does to a connection.                                   *)

\* r is a response to n.
IsResponse(r, n) ==
  /\ r \in Seq(ResponseUnits)
  /\ 1 \in 1..Len(r) /\ r[1].kind = "head" /\ r[1].req = n
  /\ Follows(r, 1, r[1].size, n, r[1].counted, FALSE)

ReadsNext(c, d) ==
  /\ c.server = "open" /\ c.up # <<>>
  /\ d.up = Tail(c.up) /\ d.reading = Head(c.up).req
  /\ d.down = c.down /\ d.answered = c.answered /\ d.server = c.server
Announces(c, d) ==
  /\ c.server = "open" /\ c.reading # 0 /\ c.answered # c.reading
  /\ d.down = Append(c.down, Interim(c.reading))
  /\ d.up = c.up /\ d.reading = c.reading /\ d.answered = c.answered
  /\ d.server = c.server
Responds(c, d) ==
  /\ c.server = "open" /\ c.reading # 0 /\ c.answered # c.reading
  /\ d.answered = c.reading
  /\ \E r : IsResponse(r, c.reading) /\ d.down = c.down \o r
  /\ d.up = c.up /\ d.reading = c.reading /\ d.server = c.server
EndsStream(c, d) ==
  /\ c.server = "open" /\ d.server = "closed"
  /\ \E m \in 0..Len(c.down) :
       /\ m < Len(c.down) => c.down[m + 1].counted \/ c.down[m + 1].kind # "body"
       /\ d.down = Append(SubSeq(c.down, 1, m), Fin)
  /\ d.up = c.up /\ d.reading = c.reading /\ d.answered = c.answered
Breaks(c, d) ==
  /\ c.server \in {"open", "closed"} /\ d.server = "reset" /\ d.up = <<>>
  /\ \E m \in 0..Len(c.down) : d.down = SubSeq(c.down, 1, m)
  /\ d.reading = c.reading /\ d.answered = c.answered
Proceeds(c, d) ==
  \/ ReadsNext(c, d) \/ Announces(c, d) \/ Responds(c, d)
  \/ EndsStream(c, d) \/ Breaks(c, d)

\* The elements of two sequences put together.
LEMMA Concat ==
  ASSUME NEW S, NEW s \in Seq(S), NEW t \in Seq(S)
  PROVE  /\ s \o t \in Seq(S) /\ Len(s \o t) = Len(s) + Len(t)
         /\ \A i \in 1..Len(s) : (s \o t)[i] = s[i]
         /\ \A i \in Len(s) + 1..Len(s) + Len(t) : (s \o t)[i] = t[i - Len(s)]
BY ConcatProperties

\* What the server sends when it answers is a response.
LEMMA AnswerIsResponse ==
  ASSUME NEW n \in RequestNumbers, NEW size \in 0..MaxUnits,
         NEW counted \in BOOLEAN, NEW keep \in BOOLEAN, NEW surplus \in BOOLEAN,
         surplus => counted
  PROVE  IsResponse(ResponseTo(n, size, counted, keep, surplus), n)
<1> DEFINE unit(kind) == [kind |-> kind, req |-> n, size |-> size,
                          counted |-> counted, keep |-> keep]
           b == <<unit("head")>>
           c == [i \in 1..size |-> unit("body")]
           d == IF surplus THEN <<unit("surplus")>> ELSE <<>>
<1>1. \A kind \in {"head", "body", "surplus"} :
        /\ unit(kind) \in ResponseUnits /\ unit(kind).kind = kind
        /\ unit(kind).req = n /\ unit(kind).size = size /\ unit(kind).counted = counted
  BY DEF ResponseUnits
<1>2. size \in Nat
  BY BoundAssumption
<1>3. b \in Seq(ResponseUnits) /\ Len(b) = 1 /\ b[1] = unit("head")
  BY <1>1
<1>4. c \in Seq(ResponseUnits) /\ Len(c) = size /\ \A i \in 1..size : c[i] = unit("body")
  BY <1>1, <1>2
<1>5. /\ d \in Seq(ResponseUnits) /\ Len(d) = IF surplus THEN 1 ELSE 0
      /\ \A i \in 1..Len(d) : d[i] = unit("surplus") /\ counted
  <2>1. CASE surplus
    <3> DEFINE u == unit("surplus")
    <3>1. u \in ResponseUnits /\ d = <<u>>
      BY <1>1, <2>1
    <3> HIDE DEF u, d
    <3>2. d \in Seq(ResponseUnits) /\ Len(d) = 1 /\ \A i \in 1..Len(d) : d[i] = u
      BY <3>1
    <3> QED  BY <2>1, <3>2 DEF u
  <2>2. CASE ~surplus
    BY <2>2
  <2> QED  BY <2>1, <2>2
<1> DEFINE r == b \o c \o d
<1> HIDE DEF unit, b, c, d
<1>6. /\ b \o c \in Seq(ResponseUnits) /\ Len(b \o c) = 1 + size
      /\ (b \o c)[1] = b[1]
      /\ \A i \in 2..1 + size : (b \o c)[i] = c[i - 1]
  <2>1. /\ b \o c \in Seq(ResponseUnits) /\ Len(b \o c) = Len(b) + Len(c)
        /\ \A i \in 1..Len(b) : (b \o c)[i] = b[i]
        /\ \A i \in Len(b) + 1..Len(b) + Len(c) : (b \o c)[i] = c[i - Len(b)]
    BY <1>3, <1>4, Concat
  <2> QED  BY <1>2, <1>3, <1>4, <2>1
<1>7. /\ r \in Seq(ResponseUnits) /\ Len(r) = 1 + size + Len(d)
      /\ \A i \in 1..1 + size : r[i] = (b \o c)[i]
      /\ \A i \in 1 + size + 1..Len(r) : r[i] = d[i - (1 + size)]
  <2> DEFINE t == b \o c
  <2> HIDE DEF t
  <2>1. t \in Seq(ResponseUnits) /\ Len(t) = 1 + size
    BY <1>6 DEF t
  <2>2. /\ t \o d \in Seq(ResponseUnits) /\ Len(t \o d) = Len(t) + Len(d)
        /\ \A i \in 1..Len(t) : (t \o d)[i] = t[i]
        /\ \A i \in Len(t) + 1..Len(t) + Len(d) : (t \o d)[i] = d[i - Len(t)]
    BY <1>5, <2>1, Concat
  <2>3. r = t \o d
    BY DEF t
  <2> QED  BY <1>5, <2>1, <2>2, <2>3 DEF t
<1> HIDE DEF r
<1>8. Len(d) \in Nat
  BY <1>5
<1>9. 1 \in 1..Len(r) /\ r[1] = unit("head")
  BY <1>2, <1>3, <1>6, <1>7, <1>8
<1>10. Follows(r, 1, size, n, counted, FALSE)
  <2>1. ASSUME NEW i \in 1 + 1..Len(r), i <= 1 + size PROVE r[i] = unit("body")
    <3>1. i - 1 \in 1..size /\ i \in 2..1 + size /\ i \in 1..1 + size
      BY <1>2, <2>1
    <3> QED  BY <1>4, <1>6, <1>7, <3>1
  <2>2. ASSUME NEW i \in 1 + 1..Len(r), ~(i <= 1 + size)
        PROVE  r[i] = unit("surplus") /\ counted
    <3>1. i - (1 + size) \in 1..Len(d) /\ i \in 1 + size + 1..Len(r)
      BY <1>2, <1>7, <1>8, <2>2
    <3> QED  BY <1>5, <1>7, <3>1
  <2>3. ~counted => Len(r) = 1 + size
    BY <1>2, <1>5, <1>7
  <2> QED  BY <1>1, <2>1, <2>2, <2>3 DEF Follows
<1>11. r[1].kind = "head" /\ r[1].req = n /\ r[1].size = size /\ r[1].counted = counted
  BY <1>1, <1>9
<1>12. IsResponse(r, n)
  BY <1>7, <1>9, <1>10, <1>11 DEF IsResponse
<1> QED  BY <1>12 DEF r, b, c, d, unit, ResponseTo

\* An interim head is typed, and is one.
LEMMA InterimIs ==
  ASSUME NEW n \in RequestNumbers
  PROVE  Interim(n) \in ResponseUnits /\ Interim(n).kind = "interim"
BY BoundAssumption DEF Interim, ResponseUnits

\* Nothing else changes when the server goes on.
LEMMA Serving ==
  ASSUME TypeOK, NEW k \in Connections, FinIsLast(net[k]), Server(k)
  PROVE  /\ net' \in Seq(Network) /\ Len(net') = Len(net)
         /\ \A j \in Connections : j # k => net'[j] = net[j]
         /\ Proceeds(net[k], net'[k])
         /\ UNCHANGED <<slot, pc, request, conn, unsent, parser, result, stream>>
<1>1. net \in Seq(Network) /\ k \in 1..Len(net) /\ net[k] \in Network
  BY DEF TypeOK, Connections
<1> DEFINE old == net[k]
<1>2. /\ old = [up |-> old.up, down |-> old.down, reading |-> old.reading,
                answered |-> old.answered, server |-> old.server]
      /\ old.up \in Seq(RequestUnits) /\ old.down \in Seq(ResponseUnits \cup {Fin})
      /\ old.reading \in {0} \cup RequestNumbers
      /\ old.answered \in {0} \cup RequestNumbers
      /\ old.server \in {"open", "closed", "reset", "gone"}
  BY <1>1 DEF Network
<1>3. ASSUME NEW c \in Network, Serves(k, c),
             Proceeds(old, c)
      PROVE  /\ net' \in Seq(Network) /\ Len(net') = Len(net)
             /\ \A j \in Connections : j # k => net'[j] = net[j]
             /\ Proceeds(net[k], net'[k])
             /\ UNCHANGED <<slot, pc, request, conn, unsent, parser, result, stream>>
  <2>1. net' = [net EXCEPT ![k] = c]
    BY <1>3 DEF Serves
  <2>2. /\ net' \in Seq(Network) /\ Len(net') = Len(net) /\ net'[k] = c
        /\ \A j \in 1..Len(net) : j # k => net'[j] = net[j]
    BY <1>1, <2>1, Updated
  <2> QED  BY <1>3, <2>2 DEF Serves, Connections
<1> HIDE DEF old
<1>4. CASE ServerReads(k)
  <2> DEFINE c == [old EXCEPT !.up = Tail(@), !.reading = Head(old.up).req]
  <2>1. old.server = "open" /\ old.up # <<>> /\ Serves(k, c)
    BY <1>4 DEF ServerReads, old
  <2>2. Tail(old.up) \in Seq(RequestUnits) /\ Head(old.up) \in RequestUnits
    BY <1>2, <2>1
  <2>3. Head(old.up).req \in RequestNumbers
    BY <2>2 DEF RequestUnits
  <2>4. c \in Network /\ ReadsNext(old, c)
    BY <1>2, <2>1, <2>2, <2>3 DEF Network, ReadsNext
  <2> QED  BY <1>3, <2>1, <2>4 DEF Proceeds
<1>5. CASE ServerCloses(k)
  <2>1. PICK m \in 0..Len(old.down) :
          /\ m < Len(old.down) =>
               old.down[m + 1].counted \/ old.down[m + 1].kind # "body"
          /\ Serves(k, [old EXCEPT !.server = "closed",
                                   !.down = Append(SubSeq(@, 1, m), Fin)])
    BY <1>5 DEF ServerCloses, old
  <2> DEFINE c == [old EXCEPT !.server = "closed", !.down = Append(SubSeq(@, 1, m), Fin)]
  <2>2. old.server = "open"
    BY <1>5 DEF ServerCloses, old
  <2>3. Append(SubSeq(old.down, 1, m), Fin) \in Seq(ResponseUnits \cup {Fin})
    BY <1>2
  <2>4. c \in Network
    BY <1>2, <2>3 DEF Network
  <2>5. EndsStream(old, c)
    BY <1>2, <2>1, <2>2 DEF EndsStream
  <2> QED  BY <1>3, <2>1, <2>4, <2>5 DEF Proceeds
<1>6. CASE ServerResets(k)
  <2>1. PICK m \in 0..Len(old.down) :
          Serves(k, [old EXCEPT !.server = "reset", !.up = <<>>, !.down = SubSeq(@, 1, m)])
    BY <1>6 DEF ServerResets, old
  <2> DEFINE c == [old EXCEPT !.server = "reset", !.up = <<>>, !.down = SubSeq(@, 1, m)]
  <2>2. old.server \in {"open", "closed"}
    BY <1>6 DEF ServerResets, old
  <2>3. SubSeq(old.down, 1, m) \in Seq(ResponseUnits \cup {Fin})
        /\ <<>> \in Seq(RequestUnits)
    BY <1>2
  <2>4. c \in Network
    BY <1>2, <2>3 DEF Network
  <2>5. Breaks(old, c)
    BY <1>2, <2>1, <2>2 DEF Breaks
  <2> QED  BY <1>3, <2>1, <2>4, <2>5 DEF Proceeds
<1>7. ASSUME NEW counted \in BOOLEAN, NEW keep \in BOOLEAN,
             NEW surplus \in BOOLEAN, NEW size \in 0..MaxUnits,
             ServerAnswers(k, size, counted, keep, surplus)
      PROVE  \E c \in Network : Serves(k, c) /\ Responds(old, c)
  <2> DEFINE r == ResponseTo(old.reading, size, counted, keep, surplus)
             c == [old EXCEPT !.answered = old.reading, !.down = @ \o r]
  <2>1. /\ old.server = "open" /\ old.reading # 0 /\ old.answered # old.reading
        /\ surplus => counted
    BY <1>7 DEF ServerAnswers, Asked, old
  <2>2. Serves(k, c)
    BY <1>7 DEF ServerAnswers, Asked, old
  <2>3. old.reading \in RequestNumbers
    BY <1>2, <2>1
  <2>4. IsResponse(r, old.reading)
    BY <2>1, <2>3, AnswerIsResponse
  <2> HIDE DEF r
  <2>5. old.down \o r \in Seq(ResponseUnits \cup {Fin})
    <3>1. r \in Seq(ResponseUnits \cup {Fin})
      BY <2>4 DEF IsResponse
    <3> QED  BY <1>2, <3>1
  <2>6. /\ c \in Network /\ c.answered = old.reading /\ c.down = old.down \o r
        /\ c.up = old.up /\ c.reading = old.reading /\ c.server = old.server
    BY <1>2, <2>5 DEF Network
  <2>7. Responds(old, c)
    BY <2>1, <2>4, <2>6 DEF Responds
  <2> HIDE DEF c
  <2> QED  BY <2>2, <2>6, <2>7
<1>8. CASE \E counted, keep, surplus \in BOOLEAN, size \in 0..MaxUnits :
             ServerAnswers(k, size, counted, keep, surplus)
  BY <1>3, <1>7, <1>8 DEF Proceeds
<1>9. CASE ServerInforms(k)
  <2> DEFINE u == Interim(old.reading)
             c == [old EXCEPT !.down = Append(@, u)]
  <2>1. /\ old.server = "open" /\ old.reading # 0 /\ old.answered # old.reading
        /\ Serves(k, c)
    BY <1>9 DEF ServerInforms, Asked, old
  <2>2. u \in ResponseUnits
    BY <1>2, <2>1, InterimIs
  <2>3. u = Interim(old.reading)
    OBVIOUS
  <2> HIDE DEF u
  <2>4. Append(old.down, u) \in Seq(ResponseUnits \cup {Fin})
    BY <1>2, <2>2
  <2>5. /\ c \in Network /\ c.answered = old.answered /\ c.down = Append(old.down, u)
        /\ c.up = old.up /\ c.reading = old.reading /\ c.server = old.server
    BY <1>2, <2>4 DEF Network
  <2>6. Announces(old, c)
    BY <2>1, <2>3, <2>5 DEF Announces
  <2> HIDE DEF c
  <2> QED  BY <1>3, <2>1, <2>5, <2>6 DEF Proceeds
<1> QED  BY <1>4, <1>5, <1>6, <1>8, <1>9 DEF Server

-------------------------------------------------------------------------------
(* Types and control.                                                      *)

LEMMA Replaces ==
  ASSUME TypeOK, NEW k \in Connections, NEW c \in Network, net' = [net EXCEPT ![k] = c]
  PROVE  /\ net' \in Seq(Network) /\ Len(net') = Len(net) /\ Connections' = Connections
         /\ net'[k] = c /\ \A j \in Connections : j # k => net'[j] = net[j]
<1>1. net \in Seq(Network) /\ k \in 1..Len(net)
  BY DEF TypeOK, Connections
<1>2. /\ net' \in Seq(Network) /\ Len(net') = Len(net) /\ net'[k] = c
      /\ \A j \in 1..Len(net) : j # k => net'[j] = net[j]
  BY <1>1, Updated
<1> QED  BY <1>2 DEF Connections

LEMMA ReadableIs ==
  ASSUME TypeOK, NEW k \in Connections, FinIsLast(net[k])
  PROVE  /\ net[k] \in Network /\ net[k].down \in Downs
         /\ Readable(k) = Data(net[k].down) /\ Readable(k) \in Seq(ResponseUnits)
         /\ Len(Readable(k)) <= Len(net[k].down)
<1>1. net[k] \in Network
  BY DEF TypeOK, Connections
<1>2. net[k].down \in Downs
  BY <1>1, ConnectionTypes DEF FinIsLast, Downs
<1> QED  BY <1>1, <1>2, DataIs DEF Readable, Data

\* A connection goes on as the client wrote to it.
LEMMA Written ==
  ASSUME TypeOK, Control, Write
  PROVE  /\ conn \in Connections /\ Connections' = Connections
         /\ net' \in Seq(Network) /\ Len(net') = Len(net)
         /\ unsent # <<>> /\ unsent[1] \in RequestUnits
         /\ \A k \in Connections : k # conn => net'[k] = net[k]
         /\ net'[conn].up = Append(net[conn].up, unsent[1])
         /\ net'[conn].down = net[conn].down /\ net'[conn].server = net[conn].server
         /\ net'[conn].reading = net[conn].reading
         /\ net'[conn].answered = net[conn].answered
<1>1. conn \in Connections /\ net[conn] \in Network /\ unsent # <<>>
  BY DEF Write, TypeOK, Control, Connections
<1>2. Head(unsent) = unsent[1] /\ unsent[1] \in RequestUnits
  BY <1>1 DEF TypeOK
<1> DEFINE up == Append(net[conn].up, unsent[1])
           c  == [net[conn] EXCEPT !.up = up]
<1>3. up \in Seq(RequestUnits)
  BY <1>1, <1>2, ConnectionTypes
<1>4. net' = [net EXCEPT ![conn] = c]
  BY <1>2 DEF Write
<1> HIDE DEF up
<1>5. c \in Network
  BY <1>1, <1>3, ConnectionTypes
<1>6. /\ c.up = up /\ c.down = net[conn].down /\ c.server = net[conn].server
      /\ c.reading = net[conn].reading /\ c.answered = net[conn].answered
  BY <1>1 DEF Network
<1> HIDE DEF c
<1>7. /\ net' \in Seq(Network) /\ Len(net') = Len(net) /\ Connections' = Connections
      /\ net'[conn] = c /\ \A j \in Connections : j # conn => net'[j] = net[j]
  BY <1>1, <1>4, <1>5, Replaces
<1> QED  BY <1>1, <1>2, <1>6, <1>7 DEF up

\* A connection goes on as the client read from it.
LEMMA Taken ==
  ASSUME TypeOK, Control, NEW m \in 1..Len(Readable(conn)), Takes(m)
  PROVE  /\ conn \in Connections /\ Connections' = Connections
         /\ net' \in Seq(Network) /\ Len(net') = Len(net)
         /\ \A k \in Connections : k # conn => net'[k] = net[k]
         /\ net'[conn].up = net[conn].up /\ net'[conn].server = net[conn].server
         /\ net'[conn].reading = net[conn].reading
         /\ net'[conn].answered = net[conn].answered
         /\ m \in Nat /\ m <= Len(net[conn].down)
         /\ net'[conn].down = SubSeq(net[conn].down, m + 1, Len(net[conn].down))
         /\ SubSeq(Readable(conn), 1, m) \in Seq(ResponseUnits)
         /\ Len(SubSeq(Readable(conn), 1, m)) = m
         /\ \A i \in 1..m : SubSeq(Readable(conn), 1, m)[i] = Readable(conn)[i]
<1>1. conn \in Connections /\ FinIsLast(net[conn])
  BY DEF Takes, TypeOK, Control
<1>2. /\ net[conn] \in Network /\ Readable(conn) \in Seq(ResponseUnits)
      /\ Len(Readable(conn)) <= Len(net[conn].down)
  BY <1>1, ReadableIs
<1> DEFINE d    == net[conn].down
           down == SubSeq(d, m + 1, Len(d))
           c    == [net[conn] EXCEPT !.down = down]
           r    == Readable(conn)
<1>3. d \in Seq(ResponseUnits \cup {Fin}) /\ Len(d) \in Nat
  BY <1>2, ConnectionTypes
<1>4. net' = [net EXCEPT ![conn] = c]
  BY DEF Takes
<1> HIDE DEF d, r
<1>5. m \in 1..Len(r) /\ r \in Seq(ResponseUnits) /\ Len(r) <= Len(d)
  BY <1>2 DEF d, r
<1>6. m \in Nat /\ m <= Len(d) /\ down \in Seq(ResponseUnits \cup {Fin})
  BY <1>3, <1>5
<1>7. /\ SubSeq(r, 1, m) \in Seq(ResponseUnits) /\ Len(SubSeq(r, 1, m)) = m
      /\ \A i \in 1..m : SubSeq(r, 1, m)[i] = r[i]
  BY <1>5
<1> HIDE DEF down
<1>8. c \in Network
  BY <1>2, <1>6, ConnectionTypes
<1>9. /\ c.down = down /\ c.up = net[conn].up /\ c.server = net[conn].server
      /\ c.reading = net[conn].reading /\ c.answered = net[conn].answered
  BY <1>2 DEF Network
<1> HIDE DEF c
<1>10. /\ net' \in Seq(Network) /\ Len(net') = Len(net) /\ Connections' = Connections
       /\ net'[conn] = c /\ \A j \in Connections : j # conn => net'[j] = net[j]
  BY <1>1, <1>4, <1>8, Replaces
<1> QED  BY <1>1, <1>6, <1>7, <1>9, <1>10 DEF d, r, down

\* A stream that ends goes on ending.
LEMMA FinStaysLast ==
  ASSUME NEW c \in Network, NEW d \in Network, FinIsLast(c),
         \/ Proceeds(c, d)
         \/ /\ d.server = c.server
            /\ \E m \in 0..Len(c.down) : d.down = SubSeq(c.down, m + 1, Len(c.down))
  PROVE  FinIsLast(d)
<1>1. c.down \in Seq(ResponseUnits \cup {Fin}) /\ Len(c.down) \in Nat
  BY ConnectionTypes
<1>2. \A u \in ResponseUnits : u.kind # "fin"
  BY DEF ResponseUnits
<1>3. CASE ReadsNext(c, d)
  BY <1>3 DEF ReadsNext, FinIsLast
<1>4. ASSUME c.server = "open" PROVE \A i \in 1..Len(c.down) : c.down[i].kind # "fin"
  BY <1>4 DEF FinIsLast
<1>5. CASE Responds(c, d)
  <2>1. PICK r : r \in Seq(ResponseUnits) /\ d.down = c.down \o r /\ c.server = "open"
    BY <1>5 DEF Responds, IsResponse
  <2>2. ASSUME NEW i \in 1..Len(d.down) PROVE d.down[i].kind # "fin"
    <3>1. /\ Len(d.down) = Len(c.down) + Len(r)
          /\ \A j \in 1..Len(c.down) : d.down[j] = c.down[j]
          /\ \A j \in Len(c.down) + 1..Len(c.down) + Len(r) :
               d.down[j] = r[j - Len(c.down)]
      <4>1. r \in Seq(ResponseUnits \cup {Fin})
        BY <2>1
      <4> QED  BY <1>1, <2>1, <4>1, Concat
    <3>2. CASE i <= Len(c.down)
      BY <1>1, <1>4, <2>1, <3>1, <3>2
    <3>3. CASE i > Len(c.down)
      <4>1. i - Len(c.down) \in 1..Len(r) /\ i \in Len(c.down) + 1..Len(c.down) + Len(r)
        BY <1>1, <2>1, <3>1, <3>3
      <4>2. r[i - Len(c.down)] \in ResponseUnits
        BY <2>1, <4>1
      <4> QED  BY <1>2, <3>1, <4>1, <4>2
    <3> QED  BY <1>1, <3>2, <3>3
  <2> QED  BY <2>2 DEF FinIsLast
<1>6. CASE EndsStream(c, d)
  <2>1. PICK m \in 0..Len(c.down) : d.down = Append(SubSeq(c.down, 1, m), Fin)
    BY <1>6 DEF EndsStream
  <2>2. c.down \in Seq(ResponseUnits)
    <3>1. \A i \in 1..Len(c.down) : c.down[i] \in ResponseUnits
      BY <1>1, <1>4, <1>6 DEF EndsStream, Fin
    <3> QED  BY <1>1, <3>1
  <2>3. d.down \in Downs
    BY <2>1, <2>2, DataEnded
  <2> QED  BY <1>6, <2>3 DEF FinIsLast, Downs, EndsStream
<1>7. CASE Breaks(c, d)
  <2>1. PICK m \in 0..Len(c.down) : d.down = SubSeq(c.down, 1, m)
    BY <1>7 DEF Breaks
  <2>2. Len(d.down) = m /\ \A i \in 1..m : d.down[i] = c.down[i]
    BY <1>1, <2>1
  <2>3. ASSUME NEW i \in 1..Len(d.down), d.down[i].kind = "fin" PROVE i = Len(d.down)
    <3>1. i \in 1..Len(c.down) /\ i <= m /\ c.down[i].kind = "fin"
      BY <1>1, <2>2, <2>3
    <3>2. i = Len(c.down)
      BY <3>1 DEF FinIsLast
    <3> QED  BY <1>1, <2>2, <3>1, <3>2
  <2> QED  BY <1>7, <2>3 DEF FinIsLast, Breaks
<1>8. CASE /\ d.server = c.server
           /\ \E m \in 0..Len(c.down) : d.down = SubSeq(c.down, m + 1, Len(c.down))
  <2>1. PICK m \in 0..Len(c.down) : d.down = SubSeq(c.down, m + 1, Len(c.down))
    BY <1>8
  <2>2. Len(d.down) = Len(c.down) - m /\ \A i \in 1..Len(c.down) - m : d.down[i] = c.down[m + i]
    BY <1>1, <2>1
  <2>3. ASSUME NEW i \in 1..Len(d.down), d.down[i].kind = "fin"
        PROVE  i = Len(d.down) /\ c.server # "open"
    <3>1. m + i \in 1..Len(c.down) /\ c.down[m + i].kind = "fin"
      BY <1>1, <2>2, <2>3
    <3>2. m + i = Len(c.down) /\ c.server # "open"
      BY <3>1 DEF FinIsLast
    <3> QED  BY <1>1, <2>2, <3>2
  <2> QED  BY <1>8, <2>3 DEF FinIsLast
<1>9. CASE Announces(c, d)
  <2>1. PICK u \in ResponseUnits : d.down = Append(c.down, u) /\ c.server = "open"
    BY <1>9, ConnectionTypes, InterimIs DEF Announces
  <2>2. /\ Len(d.down) = Len(c.down) + 1 /\ d.down[Len(c.down) + 1] = u
        /\ \A i \in 1..Len(c.down) : d.down[i] = c.down[i]
    BY <1>1, <2>1
  <2>3. \A i \in 1..Len(d.down) : d.down[i].kind # "fin"
    BY <1>1, <1>2, <1>4, <2>1, <2>2
  <2> QED  BY <2>3 DEF FinIsLast
<1> QED  BY <1>3, <1>5, <1>6, <1>7, <1>8, <1>9 DEF Proceeds

\* The types without the connections, and the connections.
LEMMA ResponseType ==
  ASSUME NEW a \in Answers
  PROVE  /\ Response(a) \in Results /\ Response(a).kind = "response"
         /\ Response(a).answer = a
         /\ Error \in Results /\ Error.kind = "error" /\ NoResult \in Results
         /\ NoResult.kind = "none"
BY NewParserType DEF Response, Error, NoResult, Results

\* What a call returns is typed and is no longer missing.
LEMMA Returning ==
  ASSUME TypeOK, Control, NEW r \in Results, pc # "idle", r.kind # "none",
         result' = [result EXCEPT ![request] = r], request' = request, pc' = "idle"
  PROVE  /\ result' \in [RequestNumbers -> Results] /\ request \in RequestNumbers
         /\ result'[request] = r
         /\ \A n \in RequestNumbers : n # request => result'[n] = result[n]
         /\ \A n \in RequestNumbers :
              result'[n].kind = "none" <=> n > request' \/ (n = request' /\ pc' # "idle")
<1>1. request \in RequestNumbers /\ result \in [RequestNumbers -> Results]
  BY DEF TypeOK, Control
<1>2. /\ result' \in [RequestNumbers -> Results] /\ result'[request] = r
      /\ \A n \in RequestNumbers : n # request => result'[n] = result[n]
  BY <1>1
<1>3. ASSUME NEW n \in RequestNumbers
      PROVE  result'[n].kind = "none" <=> n > request' \/ (n = request' /\ pc' # "idle")
  <2>1. result[n].kind = "none" <=> n > request \/ (n = request /\ pc # "idle")
    BY DEF Control
  <2>2. n \in Int /\ request \in Int
    BY <1>1, BoundAssumption DEF RequestNumbers
  <2> QED  BY <1>2, <2>1, <2>2
<1> QED  BY <1>1, <1>2, <1>3

\* Giving a connection up.
LEMMA TypeGivesUp ==
  ASSUME TypeOK, Control, NEW r \in Results, pc # "idle", r.kind # "none", GivesUp(r)
  PROVE  TypeOK' /\ Control'
<1>1. /\ conn \in Connections /\ Connections' = Connections
      /\ net' \in Seq(Network) /\ Len(net') = Len(net)
      /\ net'[conn].down = <<>>
      /\ \A k \in Connections : k # conn => net'[k] = net[k]
      /\ pc' = "idle" /\ conn' = 0 /\ unsent' = <<>> /\ parser' = NewParser
      /\ result' = [result EXCEPT ![request] = r]
      /\ UNCHANGED <<slot, request, stream>>
  BY GivingUp
<1>2. /\ result' \in [RequestNumbers -> Results]
      /\ \A n \in RequestNumbers :
           result'[n].kind = "none" <=> n > request' \/ (n = request' /\ pc' # "idle")
  BY <1>1, Returning
<1>3. TypeOK'
  <2>1. unsent' \in Seq(RequestUnits)
    BY <1>1
  <2> QED  BY <1>1, <1>2, <2>1, NewParserType DEF TypeOK
<1>4. \A k \in Connections' : FinIsLast(net'[k])
  BY <1>1 DEF FinIsLast, Control
<1> QED  BY <1>1, <1>2, <1>3, <1>4 DEF Control

\* What write_all is given to send.
LEMMA Begun ==
  ASSUME TypeOK, Control, NEW size \in 0..MaxUnits, Begin(size)
  PROVE  /\ request' = request + 1 /\ request \in Nat /\ request' \in RequestNumbers
         /\ unsent' \in Seq(RequestUnits) /\ Len(unsent') = size + 1 /\ size \in Nat
         /\ \A i \in 1..size + 1 :
              unsent'[i] = [kind |-> IF i = 1 THEN "head" ELSE "body",
                            req |-> request + 1, size |-> size]
         /\ pc = "idle" /\ pc' = "acquire"
         /\ UNCHANGED <<net, slot, conn, parser, result, stream>>
<1> DEFINE unit(kind) == [kind |-> kind, req |-> request + 1, size |-> size]
           a == <<unit("head")>>
           b == [i \in 1..size |-> unit("body")]
<1>1. /\ request' = request + 1 /\ pc = "idle" /\ pc' = "acquire"
      /\ unsent' = a \o b /\ request < MaxRequests
      /\ UNCHANGED <<net, slot, conn, parser, result, stream>>
  BY DEF Begin
<1>2. size \in Nat /\ request \in Nat /\ request + 1 \in RequestNumbers
  BY <1>1, BoundAssumption DEF TypeOK, RequestNumbers
<1>3. unit("head") \in RequestUnits /\ unit("body") \in RequestUnits
  BY <1>2 DEF RequestUnits
<1>4. a \in Seq(RequestUnits) /\ Len(a) = 1 /\ a[1] = unit("head")
  BY <1>3
<1>5. b \in Seq(RequestUnits) /\ Len(b) = size /\ \A i \in 1..size : b[i] = unit("body")
  BY <1>2, <1>3
<1> HIDE DEF a, b
<1>6. /\ a \o b \in Seq(RequestUnits) /\ Len(a \o b) = Len(a) + Len(b)
      /\ \A i \in 1..Len(a) : (a \o b)[i] = a[i]
      /\ \A i \in Len(a) + 1..Len(a) + Len(b) : (a \o b)[i] = b[i - Len(a)]
  BY <1>4, <1>5, Concat
<1>7. ASSUME NEW i \in 1..size + 1
      PROVE  unsent'[i] = [kind |-> IF i = 1 THEN "head" ELSE "body",
                           req |-> request + 1, size |-> size]
  <2>1. CASE i = 1
    <3>1. unsent'[1] = unit("head")
      BY <1>1, <1>4, <1>6
    <3> QED  BY <2>1, <3>1
  <2>2. CASE i # 1
    <3>1. i - 1 \in 1..size /\ i \in Len(a) + 1..Len(a) + Len(b)
      BY <1>2, <1>4, <1>5, <2>2
    <3>2. unsent'[i] = unit("body")
      BY <1>1, <1>4, <1>5, <1>6, <3>1
    <3> QED  BY <2>2, <3>2
  <2> QED  BY <2>1, <2>2
<1> QED  BY <1>1, <1>2, <1>4, <1>5, <1>6, <1>7

LEMMA TypeStep ==
  ASSUME TypeOK, Control, [Next]_vars
  PROVE  TypeOK' /\ Control'
<1>1. \A n \in RequestNumbers : n \in Nat
  BY BoundAssumption DEF RequestNumbers
<1>2. /\ Len(net) \in Nat /\ Len(stream) = Len(net) /\ request \in Nat
      /\ parser \in Parsers /\ parser.answer \in Answers
  BY BoundAssumption DEF TypeOK, Parsers, RequestNumbers
<1>3. ASSUME NEW size \in 0..MaxUnits, Begin(size) PROVE TypeOK' /\ Control'
  <2>1. /\ request' = request + 1 /\ request' \in RequestNumbers
        /\ unsent' \in Seq(RequestUnits) /\ Len(unsent') = size + 1 /\ size \in Nat
        /\ pc = "idle" /\ pc' = "acquire"
        /\ UNCHANGED <<net, slot, conn, parser, result, stream>>
    BY <1>3, Begun
  <2>2. unsent' # <<>>
    BY <2>1
  <2>3. Connections' = Connections
    BY <2>1 DEF Connections
  <2>4. TypeOK'
    BY <2>1, <2>3 DEF TypeOK
  <2>5. \A n \in RequestNumbers :
          result'[n].kind = "none" <=> n > request' \/ (n = request' /\ pc' # "idle")
    <3> TAKE n \in RequestNumbers
    <3>1. result[n].kind = "none" <=> n > request
      BY <2>1 DEF Control
    <3> QED  BY <1>1, <1>2, <2>1, <3>1
  <2>6. \A k \in Connections' : FinIsLast(net'[k])
    BY <2>1, <2>3 DEF Control
  <2> QED  BY <1>2, <2>1, <2>2, <2>4, <2>5, <2>6 DEF Control
<1>4. CASE Adopt
  <2>1. Connections' = Connections
    BY <1>4 DEF Adopt, Connections
  <2>2. TypeOK'
    BY <1>4, <2>1 DEF Adopt, TypeOK
  <2>3. \A k \in Connections' : FinIsLast(net'[k])
    BY <1>4, <2>1 DEF Adopt, Control
  <2> QED  BY <1>4, <2>2, <2>3 DEF Adopt, Control
<1>5. CASE Connect
  <2>1. /\ net' = Append(net, NewConnection) /\ stream' = Append(stream, <<>>)
        /\ conn' = Len(net) + 1 /\ pc = "acquire" /\ slot = 0 /\ pc' = "write"
        /\ UNCHANGED <<slot, request, unsent, parser, result>>
    BY <1>5 DEF Connect
  <2>2. net \in Seq(Network) /\ stream \in Seq(Seq(RequestUnits)) /\ <<>> \in Seq(RequestUnits)
    BY DEF TypeOK
  <2>3. /\ net' \in Seq(Network) /\ Len(net') = Len(net) + 1
        /\ net'[Len(net) + 1] = NewConnection
        /\ \A k \in 1..Len(net) : net'[k] = net[k]
    BY <2>1, <2>2, NewConnectionType
  <2>4. stream' \in Seq(Seq(RequestUnits)) /\ Len(stream') = Len(stream) + 1
    BY <2>1, <2>2
  <2>5. Len(net) + 1 <= request /\ request <= MaxRequests
    BY <1>2, <2>1, BoundAssumption DEF Control, TypeOK, RequestNumbers
  <2>6. conn' # 0 /\ conn' \in Connections'
    BY <1>2, <2>1, <2>3 DEF Connections
  <2>7. TypeOK'
    BY <1>2, <2>1, <2>3, <2>4, <2>5, <2>6, BoundAssumption DEF TypeOK
  <2>8. \A k \in Connections' : FinIsLast(net'[k])
    <3> TAKE k \in Connections'
    <3>1. k \in 1..Len(net) \/ k = Len(net) + 1
      BY <1>2, <2>3 DEF Connections
    <3>2. CASE k \in 1..Len(net)
      BY <2>3, <3>2 DEF Control, Connections
    <3>3. CASE k = Len(net) + 1
      BY <2>3, <3>3, NewConnectionType DEF FinIsLast
    <3> QED  BY <3>1, <3>2, <3>3
  <2>9. \A n \in RequestNumbers :
          result'[n].kind = "none" <=> n > request' \/ (n = request' /\ pc' # "idle")
    BY <2>1 DEF Control
  <2> QED  BY <2>1, <2>3, <2>5, <2>7, <2>8, <2>9 DEF Control
<1>6. CASE ConnectFails
  <2>1. /\ pc = "acquire" /\ pc' = "idle" /\ conn' = 0
        /\ result' = [result EXCEPT ![request] = Error]
        /\ unsent' = <<>> /\ parser' = NewParser /\ UNCHANGED <<net, slot, request, stream>>
    BY <1>6 DEF ConnectFails, Return
  <2>2. Error \in Results /\ Error.kind # "none"
    BY <1>2, ResponseType
  <2>3. /\ result' \in [RequestNumbers -> Results]
        /\ \A n \in RequestNumbers :
             result'[n].kind = "none" <=> n > request' \/ (n = request' /\ pc' # "idle")
    BY <2>1, <2>2, Returning
  <2>4. Connections' = Connections /\ unsent' \in Seq(RequestUnits)
    BY <2>1 DEF Connections
  <2>5. TypeOK'
    BY <2>1, <2>3, <2>4, NewParserType DEF TypeOK
  <2>6. \A k \in Connections' : FinIsLast(net'[k])
    BY <2>1, <2>4 DEF Control
  <2> QED  BY <2>1, <2>3, <2>5, <2>6 DEF Control
<1>7. CASE Write
  <2>1. /\ conn \in Connections /\ Connections' = Connections
        /\ net' \in Seq(Network) /\ Len(net') = Len(net)
        /\ unsent # <<>> /\ unsent[1] \in RequestUnits
        /\ \A k \in Connections : k # conn => net'[k] = net[k]
        /\ net'[conn].down = net[conn].down /\ net'[conn].server = net[conn].server
    BY <1>7, Written
  <2>2. /\ stream' = [stream EXCEPT ![conn] = Append(@, Head(unsent))]
        /\ unsent' = Tail(unsent) /\ pc = "write"
        /\ pc' = IF Tail(unsent) = <<>> THEN "read" ELSE "write"
        /\ UNCHANGED <<slot, request, conn, parser, result>>
    BY <1>7 DEF Write
  <2>3. unsent' \in Seq(RequestUnits) /\ Head(unsent) \in RequestUnits
    BY <2>1, <2>2 DEF TypeOK
  <2>4. stream' \in Seq(Seq(RequestUnits)) /\ Len(stream') = Len(stream)
    <3>1. stream \in Seq(Seq(RequestUnits)) /\ conn \in 1..Len(stream)
      BY <2>1 DEF TypeOK, Connections
    <3> DEFINE s == Append(stream[conn], Head(unsent))
    <3>2. s \in Seq(RequestUnits)
      BY <2>3, <3>1
    <3>3. stream' = [stream EXCEPT ![conn] = s]
      BY <2>2
    <3> HIDE DEF s
    <3> QED  BY <3>1, <3>2, <3>3, Updated
  <2>5. TypeOK'
    BY <2>1, <2>2, <2>3, <2>4 DEF TypeOK
  <2>6. \A k \in Connections' : FinIsLast(net'[k])
    BY <2>1 DEF Control, FinIsLast
  <2>7. parser' = NewParser /\ parser'.stage = "head"
    BY <2>2, NewParserType DEF Control
  <2> QED  BY <2>1, <2>2, <2>5, <2>6, <2>7 DEF Control
<1>8. CASE Retain
  <2>1. /\ pc = "decide" /\ pc' = "idle" /\ conn' = 0 /\ slot' = conn
        /\ result' = [result EXCEPT ![request] = Response(parser.answer)]
        /\ unsent' = <<>> /\ parser' = NewParser /\ UNCHANGED <<net, request, stream>>
    BY <1>8 DEF Retain, Return
  <2>2. Response(parser.answer) \in Results /\ Response(parser.answer).kind # "none"
    BY <1>2, ResponseType
  <2>3. /\ result' \in [RequestNumbers -> Results]
        /\ \A n \in RequestNumbers :
             result'[n].kind = "none" <=> n > request' \/ (n = request' /\ pc' # "idle")
    BY <2>1, <2>2, Returning
  <2>4. Connections' = Connections /\ unsent' \in Seq(RequestUnits)
    BY <2>1 DEF Connections
  <2>5. TypeOK'
    BY <2>1, <2>3, <2>4, NewParserType DEF TypeOK
  <2>6. \A k \in Connections' : FinIsLast(net'[k])
    BY <2>1, <2>4 DEF Control
  <2> QED  BY <2>1, <2>3, <2>5, <2>6 DEF Control
<1>9. CASE pc \in {"write", "read", "decide"} /\ GivesUp(Error)
  <2>1. Error \in Results /\ Error.kind # "none"
    BY <1>2, ResponseType
  <2> QED  BY <1>9, <2>1, TypeGivesUp
<1>10. CASE Delivers /\ GivesUp(Response(parser.answer))
  <2>1. Response(parser.answer) \in Results /\ Response(parser.answer).kind # "none"
    BY <1>2, ResponseType
  <2>2. pc # "idle"
    BY <1>10 DEF Delivers
  <2> QED  BY <1>10, <2>1, <2>2, TypeGivesUp
<1>11. ASSUME NEW m \in 1..Len(Readable(conn)), Takes(m) PROVE TypeOK' /\ Control'
  <2>1. /\ conn \in Connections /\ Connections' = Connections
        /\ net' \in Seq(Network) /\ Len(net') = Len(net)
        /\ \A k \in Connections : k # conn => net'[k] = net[k]
        /\ net'[conn].server = net[conn].server
        /\ m \in Nat /\ m <= Len(net[conn].down)
        /\ net'[conn].down = SubSeq(net[conn].down, m + 1, Len(net[conn].down))
        /\ SubSeq(Readable(conn), 1, m) \in Seq(ResponseUnits)
    BY <1>11, Taken
  <2>2. /\ pc = "read" /\ parser' = Parse(parser, SubSeq(Readable(conn), 1, m))
        /\ parser'.stage # "error"
        /\ pc' = IF parser'.stage = "complete" THEN "decide" ELSE "read"
        /\ UNCHANGED <<slot, request, conn, unsent, result, stream>>
    BY <1>11 DEF Takes
  <2>3. parser' \in Parsers
    <3> DEFINE units == SubSeq(Readable(conn), 1, m)
               T == Nat \X Parsers
    <3>1. units \in Seq(ResponseUnits) /\ Len(units) \in Nat
      BY <2>1
    <3>2. <<0, parser>> \in T
      BY <1>2
    <3> HIDE DEF units
    <3>3. ASSUME NEW i \in 1..Len(units), NEW q \in Parsers
          PROVE  <<i - 1, q>> \in T => <<i, ParseUnit(q, units[i])>> \in T
      <4>1. i \in Nat /\ units[i] \in ResponseUnits
        BY <3>1
      <4> QED  BY <4>1, ParseUnitType
    <3> HIDE DEF T
    <3>4. Parse(parser, units) \in Parsers
      BY <1>2, <3>1, <3>2, <3>3, ParseInvariant
    <3> QED  BY <2>2, <3>4 DEF units
  <2>4. TypeOK'
    BY <2>1, <2>2, <2>3 DEF TypeOK
  <2>5. \A k \in Connections' : FinIsLast(net'[k])
    <3>1. FinIsLast(net'[conn])
      <4>1. net[conn] \in Network /\ net'[conn] \in Network /\ FinIsLast(net[conn])
        BY <2>1 DEF TypeOK, Control, Connections
      <4>2. m \in 0..Len(net[conn].down)
        <5>1. Len(net[conn].down) \in Nat
          BY <4>1, ConnectionTypes
        <5> QED  BY <2>1, <5>1
      <4> QED  BY <2>1, <4>1, <4>2, FinStaysLast
    <3> QED  BY <2>1, <3>1 DEF Control
  <2>6. parser'.stage \in {"head", "counted", "close", "complete", "error"}
    BY <2>3 DEF Parsers
  <2> QED  BY <2>1, <2>2, <2>4, <2>5, <2>6 DEF Control
<1>12. ASSUME NEW k \in Connections, Server(k) PROVE TypeOK' /\ Control'
  <2>1. FinIsLast(net[k])
    BY DEF Control
  <2>2. /\ net' \in Seq(Network) /\ Len(net') = Len(net)
        /\ \A j \in Connections : j # k => net'[j] = net[j]
        /\ Proceeds(net[k], net'[k])
        /\ UNCHANGED <<slot, pc, request, conn, unsent, parser, result, stream>>
    BY <1>12, <2>1, Serving
  <2>3. Connections' = Connections
    BY <2>2 DEF Connections
  <2>4. TypeOK'
    BY <2>2, <2>3 DEF TypeOK
  <2>5. \A j \in Connections' : FinIsLast(net'[j])
    <3>1. net[k] \in Network /\ net'[k] \in Network
      BY <2>2 DEF TypeOK, Connections
    <3>2. FinIsLast(net'[k])
      BY <2>1, <2>2, <3>1, FinStaysLast
    <3> QED  BY <2>2, <2>3, <3>2 DEF Control
  <2> QED  BY <2>2, <2>4, <2>5 DEF Control
<1>13. CASE UNCHANGED vars
  <2>1. Connections' = Connections /\ UNCHANGED vars
    BY <1>13 DEF vars, Connections
  <2>2. TypeOK'
    BY <2>1 DEF TypeOK, vars
  <2>3. \A j \in Connections' : FinIsLast(net'[j])
    BY <2>1 DEF Control, vars
  <2> QED  BY <2>1, <2>2, <2>3 DEF Control, vars
<1> QED  BY <1>3, <1>4, <1>5, <1>6, <1>7, <1>8, <1>9, <1>10, <1>11, <1>12, <1>13, Steps

-------------------------------------------------------------------------------
(* What is written.                                                        *)

\* How a sequence ends depends on what is in it up to there.
LEMMA EndsAlike ==
  ASSUME NEW s, NEW t, NEW e \in Nat \ {0}, NEW missing \in Nat,
         s[e].size \in Nat, \A j \in 1..e : t[j] = s[j], EndsWithin(s, e, missing)
  PROVE  EndsWithin(t, e, missing)
<1>1. e \in 1..e /\ t[e] = s[e]
  OBVIOUS
<1> QED  BY <1>1 DEF EndsWithin

LEMMA UnitType ==
  ASSUME NEW u \in RequestUnits
  PROVE  u.kind \in {"head", "body"} /\ u.req \in Nat \ {0} /\ u.size \in Nat
BY BoundAssumption DEF RequestUnits, RequestNumbers

LEMMA UnitTypes ==
  ASSUME NEW s \in Seq(RequestUnits)
  PROVE  /\ Len(s) \in Nat
         /\ \A i \in 1..Len(s) :
              s[i].kind \in {"head", "body"} /\ s[i].req \in Nat /\ s[i].size \in Nat
<1>1. \A i \in 1..Len(s) : s[i] \in RequestUnits
  OBVIOUS
<1> QED  BY <1>1, UnitType

\* A unit behind what is in order, that goes on with it or begins behind its end.
LEMMA AppendUnit ==
  ASSUME NEW s \in Seq(RequestUnits), NEW u \in RequestUnits, InOrder(s),
         u.kind = "head" => EndsWhole(s) /\ \A i \in 1..Len(s) : s[i].req < u.req,
         u.kind = "body" => s # <<>> /\ s[Len(s)].req = u.req
  PROVE  InOrder(Append(s, u))
<1> DEFINE t == Append(s, u)
           n == Len(s)
<1>1. /\ t \in Seq(RequestUnits) /\ Len(t) = n + 1 /\ t[n + 1] = u
      /\ \A i \in 1..n : t[i] = s[i]
  OBVIOUS
<1>2. /\ n \in Nat /\ u.kind \in {"head", "body"} /\ u.req \in Nat
      /\ \A i \in 1..n : s[i].req \in Nat /\ s[i].size \in Nat
  BY UnitType, UnitTypes
<1>3. s = <<>> <=> n = 0
  OBVIOUS
<1> HIDE DEF t, n
<1>4. ASSUME NEW i \in 1..n PROVE s[i].req <= u.req /\ (u.kind = "head" => s[i].req < u.req)
  <2>1. CASE u.kind = "head"
    BY <1>2, <2>1 DEF n
  <2>2. CASE u.kind = "body"
    <3>1. s[n].req = u.req /\ n \in 1..n
      BY <1>2, <1>3, <2>2 DEF n
    <3>2. i = n \/ s[i].req <= s[n].req
      BY <1>2, <3>1 DEF InOrder, n
    <3> QED  BY <1>2, <2>2, <3>1, <3>2
  <2> QED  BY <1>2, <2>1, <2>2
<1>5. ASSUME NEW i \in 1..n + 1, NEW j \in 1..n + 1, i < j
      PROVE  t[i].req <= t[j].req /\ (t[j].kind = "head" => t[i].req < t[j].req)
  <2>1. i \in 1..n /\ (j \in 1..n \/ j = n + 1)
    BY <1>2, <1>5
  <2>2. CASE j \in 1..n
    <3>1. s[i].req <= s[j].req /\ (s[j].kind = "head" => s[i].req < s[j].req)
      BY <1>5, <2>1, <2>2 DEF InOrder, n
    <3> QED  BY <1>1, <2>1, <2>2, <3>1
  <2>3. CASE j = n + 1
    BY <1>1, <1>4, <2>1, <2>3
  <2> QED  BY <2>1, <2>2, <2>3
<1>6. ASSUME NEW i \in 1..n + 1
      PROVE  /\ t[i].kind = "body" => i > 1 /\ t[i].req = t[i - 1].req
             /\ t[i].kind = "head" /\ i > 1 => EndsWithin(t, i - 1, 0)
  <2>1. i \in 1..n \/ i = n + 1
    BY <1>2
  <2>2. CASE i \in 1..n
    <3>1. t[i] = s[i] /\ (i > 1 => i - 1 \in 1..n /\ t[i - 1] = s[i - 1])
      BY <1>1, <1>2, <2>2
    <3>2. s[i].kind = "body" => i > 1 /\ s[i].req = s[i - 1].req
      BY <2>2 DEF InOrder, n
    <3>3. ASSUME s[i].kind = "head", i > 1 PROVE EndsWithin(t, i - 1, 0)
      <4>1. EndsWithin(s, i - 1, 0)
        BY <2>2, <3>3 DEF InOrder, n
      <4>2. /\ i - 1 \in Nat \ {0} /\ s[i - 1].size \in Nat
            /\ \A j \in 1..i - 1 : t[j] = s[j]
        BY <1>1, <1>2, <2>2, <3>1, <3>3
      <4> QED  BY <4>1, <4>2, EndsAlike
    <3> QED  BY <3>1, <3>2, <3>3
  <2>3. CASE i = n + 1
    <3>1. t[i] = u /\ i - 1 = n /\ (n > 0 => t[n] = s[n] /\ n \in 1..n)
      BY <1>1, <1>2, <2>3
    <3>2. u.kind = "body" => i > 1 /\ u.req = s[n].req
      BY <1>2, <1>3, <2>3 DEF n
    <3>3. ASSUME u.kind = "head", i > 1 PROVE EndsWithin(t, n, 0)
      <4>1. EndsWithin(s, n, 0) /\ n > 0
        BY <1>2, <1>3, <2>3, <3>3 DEF EndsWhole, n
      <4>2. n \in Nat \ {0} /\ s[n].size \in Nat
        BY <1>2, <3>1, <4>1
      <4> QED  BY <1>1, <4>1, <4>2, EndsAlike
    <3> QED  BY <1>2, <3>1, <3>2, <3>3
  <2> QED  BY <2>1, <2>2, <2>3
<1>7. InOrder(t)
  BY <1>1, <1>5, <1>6 DEF InOrder
<1> QED  BY <1>7 DEF t

\* How it ends then: the head of a request lacks its body, a unit of the body one
\* unit less than before.
LEMMA AppendEnds ==
  ASSUME NEW s \in Seq(RequestUnits), NEW u \in RequestUnits, NEW missing \in Nat,
         \/ /\ u.kind = "head" /\ missing = u.size
            /\ \A i \in 1..Len(s) : s[i].req < u.req
         \/ /\ s # <<>> /\ s[Len(s)].req = u.req /\ s[Len(s)].size = u.size
            /\ EndsWithin(s, Len(s), missing + 1)
  PROVE  EndsWithin(Append(s, u), Len(Append(s, u)), missing)
<1> DEFINE t == Append(s, u)
           n == Len(s)
<1>1. Len(t) = n + 1 /\ t[n + 1] = u /\ \A i \in 1..n : t[i] = s[i]
  OBVIOUS
<1>2. /\ n \in Nat /\ u.req \in Nat /\ u.size \in Nat
      /\ \A i \in 1..n : s[i].req \in Nat /\ s[i].size \in Nat
  BY UnitType, UnitTypes
<1>3. s = <<>> <=> n = 0
  OBVIOUS
<1> HIDE DEF t, n
<1> DEFINE first == (n + 1) - u.size + missing
<1>4. CASE u.kind = "head" /\ missing = u.size /\ \A i \in 1..Len(s) : s[i].req < u.req
  <2>1. first = n + 1
    BY <1>2, <1>4
  <2>2. ASSUME NEW j \in 1..n + 1 PROVE t[j].req = u.req <=> j >= n + 1
    <3>1. j \in 1..n \/ j = n + 1
      BY <1>2
    <3>2. ASSUME j \in 1..n PROVE t[j].req < u.req
      BY <1>1, <1>4, <3>2 DEF n
    <3>3. j \in 1..n => t[j].req \in Nat
      BY <1>1, <1>2
    <3> QED  BY <1>1, <1>2, <3>1, <3>2, <3>3
  <2> HIDE DEF first
  <2>3. n + 1 \in 1..n + 1
    BY <1>2
  <2>4. EndsWithin(t, n + 1, missing)
    BY <1>1, <1>4, <2>1, <2>2, <2>3 DEF EndsWithin, first
  <2> QED  BY <1>1, <2>4 DEF t
<1>5. CASE /\ s # <<>> /\ s[Len(s)].req = u.req /\ s[Len(s)].size = u.size
           /\ EndsWithin(s, Len(s), missing + 1)
  <2>1. first \in 1..n /\ s[first].kind = "head"
        /\ \A j \in 1..n : s[j].req = u.req <=> j >= first
    <3>1. n - s[n].size + (missing + 1) = first
      <4>1. n \in 1..n /\ s[n].size = u.size
        BY <1>2, <1>3, <1>5 DEF n
      <4>2. \A x \in Nat : n - x + (missing + 1) = (n + 1) - x + missing
        BY <1>2
      <4>3. n - u.size + (missing + 1) = first
        BY <1>2, <4>2
      <4> HIDE DEF first
      <4> QED  BY <4>1, <4>3
    <3> HIDE DEF first
    <3> QED  BY <1>5, <3>1 DEF EndsWithin, n
  <2> HIDE DEF first
  <2>2. ASSUME NEW j \in 1..n + 1 PROVE t[j].req = u.req <=> j >= first
    <3>1. j \in 1..n \/ j = n + 1
      BY <1>2
    <3> QED  BY <1>1, <1>2, <2>1, <3>1
  <2>3. first \in 1..n + 1 /\ t[first].kind = "head"
    BY <1>1, <1>2, <2>1
  <2>4. EndsWithin(t, n + 1, missing)
    BY <1>1, <2>2, <2>3 DEF EndsWithin, first
  <2> QED  BY <1>1, <2>4 DEF t
<1> QED  BY <1>4, <1>5

\* What keeps the requests where they are and begins none keeps all of it.
LEMMA WritingKept ==
  ASSUME Writing, UNCHANGED <<stream, slot, request, conn, unsent>>,
         Connections' = Connections, pc' = "acquire" => pc = "acquire"
  PROVE  Writing'
<1>1. NothingSent' <=> NothingSent
  BY DEF NothingSent
<1>2. RestOfRequest'
  BY DEF Writing, RestOfRequest
<1>3. \A k \in Connections' : InOrder(stream'[k]) /\ UpToNow(stream[k])'
  BY <1>1 DEF Writing, UpToNow
<1>4. Ends'
  BY <1>1 DEF Writing, Ends
<1>5. BegunOnce'
  BY DEF Writing, BegunOnce
<1> QED  BY <1>2, <1>3, <1>4, <1>5 DEF Writing

\* A call that returns sends nothing more; a connection it keeps ends with a whole
\* request.
LEMMA WritingReturned ==
  ASSUME TypeOK, Control, Writing, UNCHANGED <<stream, request>>, unsent' = <<>>,
         Connections' = Connections, conn' = 0,
         slot' = slot \/ (slot' = conn /\ unsent = <<>>)
  PROVE  Writing'
<1>1. ~NothingSent' /\ RestOfRequest'
  BY DEF NothingSent, RestOfRequest
<1>2. \A k \in Connections' : InOrder(stream'[k]) /\ UpToNow(stream[k])'
  BY <1>1 DEF Writing, UpToNow
<1>3. slot' # 0 => EndsWhole(stream'[slot'])
  <2>1. CASE slot' = slot
    BY <2>1 DEF Writing, Ends
  <2>2. CASE slot' = conn /\ unsent = <<>>
    <3>1. ~NothingSent /\ Len(unsent) = 0
      BY <2>2 DEF NothingSent
    <3> QED  BY <2>2, <3>1 DEF Writing, Ends, EndsWhole
  <2> QED  BY <2>1, <2>2
<1>4. Ends'
  BY <1>3 DEF Ends
<1>5. BegunOnce'
  BY DEF Writing, BegunOnce
<1> QED  BY <1>1, <1>2, <1>4, <1>5 DEF Writing

\* A unit is written on the connection in use, and on no other.
LEMMA StreamAfterWrite ==
  ASSUME TypeOK, Control, Write
  PROVE  /\ stream[conn] \in Seq(RequestUnits) /\ Len(stream'[conn]) = Len(stream[conn]) + 1
         /\ stream'[conn] = Append(stream[conn], unsent[1])
         /\ stream'[conn][Len(stream[conn]) + 1] = unsent[1]
         /\ \A i \in 1..Len(stream[conn]) : stream'[conn][i] = stream[conn][i]
         /\ \A k \in Connections : k # conn => stream'[k] = stream[k]
<1>1. stream \in Seq(Seq(RequestUnits)) /\ conn \in 1..Len(stream) /\ Head(unsent) = unsent[1]
      /\ unsent[1] \in RequestUnits /\ Connections = 1..Len(stream)
  BY Written DEF TypeOK, Connections
<1> DEFINE s == stream[conn]
           t == Append(s, unsent[1])
<1>2. s \in Seq(RequestUnits)
  BY <1>1
<1>3. stream' = [stream EXCEPT ![conn] = t]
  BY <1>1 DEF Write
<1> HIDE DEF s
<1>4. /\ t \in Seq(RequestUnits) /\ Len(t) = Len(s) + 1 /\ t[Len(s) + 1] = unsent[1]
      /\ \A i \in 1..Len(s) : t[i] = s[i]
  BY <1>1, <1>2
<1> HIDE DEF t
<1>5. stream'[conn] = t /\ \A k \in 1..Len(stream) : k # conn => stream'[k] = stream[k]
  BY <1>1, <1>3, <1>4, Updated
<1> QED  BY <1>1, <1>2, <1>4, <1>5 DEF s, t

\* The next unit of the request is written.
LEMMA WritingWrite ==
  ASSUME TypeOK, Control, Writing, Write
  PROVE  Writing'
<1> DEFINE s == stream[conn]
           t == stream'[conn]
           u == unsent[1]
           n == Len(s)
<1>1. /\ s \in Seq(RequestUnits) /\ t = Append(s, u) /\ Len(t) = n + 1 /\ t[n + 1] = u
      /\ \A i \in 1..n : t[i] = s[i]
      /\ \A k \in Connections : k # conn => stream'[k] = stream[k]
  BY StreamAfterWrite
<1>2. /\ conn \in Connections /\ Connections' = Connections /\ u \in RequestUnits
      /\ unsent # <<>> /\ unsent \in Seq(RequestUnits) /\ conn # 0
      /\ unsent' = Tail(unsent) /\ slot = 0
      /\ pc' \in {"read", "write"} /\ UNCHANGED <<slot, request, conn>>
  BY Written DEF Write, TypeOK
<1>3. /\ n \in Nat /\ u.kind \in {"head", "body"} /\ u.req \in Nat /\ u.size \in Nat
      /\ request \in Nat
      /\ \A i \in 1..n : s[i].req \in Nat
  <2>1. request \in Nat
    BY BoundAssumption DEF TypeOK, RequestNumbers
  <2>2. u.kind \in {"head", "body"} /\ u.req \in Nat /\ u.size \in Nat
    BY <1>2, UnitType
  <2>3. n \in Nat /\ \A i \in 1..n : s[i].req \in Nat
    BY <1>1, UnitTypes
  <2> QED  BY <2>1, <2>2, <2>3
<1>4. /\ Len(unsent) \in Nat \ {0} /\ Len(unsent') = Len(unsent) - 1
      /\ unsent' \in Seq(RequestUnits)
      /\ \A i \in 1..Len(unsent) - 1 : unsent'[i] = unsent[i + 1]
  BY <1>2
<1>5. /\ u.req = request /\ Len(unsent) <= u.size + 1
      /\ u.kind = "head" <=> Len(unsent) = u.size + 1
      /\ \A i \in 1..Len(unsent) :
           /\ unsent[i].req = request /\ unsent[i].size = u.size
           /\ i > 1 => unsent[i].kind = "body"
  BY <1>2, <1>4 DEF Writing, RestOfRequest
<1>6. NothingSent <=> u.kind = "head"
  BY <1>2 DEF NothingSent
<1>7. /\ InOrder(s) /\ \A i \in 1..n : s[i].req <= request /\ (u.kind = "head" => s[i].req < request)
  BY <1>2, <1>6 DEF Writing, UpToNow
<1>8. u.kind = "head" => EndsWhole(s)
  BY <1>2, <1>6 DEF Writing, Ends
<1>9. u.kind = "body" =>
        /\ s # <<>> /\ s[n].req = request /\ EndsWithin(s, n, Len(unsent))
        /\ s[n].size = u.size
  BY <1>2, <1>6 DEF Writing, Ends
<1> HIDE DEF s, t, u, n
<1>10. InOrder(t)
  <2>1. u.kind = "head" => EndsWhole(s) /\ \A i \in 1..Len(s) : s[i].req < u.req
    BY <1>5, <1>7, <1>8 DEF n
  <2>2. u.kind = "body" => s # <<>> /\ s[Len(s)].req = u.req
    BY <1>5, <1>9 DEF n
  <2> QED  BY <1>1, <1>2, <1>7, <2>1, <2>2, AppendUnit
<1>11. EndsWithin(t, Len(t), Len(unsent'))
  <2> DEFINE missing == Len(unsent) - 1
  <2>1. missing \in Nat /\ missing + 1 = Len(unsent)
    BY <1>4
  <2> HIDE DEF missing
  <2>2. \/ /\ u.kind = "head" /\ missing = u.size
           /\ \A i \in 1..Len(s) : s[i].req < u.req
        \/ /\ s # <<>> /\ s[Len(s)].req = u.req /\ s[Len(s)].size = u.size
           /\ EndsWithin(s, Len(s), missing + 1)
    <3>1. CASE u.kind = "head"
      BY <1>3, <1>5, <1>7, <2>1, <3>1 DEF n
    <3>2. CASE u.kind = "body"
      BY <1>5, <1>9, <2>1, <3>2 DEF n
    <3> QED  BY <1>3, <3>1, <3>2
  <2>3. EndsWithin(Append(s, u), Len(Append(s, u)), missing)
    BY <1>1, <1>2, <2>1, <2>2, AppendEnds
  <2> QED  BY <1>1, <1>4, <2>3 DEF missing
<1>12. ~NothingSent'
  <2>1. ASSUME unsent' # <<>> PROVE unsent'[1].kind = "body"
    <3>1. 1 \in 1..Len(unsent) - 1 /\ 2 \in 1..Len(unsent)
      BY <1>4, <2>1
    <3> QED  BY <1>4, <1>5, <3>1
  <2> QED  BY <2>1 DEF NothingSent
<1>13. RestOfRequest'
  <2>1. ASSUME unsent' # <<>>
        PROVE  /\ \A i \in 1..Len(unsent') :
                    /\ unsent'[i].req = request' /\ unsent'[i].size = unsent'[1].size
                    /\ i > 1 => unsent'[i].kind = "body"
               /\ Len(unsent') <= unsent'[1].size + 1
               /\ unsent'[1].kind = "head" <=> Len(unsent') = unsent'[1].size + 1
    <3>1. 1 \in 1..Len(unsent) - 1 /\ 2 \in 1..Len(unsent)
      BY <1>4, <2>1
    <3>2. unsent'[1] = unsent[2] /\ unsent[2].size = u.size /\ unsent[2].kind = "body"
      BY <1>4, <1>5, <3>1
    <3>3. \A i \in 1..Len(unsent') :
            i + 1 \in 1..Len(unsent) /\ i + 1 > 1 /\ unsent'[i] = unsent[i + 1]
      BY <1>4
    <3>4. Len(unsent') <= u.size /\ Len(unsent') \in Nat
      BY <1>3, <1>4, <1>5
    <3>5. \A i \in 1..Len(unsent') :
            /\ unsent'[i].req = request' /\ unsent'[i].size = unsent'[1].size
            /\ i > 1 => unsent'[i].kind = "body"
      BY <1>2, <1>5, <3>2, <3>3
    <3>6. Len(unsent') <= unsent'[1].size + 1 /\ Len(unsent') # unsent'[1].size + 1
      BY <1>3, <3>2, <3>4
    <3>7. unsent'[1].kind # "head"
      BY <3>2
    <3> QED  BY <3>5, <3>6, <3>7
  <2> QED  BY <1>2, <2>1 DEF RestOfRequest
<1>14. \A k \in Connections' : InOrder(stream'[k]) /\ UpToNow(stream[k])'
  <2>1. ASSUME NEW k \in Connections, k # conn PROVE InOrder(stream'[k]) /\ UpToNow(stream[k])'
    BY <1>1, <1>2, <1>12, <2>1 DEF Writing, UpToNow
  <2>2. \A i \in 1..Len(t) : t[i].req <= request
    <3> TAKE i \in 1..Len(t)
    <3>1. i \in 1..n \/ i = n + 1
      BY <1>1, <1>3
    <3> QED  BY <1>1, <1>3, <1>5, <1>7, <3>1
  <2>3. InOrder(stream'[conn]) /\ UpToNow(stream[conn])'
    BY <1>2, <1>10, <1>12, <2>2 DEF UpToNow, t
  <2> QED  BY <1>2, <2>1, <2>3
<1>15. Ends'
  <2>1. t # <<>> /\ t[Len(t)].req = request /\ t[Len(t)] = u
    BY <1>1, <1>3, <1>5
  <2>2. unsent' # <<>> => unsent'[1].size = u.size
    <3>1. ASSUME unsent' # <<>> PROVE 1 \in 1..Len(unsent) - 1 /\ 2 \in 1..Len(unsent)
      BY <1>4, <3>1
    <3> QED  BY <1>4, <1>5, <3>1
  <2> QED  BY <1>2, <1>11, <1>12, <2>1, <2>2 DEF Ends, t
<1>16. BegunOnce'
  <2> SUFFICES ASSUME NEW k \in Connections, NEW l \in Connections,
                      NEW i \in DOMAIN stream'[k], NEW j \in DOMAIN stream'[l],
                      stream'[k][i].kind = "head", stream'[l][j].kind = "head",
                      stream'[k][i].req = stream'[l][j].req
               PROVE  k = l /\ i = j
    BY <1>2 DEF BegunOnce
  <2>1. \A m \in Connections : stream[m] \in Seq(RequestUnits)
    BY DEF TypeOK, Connections
  <2>2. \A m \in Connections : \A x \in DOMAIN stream'[m] :
          \/ x \in DOMAIN stream[m] /\ stream'[m][x] = stream[m][x]
          \/ m = conn /\ x = n + 1 /\ stream'[m][x] = u
    <3> TAKE m \in Connections
    <3> TAKE x \in DOMAIN stream'[m]
    <3>1. CASE m # conn
      BY <1>1, <3>1
    <3>2. CASE m = conn
      <4>1. DOMAIN stream'[m] = 1..n + 1 /\ DOMAIN stream[m] = 1..n
        <5>1. t \in Seq(RequestUnits)
          BY <1>1, <1>2
        <5> QED  BY <1>1, <3>2, <5>1 DEF s, t, n
      <4> QED  BY <1>1, <1>3, <3>2, <4>1 DEF s, t
    <3> QED  BY <3>1, <3>2
  <2>3. u.kind = "head" =>
          \A m \in Connections : \A x \in DOMAIN stream[m] : stream[m][x].req < request
    BY <1>6, <2>1 DEF Writing, UpToNow
  <2>4. \A m \in Connections : \A x \in DOMAIN stream[m] : stream[m][x].req \in Nat
    BY <2>1, UnitTypes
  <2>5. CASE i \in DOMAIN stream[k] /\ stream'[k][i] = stream[k][i]
    <3>1. CASE j \in DOMAIN stream[l] /\ stream'[l][j] = stream[l][j]
      BY <2>5, <3>1 DEF Writing, BegunOnce
    <3>2. CASE l = conn /\ j = n + 1 /\ stream'[l][j] = u
      BY <1>3, <1>5, <2>3, <2>4, <2>5, <3>2
    <3> QED  BY <2>2, <3>1, <3>2
  <2>6. CASE k = conn /\ i = n + 1 /\ stream'[k][i] = u
    <3>1. CASE j \in DOMAIN stream[l] /\ stream'[l][j] = stream[l][j]
      BY <1>3, <1>5, <2>3, <2>4, <2>6, <3>1
    <3>2. CASE l = conn /\ j = n + 1
      BY <2>6, <3>2
    <3> QED  BY <2>2, <3>1, <3>2
  <2> QED  BY <2>2, <2>5, <2>6
<1> QED  BY <1>13, <1>14, <1>15, <1>16 DEF Writing

LEMMA WritingStep ==
  ASSUME TypeOK, Control, Writing, [Next]_vars
  PROVE  Writing'
<1>1. ASSUME NEW size \in 0..MaxUnits, Begin(size) PROVE Writing'
  <2>1. /\ request' = request + 1 /\ request \in Nat
        /\ unsent' \in Seq(RequestUnits) /\ Len(unsent') = size + 1 /\ size \in Nat
        /\ \A i \in 1..size + 1 :
             unsent'[i] = [kind |-> IF i = 1 THEN "head" ELSE "body",
                           req |-> request + 1, size |-> size]
        /\ pc = "idle" /\ pc' = "acquire"
        /\ UNCHANGED <<net, slot, conn, parser, result, stream>>
    BY <1>1, Begun
  <2>2. 1 \in 1..size + 1 /\ unsent' # <<>>
    BY <2>1
  <2>3. /\ unsent'[1].kind = "head" /\ unsent'[1].size = size
        /\ \A i \in 1..size + 1 :
             /\ unsent'[i].req = request' /\ unsent'[i].size = size
             /\ i > 1 => unsent'[i].kind = "body"
    BY <2>1, <2>2
  <2>4. RestOfRequest' /\ NothingSent'
    BY <2>1, <2>2, <2>3 DEF RestOfRequest, NothingSent
  <2>5. Connections' = Connections
    BY <2>1 DEF Connections
  <2>6. \A k \in Connections' : InOrder(stream'[k]) /\ UpToNow(stream[k])'
    <3> TAKE k \in Connections'
    <3>1. InOrder(stream[k]) /\ \A i \in 1..Len(stream[k]) : stream[k][i].req <= request
      BY <2>5 DEF Writing, UpToNow
    <3>2. \A i \in 1..Len(stream[k]) : stream[k][i].req \in Nat
      <4>1. stream[k] \in Seq(RequestUnits)
        BY <2>5 DEF TypeOK, Connections
      <4> QED  BY <4>1, UnitTypes
    <3>3. \A i \in 1..Len(stream[k]) : stream[k][i].req <= request + 1 /\ stream[k][i].req < request + 1
      BY <2>1, <3>1, <3>2
    <3> QED  BY <2>1, <3>1, <3>3 DEF UpToNow
  <2>7. conn' = 0
    BY <2>1 DEF TypeOK
  <2>8. Ends'
    BY <2>1, <2>7 DEF Writing, Ends
  <2>9. BegunOnce'
    BY <2>1, <2>5 DEF Writing, BegunOnce
  <2> QED  BY <2>4, <2>6, <2>8, <2>9 DEF Writing
<1>2. CASE Adopt
  <2>1. /\ conn' = slot /\ slot' = 0 /\ pc = "acquire" /\ pc' = "write" /\ slot # 0
        /\ UNCHANGED <<net, request, unsent, parser, result, stream>>
    BY <1>2 DEF Adopt
  <2>2. Connections' = Connections
    BY <2>1 DEF Connections
  <2>3. NothingSent /\ NothingSent'
    BY <2>1 DEF NothingSent, Control, Writing, RestOfRequest
  <2>4. RestOfRequest'
    BY <2>1 DEF Writing, RestOfRequest
  <2>5. \A k \in Connections' : InOrder(stream'[k]) /\ UpToNow(stream[k])'
    BY <2>1, <2>2, <2>3 DEF Writing, UpToNow
  <2>6. Ends'
    BY <2>1, <2>3 DEF Writing, Ends
  <2>7. BegunOnce'
    BY <2>1, <2>2 DEF Writing, BegunOnce
  <2> QED  BY <2>4, <2>5, <2>6, <2>7 DEF Writing
<1>3. CASE Connect
  <2>1. /\ net' = Append(net, NewConnection) /\ stream' = Append(stream, <<>>)
        /\ conn' = Len(net) + 1 /\ pc = "acquire" /\ slot = 0 /\ pc' = "write"
        /\ UNCHANGED <<slot, request, unsent, parser, result>>
    BY <1>3 DEF Connect
  <2>2. net \in Seq(Network) /\ stream \in Seq(Seq(RequestUnits)) /\ Len(net) = Len(stream)
        /\ <<>> \in Seq(RequestUnits) /\ Len(net) \in Nat
    BY DEF TypeOK
  <2>3. /\ Len(net') = Len(net) + 1 /\ stream'[Len(net) + 1] = <<>>
        /\ \A k \in 1..Len(net) : stream'[k] = stream[k]
    BY <2>1, <2>2, NewConnectionType
  <2>4. \A k \in Connections' : k \in Connections \/ k = Len(net) + 1
    BY <2>2, <2>3 DEF Connections
  <2>5. NothingSent /\ NothingSent'
    BY <2>1 DEF NothingSent, Control, Writing, RestOfRequest
  <2>6. RestOfRequest'
    BY <2>1 DEF Writing, RestOfRequest
  <2>7. \A k \in Connections' : InOrder(stream'[k]) /\ UpToNow(stream[k])'
    <3> TAKE k \in Connections'
    <3>1. CASE k \in Connections
      BY <2>1, <2>3, <2>5, <3>1 DEF Writing, UpToNow, Connections
    <3>2. CASE k = Len(net) + 1
      <4>1. Len(stream'[k]) = 0
        BY <2>3, <3>2
      <4> QED  BY <4>1 DEF InOrder, UpToNow
    <3> QED  BY <2>4, <3>1, <3>2
  <2>8. Ends'
    BY <2>1, <2>3, <2>5 DEF Ends, EndsWhole
  <2>9. BegunOnce'
    <3>1. DOMAIN stream'[Len(net) + 1] = {}
      BY <2>3
    <3>2. \A k \in Connections : stream'[k] = stream[k]
      BY <2>3 DEF Connections
    <3> QED  BY <2>4, <3>1, <3>2 DEF Writing, BegunOnce
  <2> QED  BY <2>6, <2>7, <2>8, <2>9 DEF Writing
<1>4. CASE ConnectFails
  BY <1>4, WritingReturned DEF ConnectFails, Return, TypeOK, Connections
<1>5. CASE Retain
  <2>1. unsent = <<>> /\ slot' = conn
    BY <1>5 DEF Retain, Control
  <2> QED  BY <1>5, <2>1, WritingReturned DEF Retain, Return, Connections
<1>6. ASSUME NEW r \in Results, GivesUp(r) PROVE Writing'
  <2>1. /\ Connections' = Connections /\ conn' = 0 /\ unsent' = <<>>
        /\ UNCHANGED <<slot, request, stream>>
    BY <1>6, GivingUp
  <2> QED  BY <2>1, WritingReturned
<1>7. Error \in Results /\ Response(parser.answer) \in Results
  BY ResponseType DEF TypeOK, Parsers
<1>8. ASSUME NEW m \in 1..Len(Readable(conn)), Takes(m) PROVE Writing'
  <2>1. Connections' = Connections
    BY <1>8, Taken
  <2> QED  BY <1>8, <2>1, WritingKept DEF Takes
<1>9. ASSUME NEW k \in Connections, Server(k) PROVE Writing'
  <2>1. FinIsLast(net[k])
    BY DEF Control
  <2>2. /\ Len(net') = Len(net)
        /\ UNCHANGED <<slot, pc, request, conn, unsent, parser, result, stream>>
    BY <1>9, <2>1, Serving
  <2> QED  BY <2>2, WritingKept DEF Connections
<1>10. CASE UNCHANGED vars
  BY <1>10, WritingKept DEF vars, Connections
<1> QED  BY <1>1, <1>2, <1>3, <1>4, <1>5, <1>6, <1>7, <1>8, <1>9, <1>10, WritingWrite, Steps

-------------------------------------------------------------------------------

\* A sequence of requests in order has every request whole that is followed by
\* another.
LEMMA WholeRequests ==
  ASSUME NEW s \in Seq(RequestUnits), InOrder(s), NEW i \in 2..Len(s)
  PROVE  IF s[i].kind = "body"
           THEN s[i].req = s[i - 1].req
           ELSE Cardinality({j \in DOMAIN s : s[j].req = s[i - 1].req}) = s[i - 1].size + 1
<1>1. /\ Len(s) \in Nat /\ DOMAIN s = 1..Len(s) /\ i \in 1..Len(s) /\ i > 1
      /\ i - 1 \in 1..Len(s) /\ i \in Nat
  BY UnitTypes
<1>2. \A j \in 1..Len(s) :
        s[j].kind \in {"head", "body"} /\ s[j].req \in Nat /\ s[j].size \in Nat
  BY UnitTypes
<1>3. CASE s[i].kind = "body"
  BY <1>1, <1>3 DEF InOrder
<1>4. CASE s[i].kind = "head"
  <2> DEFINE first == (i - 1) - s[i - 1].size + 0
             size  == s[i - 1].size
  <2>1. size \in Nat
    BY <1>1, <1>2
  <2>2. EndsWithin(s, i - 1, 0)
    BY <1>1, <1>4 DEF InOrder
  <2>3. /\ first \in 1..i - 1
        /\ \A j \in 1..i - 1 : s[j].req = s[i - 1].req <=> j >= first
    BY <2>2 DEF EndsWithin
  <2>4. \A j \in 1..Len(s) : j >= i => s[j].req # s[i - 1].req
    <3> TAKE j \in 1..Len(s)
    <3>1. s[i - 1].req < s[i].req
      BY <1>1, <1>4 DEF InOrder
    <3>2. i < j => s[i].req <= s[j].req
      BY <1>1 DEF InOrder
    <3> QED  BY <1>1, <1>2, <3>1, <3>2
  <2>5. first = (i - 1) - size
    BY <1>1, <2>1
  <2> HIDE DEF first, size
  <2>6. {j \in DOMAIN s : s[j].req = s[i - 1].req} = first..i - 1
    <3>1. ASSUME NEW j \in 1..Len(s) PROVE s[j].req = s[i - 1].req <=> j \in first..i - 1
      <4>1. j \in 1..i - 1 \/ j >= i
        BY <1>1
      <4> QED  BY <1>1, <2>3, <2>4, <4>1
    <3>2. first..i - 1 \subseteq 1..Len(s)
      BY <1>1, <2>3
    <3> QED  BY <1>1, <3>1, <3>2
  <2>7. Cardinality(first..i - 1) = size + 1
    <3>1. first \in Int /\ i - 1 \in Int /\ first <= i - 1
      BY <1>1, <2>3
    <3>2. Cardinality(first..i - 1) = (i - 1) - first + 1
      BY <3>1, FS_Interval
    <3> QED  BY <1>1, <2>1, <2>5, <3>2
  <2> QED  BY <1>4, <2>6, <2>7 DEF size
<1> QED  BY <1>1, <1>2, <1>3, <1>4

-------------------------------------------------------------------------------
(* What is read: the parts of one response.                                *)

LEMMA DataTypes ==
  ASSUME NEW d \in Seq(ResponseUnits)
  PROVE  /\ Len(d) \in Nat
         /\ \A i \in 1..Len(d) :
              /\ d[i] \in ResponseUnits
              /\ d[i].kind \in {"interim", "head", "body", "surplus"}
              /\ d[i].req \in RequestNumbers /\ d[i].req \in Nat \ {0}
              /\ d[i].size \in Nat /\ d[i].counted \in BOOLEAN
<1>1. \A i \in 1..Len(d) : d[i] \in ResponseUnits
  OBVIOUS
<1> QED  BY <1>1, BoundAssumption DEF ResponseUnits, RequestNumbers

LEMMA ParserTypes ==
  ASSUME NEW p \in Parsers
  PROVE  /\ p.stage \in {"head", "counted", "close", "complete", "error"}
         /\ p.answer \in Answers /\ p.answer.size \in Nat
         /\ p.answer.counted \in BOOLEAN
         /\ p.answer.body \in Seq(RequestNumbers) /\ Len(p.answer.body) \in Nat
BY BoundAssumption DEF Parsers, Answers

\* The next unit of the body.
LEMMA NextOfBody ==
  ASSUME NEW p \in Parsers, NEW d \in Seq(ResponseUnits), NEW i \in 1..Len(d), NEW n,
         NEW reset \in BOOLEAN, p.stage \in {"counted", "close"},
         Continues(p, d, i - 1, n, reset)
  PROVE  Continues(ParseUnit(p, d[i]), d, i, n, reset)
<1> DEFINE u == d[i]
           q == ParseUnit(p, u)
           body == p.answer.body
           size == p.answer.size
<1>1. /\ i \in Nat \ {0} /\ i \in i..Len(d) /\ i - 1 \in Nat /\ (i - 1) + 1 = i
      /\ size \in Nat /\ body \in Seq(RequestNumbers) /\ Len(body) \in Nat
      /\ p.answer.counted \in BOOLEAN /\ u \in ResponseUnits /\ Len(d) \in Nat
  BY ParserTypes, DataTypes
<1>2. /\ p.answer.req = n /\ Len(body) <= size /\ \A j \in 1..Len(body) : body[j] = n
      /\ p.answer.counted <=> p.stage # "close"
      /\ p.stage = "counted" => Len(body) # size
  BY DEF Continues, Stored
<1>3. Follows(d, i - 1, size - Len(body), n, p.answer.counted, reset)
  BY DEF Continues
<1>4. i <= (i - 1) + (size - Len(body))
  <2>1. CASE p.stage = "counted"
    BY <1>1, <1>2, <2>1
  <2>2. CASE p.stage = "close"
    <3>1. ~p.answer.counted
      BY <1>2, <2>2
    <3>2. i \in (i - 1) + 1..Len(d)
      BY <1>1
    <3> QED  BY <1>3, <3>1, <3>2 DEF Follows
  <2> QED  BY <2>1, <2>2
<1>5. u.kind = "body" /\ u.req = n /\ Len(body) + 1 <= size
  <2>1. i \in (i - 1) + 1..Len(d)
    BY <1>1
  <2>2. u.kind = "body" /\ u.req = n
    BY <1>3, <1>4, <2>1 DEF Follows
  <2> QED  BY <1>1, <1>4, <2>2
<1> HIDE DEF u
<1>6. q = [p EXCEPT !.stage = IF /\ p.stage = "counted"
                                 /\ Len(p.answer.body) + 1 = p.answer.size
                              THEN "complete" ELSE p.stage,
                    !.answer.body = Append(@, u.req)]
  BY DEF ParseUnit
<1>7. /\ q.answer.req = p.answer.req /\ q.answer.size = size
      /\ q.answer.counted = p.answer.counted /\ q.answer.body = Append(body, n)
      /\ q.stage = IF p.stage = "counted" /\ Len(body) + 1 = size THEN "complete" ELSE p.stage
  BY <1>5, <1>6 DEF Parsers, Answers
<1> HIDE DEF q
<1>8. /\ n \in RequestNumbers /\ Append(body, n) \in Seq(RequestNumbers)
      /\ Len(Append(body, n)) = Len(body) + 1
      /\ \A j \in 1..Len(body) + 1 : Append(body, n)[j] = n
  <2>1. n \in RequestNumbers
    BY <1>1, <1>5 DEF ResponseUnits
  <2> HIDE DEF body
  <2>2. /\ Append(body, n) \in Seq(RequestNumbers) /\ Len(Append(body, n)) = Len(body) + 1
        /\ Append(body, n)[Len(body) + 1] = n
        /\ \A j \in 1..Len(body) : Append(body, n)[j] = body[j]
    BY <1>1, <2>1
  <2>3. \A j \in 1..Len(body) + 1 : j \in 1..Len(body) \/ j = Len(body) + 1
    BY <1>1
  <2> QED  BY <1>2, <2>1, <2>2, <2>3
<1>9. Stored(q.answer, n)
  BY <1>2, <1>5, <1>7, <1>8 DEF Stored
<1>10. Follows(d, i, size - (Len(body) + 1), n, p.answer.counted, reset)
  <2> DEFINE rest == size - (Len(body) + 1)
             full == size - Len(body)
  <2>1. i + rest = (i - 1) + full
    <3>1. size \in Int /\ Len(body) \in Int /\ i \in Int
      BY <1>1
    <3> HIDE DEF size, body
    <3> QED  BY <3>1
  <2>2. \A j \in i + 1..Len(d) : j \in (i - 1) + 1..Len(d)
    BY <1>1
  <2> HIDE DEF rest, full, size, body
  <2>3. Follows(d, i - 1, full, n, p.answer.counted, reset)
    BY <1>3 DEF full
  <2>4. Follows(d, i, rest, n, p.answer.counted, reset)
    BY <2>1, <2>2, <2>3 DEF Follows
  <2> QED  BY <2>4 DEF rest
<1>11. q.answer.counted <=> q.stage # "close"
  BY <1>2, <1>7
<1>12. q.stage \in {"counted", "complete"} =>
         (q.stage = "complete" <=> Len(q.answer.body) = q.answer.size)
  BY <1>7, <1>8
<1>13. Follows(d, i, q.answer.size - Len(q.answer.body), n, q.answer.counted, reset)
  BY <1>7, <1>8, <1>10
<1>14. Continues(q, d, i, n, reset)
  BY <1>9, <1>11, <1>12, <1>13 DEF Continues
<1> QED  BY <1>14 DEF q, u

\* The parser goes on as the units come.
LEMMA ParseUnitComing ==
  ASSUME NEW p \in Parsers, NEW d \in Seq(ResponseUnits), NEW i \in 1..Len(d), NEW n,
         NEW answered, NEW reset \in BOOLEAN, Coming(p, d, i - 1, n, answered, reset)
  PROVE  Coming(ParseUnit(p, d[i]), d, i, n, answered, reset)
<1> DEFINE u == d[i]
<1>1. /\ i \in Nat \ {0} /\ i - 1 \in Nat /\ (i - 1) + 1 = i /\ Len(d) \in Nat
      /\ i \in (i - 1) + 1..Len(d)
      /\ \A j \in i + 1..Len(d) : j \in (i - 1) + 1..Len(d)
      /\ u \in ResponseUnits /\ u.kind \in {"interim", "head", "body", "surplus"}
      /\ u.size \in Nat /\ u.counted \in BOOLEAN
      /\ p.stage \in {"head", "counted", "close", "complete", "error"}
  BY ParserTypes, DataTypes
<1>2. CASE p.stage = "error"
  <2>1. ParseUnit(p, u).stage = "error"
    BY <1>2 DEF ParseUnit, Parsers
  <2> QED  BY <2>1 DEF Coming
<1>3. CASE p.stage = "complete"
  <2>1. ParseUnit(p, u).stage = "complete" /\ ParseUnit(p, u).answer = p.answer
    BY <1>3 DEF ParseUnit, Parsers
  <2>2. answered = n /\ Continues(p, d, i - 1, n, reset)
    BY <1>3 DEF Coming
  <2> DEFINE rest == p.answer.size - Len(p.answer.body)
  <2>3. rest = 0 /\ p.answer.counted
    BY <1>3, <2>2, ParserTypes DEF Continues
  <2>4. Follows(d, i - 1, rest, n, p.answer.counted, reset)
    BY <2>2 DEF Continues
  <2> HIDE DEF rest
  <2>5. Follows(d, i, rest, n, p.answer.counted, reset)
    <3>1. \A j \in i + 1..Len(d) : ~(j <= (i - 1) + rest) /\ ~(j <= i + rest)
      BY <1>1, <2>3
    <3>2. \A j \in i + 1..Len(d) : d[j].kind = "surplus"
      BY <1>1, <2>4, <3>1 DEF Follows
    <3> QED  BY <2>3, <3>1, <3>2 DEF Follows
  <2>6. Continues(ParseUnit(p, u), d, i, n, reset)
    BY <1>3, <2>1, <2>2, <2>5 DEF Continues, rest
  <2> QED  BY <2>1, <2>2, <2>6 DEF Coming
<1>4. CASE p.stage \in {"counted", "close"}
  <2>1. answered = n /\ Continues(p, d, i - 1, n, reset)
    BY <1>4 DEF Coming
  <2>2. Continues(ParseUnit(p, u), d, i, n, reset)
    BY <1>4, <2>1, NextOfBody
  <2>3. ParseUnit(p, u).stage # "head"
    BY <1>1, <1>4 DEF ParseUnit, Parsers
  <2> QED  BY <2>1, <2>2, <2>3 DEF Coming
<1>5. CASE p.stage = "head"
  <2>1. Awaited(d, i - 1, n, answered, reset)
    BY <1>5 DEF Coming
  <2>2. CASE u.kind = "interim"
    <3>1. ParseUnit(p, u) = p
      BY <1>5, <2>2 DEF ParseUnit
    <3>2. Awaited(d, i, n, answered, reset)
      <4>1. ASSUME NEW j \in i + 1..Len(d)
            PROVE  \/ d[j].kind \in {"interim", "surplus"}
                   \/ \E h \in i + 1..j : d[h].kind = "head"
        <5>1. \/ d[j].kind \in {"interim", "surplus"}
              \/ \E h \in (i - 1) + 1..j : d[h].kind = "head"
          BY <1>1, <2>1 DEF Awaited
        <5>2. \A h \in (i - 1) + 1..j : h = i \/ h \in i + 1..j
          BY <1>1
        <5> QED  BY <2>2, <5>1, <5>2
      <4>2. ASSUME NEW h \in i + 1..Len(d), d[h].kind = "head"
            PROVE  /\ d[h].req = n /\ answered = n
                   /\ Follows(d, h, d[h].size, n, d[h].counted, reset)
        BY <1>1, <2>1, <4>2 DEF Awaited
      <4> QED  BY <4>1, <4>2 DEF Awaited
    <3> QED  BY <1>5, <3>1, <3>2 DEF Coming
  <2>3. CASE u.kind = "surplus"
    <3>1. ParseUnit(p, u).stage = "error"
      BY <1>5, <2>3 DEF ParseUnit, Parsers
    <3> QED  BY <3>1 DEF Coming
  <2>4. CASE u.kind = "head"
    <3>1. /\ u.req = n /\ answered = n
          /\ Follows(d, i, u.size, n, u.counted, reset)
      BY <1>1, <2>1, <2>4 DEF Awaited
    <3> DEFINE q == ParseUnit(p, u)
    <3>2. /\ q.stage = IF ~u.counted THEN "close"
                       ELSE IF u.size = 0 THEN "complete" ELSE "counted"
          /\ q.answer = [req |-> u.req, size |-> u.size, counted |-> u.counted,
                         keep |-> u.keep, body |-> <<>>]
      BY <1>5, <2>4 DEF ParseUnit, Parsers
    <3> HIDE DEF q, u
    <3>3. /\ q.answer.req = n /\ q.answer.size = u.size /\ q.answer.counted = u.counted
          /\ q.answer.body = <<>> /\ Len(q.answer.body) = 0
      BY <3>1, <3>2
    <3>4. Stored(q.answer, n)
      BY <1>1, <3>3 DEF Stored
    <3>5. q.answer.size - Len(q.answer.body) = u.size
      BY <1>1, <3>3
    <3>6. Continues(q, d, i, n, reset)
      BY <1>1, <3>1, <3>2, <3>3, <3>4, <3>5 DEF Continues
    <3>7. q.stage \notin {"head", "error"}
      BY <3>2
    <3> QED  BY <3>1, <3>6, <3>7 DEF Coming, q, u
  <2>5. CASE u.kind = "body"
    <3>1. \E h \in (i - 1) + 1..i : d[h].kind = "head"
      BY <1>1, <2>1, <2>5 DEF Awaited
    <3>2. \A h \in (i - 1) + 1..i : h = i
      BY <1>1
    <3> QED  BY <2>5, <3>1, <3>2
  <2> QED  BY <1>1, <2>2, <2>3, <2>4, <2>5
<1> QED  BY <1>1, <1>2, <1>3, <1>4, <1>5

\* What was read is behind it.
LEMMA ComingShift ==
  ASSUME NEW p \in Parsers, NEW d \in Seq(ResponseUnits), NEW m \in 0..Len(d), NEW n,
         NEW answered, NEW reset \in BOOLEAN, NEW e \in Seq(ResponseUnits),
         Len(e) = Len(d) - m, \A i \in 1..Len(d) - m : e[i] = d[m + i],
         Coming(p, d, m, n, answered, reset)
  PROVE  Coming(p, e, 0, n, answered, reset)
<1>1. /\ m \in Nat /\ Len(d) \in Nat /\ m <= Len(d) /\ Len(e) \in Nat
      /\ \A i \in 1..Len(e) : e[i].size \in Nat
  BY DataTypes
<1>2. \A i \in 0 + 1..Len(e) : m + i \in m + 1..Len(d) /\ e[i] = d[m + i]
  BY <1>1
<1>3. ASSUME NEW o \in 0..Len(e), NEW rest \in Nat, NEW counted,
             Follows(d, m + o, rest, n, counted, reset)
      PROVE  Follows(e, o, rest, n, counted, reset)
  <2>1. \A i \in o + 1..Len(e) :
          /\ m + i \in (m + o) + 1..Len(d) /\ e[i] = d[m + i]
          /\ m + i <= (m + o) + rest <=> i <= o + rest
    BY <1>1
  <2>2. Len(d) = (m + o) + rest <=> Len(e) = o + rest
    BY <1>1
  <2> QED  BY <1>3, <2>1, <2>2 DEF Follows
<1>4. ASSUME p.stage = "head" PROVE Awaited(e, 0, n, answered, reset)
  <2>1. Awaited(d, m, n, answered, reset)
    BY <1>4 DEF Coming
  <2>2. ASSUME NEW i \in 0 + 1..Len(e)
        PROVE  \/ e[i].kind \in {"interim", "surplus"}
               \/ \E h \in 0 + 1..i : e[h].kind = "head"
    <3>1. \/ d[m + i].kind \in {"interim", "surplus"}
          \/ \E h \in m + 1..m + i : d[h].kind = "head"
      BY <1>2, <2>1 DEF Awaited
    <3>2. ASSUME NEW h \in m + 1..m + i, d[h].kind = "head"
          PROVE  \E g \in 0 + 1..i : e[g].kind = "head"
      <4>1. h - m \in 0 + 1..i /\ h - m \in 0 + 1..Len(e) /\ m + (h - m) = h
        BY <1>1
      <4> QED  BY <1>2, <3>2, <4>1
    <3> QED  BY <1>2, <3>1, <3>2
  <2>3. ASSUME NEW h \in 0 + 1..Len(e), e[h].kind = "head"
        PROVE  /\ e[h].req = n /\ answered = n
               /\ Follows(e, h, e[h].size, n, e[h].counted, reset)
    <3>1. /\ d[m + h].req = n /\ answered = n
          /\ Follows(d, m + h, d[m + h].size, n, d[m + h].counted, reset)
      BY <1>2, <2>1, <2>3 DEF Awaited
    <3>2. e[h] = d[m + h] /\ h \in 0..Len(e) /\ e[h].size \in Nat
      BY <1>1, <1>2
    <3> QED  BY <1>3, <3>1, <3>2
  <2> QED  BY <2>2, <2>3 DEF Awaited
<1>5. ASSUME p.stage \notin {"head", "error"} PROVE answered = n /\ Continues(p, e, 0, n, reset)
  <2>1. answered = n /\ Continues(p, d, m, n, reset)
    BY <1>5 DEF Coming
  <2> DEFINE rest == p.answer.size - Len(p.answer.body)
  <2>2. rest \in Nat
    BY <2>1, ParserTypes DEF Continues, Stored
  <2>3. Follows(d, m, rest, n, p.answer.counted, reset)
    BY <2>1 DEF Continues
  <2> HIDE DEF rest
  <2>4. m + 0 = m /\ 0 \in 0..Len(e)
    BY <1>1
  <2>5. Follows(e, 0, rest, n, p.answer.counted, reset)
    BY <1>3, <2>2, <2>3, <2>4
  <2> QED  BY <2>1, <2>5 DEF Continues, rest
<1> QED  BY <1>4, <1>5 DEF Coming

\* A stream cut off is still one response, unless it is a body without a length that
\* was cut off by the end of the stream.
LEMMA ComingPrefix ==
  ASSUME NEW p \in Parsers, NEW d \in Seq(ResponseUnits), NEW m \in 0..Len(d), NEW n,
         NEW answered, NEW reset \in BOOLEAN, NEW after \in BOOLEAN,
         NEW e \in Seq(ResponseUnits), Len(e) = m, \A i \in 1..m : e[i] = d[i],
         \/ after
         \/ /\ ~reset
            /\ m < Len(d) => d[m + 1].counted \/ d[m + 1].kind # "body",
         Coming(p, d, 0, n, answered, reset)
  PROVE  Coming(p, e, 0, n, answered, after)
<1>1. /\ m \in Nat /\ Len(d) \in Nat /\ m <= Len(d)
      /\ \A i \in 1..Len(d) : d[i].size \in Nat /\ d[i].counted \in BOOLEAN
  BY DataTypes
<1>2. ASSUME NEW o \in 0..m, NEW rest \in Nat, NEW counted \in BOOLEAN,
             Follows(d, o, rest, n, counted, reset)
      PROVE  Follows(e, o, rest, n, counted, after)
  <2>1. \A i \in o + 1..Len(e) : i \in o + 1..Len(d) /\ e[i] = d[i]
    BY <1>1
  <2>2. ASSUME ~counted, ~after PROVE Len(e) = o + rest
    <3>1. Len(d) = o + rest
      BY <1>2, <2>2 DEF Follows
    <3>2. CASE m < Len(d)
      <4>1. m + 1 \in o + 1..Len(d) /\ m + 1 <= o + rest
        BY <1>1, <3>1, <3>2
      <4>2. d[m + 1].kind = "body" /\ ~d[m + 1].counted
        BY <1>2, <2>2, <4>1 DEF Follows
      <4> QED  BY <2>2, <3>2, <4>2
    <3> QED  BY <1>1, <3>1, <3>2
  <2> QED  BY <1>2, <2>1, <2>2 DEF Follows
<1>3. ASSUME p.stage = "head" PROVE Awaited(e, 0, n, answered, after)
  <2>1. Awaited(d, 0, n, answered, reset)
    BY <1>3 DEF Coming
  <2>2. \A i \in 0 + 1..Len(e) : i \in 0 + 1..Len(d) /\ e[i] = d[i] /\ i \in 0..m
    BY <1>1
  <2>3. ASSUME NEW i \in 0 + 1..Len(e)
        PROVE  \/ e[i].kind \in {"interim", "surplus"}
               \/ \E h \in 0 + 1..i : e[h].kind = "head"
    <3>1. \/ d[i].kind \in {"interim", "surplus"}
          \/ \E h \in 0 + 1..i : d[h].kind = "head"
      BY <2>1, <2>2 DEF Awaited
    <3>2. \A h \in 0 + 1..i : h \in 0 + 1..Len(e)
      BY <1>1
    <3> QED  BY <2>2, <3>1, <3>2
  <2>4. ASSUME NEW h \in 0 + 1..Len(e), e[h].kind = "head"
        PROVE  /\ e[h].req = n /\ answered = n
               /\ Follows(e, h, e[h].size, n, e[h].counted, after)
    <3>1. /\ d[h].req = n /\ answered = n
          /\ Follows(d, h, d[h].size, n, d[h].counted, reset)
      BY <2>1, <2>2, <2>4 DEF Awaited
    <3>2. h \in 0..m /\ e[h] = d[h] /\ d[h].size \in Nat /\ d[h].counted \in BOOLEAN
      BY <1>1, <2>2
    <3> QED  BY <1>2, <3>1, <3>2
  <2> QED  BY <2>3, <2>4 DEF Awaited
<1>4. ASSUME p.stage \notin {"head", "error"} PROVE answered = n /\ Continues(p, e, 0, n, after)
  <2>1. answered = n /\ Continues(p, d, 0, n, reset)
    BY <1>4 DEF Coming
  <2> DEFINE rest == p.answer.size - Len(p.answer.body)
  <2>2. rest \in Nat /\ 0 \in 0..m
    BY <1>1, <2>1, ParserTypes DEF Continues, Stored
  <2>3. Follows(d, 0, rest, n, p.answer.counted, reset) /\ p.answer.counted \in BOOLEAN
    BY <2>1, ParserTypes DEF Continues
  <2> HIDE DEF rest
  <2>4. Follows(e, 0, rest, n, p.answer.counted, after)
    BY <1>2, <2>2, <2>3
  <2> QED  BY <2>1, <2>4 DEF Continues, rest
<1> QED  BY <1>3, <1>4 DEF Coming

\* The response to the request that is waited for is the next to come.
LEMMA AwaitedResponse ==
  ASSUME NEW d \in Seq(ResponseUnits), NEW n, NEW answered, answered # n,
         NEW r, IsResponse(r, n), Awaited(d, 0, n, answered, FALSE)
  PROVE  Awaited(d \o r, 0, n, n, FALSE)
<1> DEFINE e == d \o r
           l == Len(d)
<1>1. r \in Seq(ResponseUnits)
  BY DEF IsResponse
<1>2. PICK h \in 1..Len(r) :
        /\ h = 1 /\ r[h].kind = "head" /\ r[h].req = n
        /\ Follows(r, h, r[h].size, n, r[h].counted, FALSE)
  BY DEF IsResponse
<1>3. /\ l \in Nat /\ Len(r) \in Nat /\ h \in Nat \ {0} /\ h <= Len(r)
      /\ r[h].size \in Nat
  BY <1>1, DataTypes
<1>4. /\ Len(e) = l + Len(r) /\ \A i \in 1..l : e[i] = d[i]
      /\ \A i \in l + 1..l + Len(r) : e[i] = r[i - l]
  BY <1>1, Concat
<1> HIDE DEF e, l
<1>5. \A i \in 1..l : d[i].kind \in {"interim", "surplus"}
  <2>1. \A i \in 0 + 1..l : d[i].kind # "head"
    BY DEF Awaited, l
  <2> TAKE i \in 1..l
  <2>2. \/ d[i].kind \in {"interim", "surplus"}
        \/ \E g \in 0 + 1..i : d[g].kind = "head"
    BY DEF Awaited, l
  <2>3. \A g \in 0 + 1..i : g \in 0 + 1..l
    BY <1>3
  <2> QED  BY <2>1, <2>2, <2>3
<1>6. \A i \in 0 + 1..Len(e) :
        \/ i \in 1..l /\ e[i].kind \in {"interim", "surplus"}
        \/ i - l \in 1..Len(r) /\ e[i] = r[i - l]
  <2> TAKE i \in 0 + 1..Len(e)
  <2>1. i \in 1..l \/ (i \in l + 1..l + Len(r) /\ i - l \in 1..Len(r))
    BY <1>3, <1>4
  <2> QED  BY <1>4, <1>5, <2>1
<1>7. e[l + h] = r[h] /\ l + h \in 0 + 1..Len(e)
  <2>1. l + h \in l + 1..l + Len(r) /\ (l + h) - l = h
    BY <1>3
  <2> QED  BY <1>3, <1>4, <2>1
<1>8. \A j \in h + 1..Len(r) : r[j].kind \in {"body", "surplus"}
  BY <1>2 DEF Follows
<1>9. ASSUME NEW i \in 0 + 1..Len(e)
      PROVE  \/ e[i].kind \in {"interim", "surplus"}
             \/ \E g \in 0 + 1..i : e[g].kind = "head"
  <2>1. CASE i - l \in 1..Len(r) /\ e[i] = r[i - l]
    <3>1. CASE i - l \in 1..h - 1
      BY <1>2, <2>1, <3>1
    <3>2. CASE i - l >= h
      <4>1. l + h \in 0 + 1..i
        BY <1>3, <3>2
      <4> QED  BY <1>2, <1>7, <4>1
    <3> QED  BY <1>3, <2>1, <3>1, <3>2
  <2> QED  BY <1>6, <2>1
<1>10. ASSUME NEW g \in 0 + 1..Len(e), e[g].kind = "head"
       PROVE  g = l + h
  <2>1. g - l \in 1..Len(r) /\ r[g - l].kind = "head"
    BY <1>6, <1>10
  <2>2. ~(g - l \in 1..h - 1)
    BY <1>2, <2>1
  <2>3. ~(g - l \in h + 1..Len(r))
    BY <1>8, <2>1
  <2> QED  BY <1>3, <2>1, <2>2, <2>3
<1>11. Follows(e, l + h, r[h].size, n, r[h].counted, FALSE)
  <2> DEFINE size == r[h].size
             counted == r[h].counted
  <2>1. Follows(r, h, size, n, counted, FALSE) /\ size \in Nat
    BY <1>2, <1>3
  <2> HIDE DEF size, counted
  <2>2. \A i \in (l + h) + 1..Len(e) :
          /\ i - l \in h + 1..Len(r) /\ e[i] = r[i - l]
          /\ i <= (l + h) + size <=> i - l <= h + size
    BY <1>3, <1>4, <2>1
  <2>3. Len(e) = (l + h) + size <=> Len(r) = h + size
    <3>1. Len(e) = l + Len(r) /\ size \in Nat
      BY <1>4, <2>1
    <3> QED  BY <1>3, <3>1
  <2>4. Follows(e, l + h, size, n, counted, FALSE)
    BY <2>1, <2>2, <2>3 DEF Follows
  <2> QED  BY <2>4 DEF size, counted
<1>12. Awaited(e, 0, n, n, FALSE)
  BY <1>2, <1>7, <1>9, <1>10, <1>11 DEF Awaited
<1> QED  BY <1>12 DEF e

\* An interim head leaves the response awaited.
LEMMA AwaitedInterim ==
  ASSUME NEW d \in Seq(ResponseUnits), NEW n, NEW answered, answered # n,
         NEW u \in ResponseUnits, u.kind = "interim", Awaited(d, 0, n, answered, FALSE)
  PROVE  Awaited(Append(d, u), 0, n, answered, FALSE)
<1> DEFINE e == Append(d, u)
           l == Len(d)
<1>1. /\ e = Append(d, u) /\ l = Len(d) /\ l \in Nat /\ Len(e) = l + 1
      /\ e[l + 1] = u /\ \A i \in 1..l : e[i] = d[i]
  OBVIOUS
<1> HIDE DEF e, l
<1>2. \A i \in 0 + 1..l : d[i].kind # "head"
  BY <1>1 DEF Awaited
<1>3. \A i \in 0 + 1..l : d[i].kind \in {"interim", "surplus"}
  <2> TAKE i \in 0 + 1..l
  <2>1. \/ d[i].kind \in {"interim", "surplus"}
        \/ \E g \in 0 + 1..i : d[g].kind = "head"
    BY <1>1 DEF Awaited
  <2>2. \A g \in 0 + 1..i : g \in 0 + 1..l
    BY <1>1
  <2> QED  BY <1>2, <2>1, <2>2
<1>4. \A i \in 0 + 1..Len(e) : e[i].kind \in {"interim", "surplus"}
  <2> TAKE i \in 0 + 1..Len(e)
  <2>1. i = l + 1 \/ (i \in 1..l /\ i \in 0 + 1..l)
    BY <1>1
  <2> QED  BY <1>1, <1>3, <2>1
<1>5. \A i \in 0 + 1..Len(e) : e[i].kind # "head"
  BY <1>4
<1> QED  BY <1>1, <1>4, <1>5 DEF Awaited

\* As long as the server has ended nothing, all that it has sent is there.
LEMMA OpenDown ==
  ASSUME NEW c \in Network, FinIsLast(c), c.server = "open"
  PROVE  c.down \in Seq(ResponseUnits) /\ Data(c.down) = c.down
<1>1. c.down \in Seq(ResponseUnits \cup {Fin}) /\ Len(c.down) \in Nat
  BY ConnectionTypes
<1>2. \A i \in 1..Len(c.down) : c.down[i].kind # "fin"
  BY DEF FinIsLast
<1>3. \A i \in 1..Len(c.down) : c.down[i] \in ResponseUnits
  BY <1>1, <1>2 DEF Fin
<1>4. c.down \in Seq(ResponseUnits)
  BY <1>1, <1>3
<1> QED  BY <1>4, DataOpen

\* What is there of a stream that was cut off.
LEMMA DataOfBroken ==
  ASSUME NEW d \in Downs, NEW m \in 0..Len(d)
  PROVE  LET e == Data(SubSeq(d, 1, m))
         IN /\ e \in Seq(ResponseUnits) /\ Len(e) \in 0..Len(Data(d))
            /\ \A i \in 1..Len(e) : e[i] = Data(d)[i]
<1> DEFINE s == SubSeq(d, 1, m)
           f == SubSeq(d, 0 + 1, m)
<1>1. 0 \in 0..Len(d) /\ m \in 0..Len(d) /\ Len(d) \in Nat
  BY DEF Downs
<1>2. /\ f \in Downs
      /\ \A i \in 1..Len(Data(f)) : 0 + i <= Len(Data(d)) /\ Data(f)[i] = Data(d)[0 + i]
  BY <1>1, DataOfPart
<1>3. f = s
  OBVIOUS
<1> HIDE DEF s, f
<1>4. Data(s) \in Seq(ResponseUnits) /\ Len(Data(s)) \in Nat /\ Len(Data(d)) \in Nat
  BY <1>2, <1>3, DataIs
<1>5. \A i \in 1..Len(Data(s)) : i <= Len(Data(d)) /\ Data(s)[i] = Data(d)[i]
  BY <1>2, <1>3, <1>4
<1>6. Len(Data(s)) <= Len(Data(d))
  <2>1. CASE Len(Data(s)) = 0
    BY <1>4, <2>1
  <2>2. CASE Len(Data(s)) # 0
    <3>1. Len(Data(s)) \in 1..Len(Data(s))
      BY <1>4, <2>2
    <3> QED  BY <1>5, <3>1
  <2> QED  BY <2>1, <2>2
<1> QED  BY <1>4, <1>5, <1>6 DEF s

\* The members of a connection as numbers and sequences.
LEMMA ConnectionNumbers ==
  ASSUME NEW c \in Network
  PROVE  /\ c.up \in Seq(RequestUnits) /\ Len(c.up) \in Nat
         /\ c.down \in Seq(ResponseUnits \cup {Fin}) /\ Len(c.down) \in Nat
         /\ c.reading \in Nat /\ c.answered \in Nat
         /\ \A i \in 1..Len(c.up) : c.up[i].req \in Nat \ {0}
<1>1. /\ c.up \in Seq(RequestUnits) /\ c.down \in Seq(ResponseUnits \cup {Fin})
      /\ c.reading \in {0} \cup RequestNumbers /\ c.answered \in {0} \cup RequestNumbers
  BY ConnectionTypes
<1>2. \A i \in 1..Len(c.up) : c.up[i] \in RequestUnits
  BY <1>1
<1> QED  BY <1>1, <1>2, UnitType, BoundAssumption DEF RequestNumbers

\* The server takes the next unit.
LEMMA InputsRead ==
  ASSUME NEW c \in Network, NEW d \in Network, NEW n \in Nat, Inputs(c, n), ReadsNext(c, d)
  PROVE  Inputs(d, n)
<1>1. /\ c.up \in Seq(RequestUnits) /\ Len(c.up) \in Nat
      /\ c.reading \in Nat /\ c.answered \in Nat
      /\ \A i \in 1..Len(c.up) : c.up[i].req \in Nat \ {0}
  BY ConnectionNumbers
<1>2. /\ Len(c.up) > 0 /\ d.reading = c.up[1].req /\ d.answered = c.answered
      /\ Len(d.up) = Len(c.up) - 1
      /\ \A i \in 1..Len(c.up) - 1 : d.up[i] = c.up[i + 1]
  BY <1>1 DEF ReadsNext
<1>3. /\ c.answered <= c.reading
      /\ \A i \in 1..Len(c.up) :
           c.up[i].req \in {c.answered, n} /\ c.reading <= c.up[i].req
      /\ \A i, j \in 1..Len(c.up) : i < j => c.up[i].req <= c.up[j].req
  BY DEF Inputs
<1>4. 1 \in 1..Len(c.up)
  BY <1>1, <1>2
<1>5. d.answered <= d.reading /\ d.reading \in {d.answered, n}
  BY <1>1, <1>2, <1>3, <1>4
<1>6. \A i \in 1..Len(d.up) :
        /\ i + 1 \in 1..Len(c.up) /\ 1 < i + 1 /\ d.up[i] = c.up[i + 1]
  BY <1>1, <1>2
<1>7. \A i \in 1..Len(d.up) : d.up[i].req \in {d.answered, n} /\ d.reading <= d.up[i].req
  BY <1>2, <1>3, <1>4, <1>6
<1>8. ASSUME NEW i \in 1..Len(d.up), NEW j \in 1..Len(d.up), i < j
      PROVE  d.up[i].req <= d.up[j].req
  <2>1. i + 1 < j + 1
    BY <1>2, <1>8
  <2> QED  BY <1>3, <1>6, <2>1
<1> QED  BY <1>5, <1>7, <1>8 DEF Inputs

\* A server that stops has nothing more to read than before.
LEMMA InputsStopped ==
  ASSUME NEW c \in Network, NEW d \in Network, NEW n \in Nat, Inputs(c, n),
         EndsStream(c, d) \/ Breaks(c, d)
  PROVE  Inputs(d, n) /\ d.answered = c.answered
<1>1. /\ d.answered = c.answered /\ d.reading = c.reading
      /\ d.up = c.up \/ d.up = <<>>
  BY DEF EndsStream, Breaks
<1>2. CASE d.up = c.up
  BY <1>1, <1>2 DEF Inputs
<1>3. CASE d.up = <<>>
  <2>1. Len(d.up) = 0
    BY <1>3
  <2> QED  BY <1>1, <2>1 DEF Inputs
<1> QED  BY <1>1, <1>2, <1>3

\* The server leaves a kept connection without a response, whatever it does.
LEMMA QuietStep ==
  ASSUME NEW c \in Network, NEW d \in Network, FinIsLast(c), Quiet(c),
         Proceeds(c, d)
  PROVE  Quiet(d) /\ d.answered = c.answered
<1>1. c.answered \in Nat /\ Inputs(c, c.answered)
  BY ConnectionNumbers DEF Quiet
<1>2. CASE ReadsNext(c, d)
  <2>1. d.down = c.down /\ d.answered = c.answered
    BY <1>2 DEF ReadsNext
  <2>2. Inputs(d, c.answered)
    BY <1>1, <1>2, InputsRead
  <2> QED  BY <2>1, <2>2 DEF Quiet
<1>3. CASE Responds(c, d)
  BY <1>1, <1>3 DEF Responds, Inputs
<1>4. ASSUME Inputs(d, c.answered), d.answered = c.answered,
             NEW m \in Nat, m <= Len(Data(c.down)), Len(Data(d.down)) = m,
             \A i \in 1..m : Data(d.down)[i] = Data(c.down)[i]
      PROVE  Quiet(d) /\ d.answered = c.answered
  <2>1. c.down \in Downs
    BY ConnectionNumbers DEF Downs, FinIsLast
  <2>2. Len(Data(c.down)) \in Nat
    BY <2>1, DataIs
  <2>3. \A i \in 1..m : i \in 1..Len(Data(c.down))
    BY <1>4, <2>2
  <2> QED  BY <1>4, <2>3 DEF Quiet
<1>5. CASE EndsStream(c, d)
  <2>1. PICK m \in 0..Len(c.down) : d.down = Append(SubSeq(c.down, 1, m), Fin)
    BY <1>5 DEF EndsStream
  <2>2. c.down \in Seq(ResponseUnits) /\ Data(c.down) = c.down
    BY <1>5, OpenDown DEF EndsStream
  <2>3. Data(d.down) = SubSeq(c.down, 1, m)
    BY <2>1, <2>2, DataEnded
  <2>4. /\ m \in Nat /\ m <= Len(c.down) /\ Len(SubSeq(c.down, 1, m)) = m
        /\ \A i \in 1..m : SubSeq(c.down, 1, m)[i] = c.down[i]
    BY <2>2
  <2>5. Inputs(d, c.answered) /\ d.answered = c.answered
    BY <1>1, <1>5, InputsStopped
  <2> QED  BY <1>4, <2>2, <2>3, <2>4, <2>5
<1>6. CASE Breaks(c, d)
  <2>1. PICK m \in 0..Len(c.down) : d.down = SubSeq(c.down, 1, m)
    BY <1>6 DEF Breaks
  <2>2. c.down \in Downs
    BY ConnectionNumbers DEF Downs, FinIsLast
  <2>3. /\ Len(Data(d.down)) \in 0..Len(Data(c.down))
        /\ \A i \in 1..Len(Data(d.down)) : Data(d.down)[i] = Data(c.down)[i]
    BY <2>1, <2>2, DataOfBroken
  <2>4. Len(Data(d.down)) \in Nat /\ Len(Data(d.down)) <= Len(Data(c.down))
    BY <2>3
  <2>5. Inputs(d, c.answered) /\ d.answered = c.answered
    BY <1>1, <1>6, InputsStopped
  <2> QED  BY <1>4, <2>3, <2>4, <2>5
<1>7. CASE Announces(c, d)
  BY <1>1, <1>7 DEF Announces, Inputs
<1> QED  BY <1>2, <1>3, <1>5, <1>6, <1>7 DEF Proceeds

\* On the connection in use one response comes, whatever the server does.
LEMMA InUseStep ==
  ASSUME NEW c \in Network, NEW d \in Network, NEW p \in Parsers, NEW n \in Nat,
         FinIsLast(c), InUse(c, p, n),
         Proceeds(c, d)
  PROVE  InUse(d, p, n)
<1>1. /\ c.answered \in Nat /\ c.reading \in Nat /\ Inputs(c, n) /\ c.answered <= n
      /\ Coming(p, Data(c.down), 0, n, c.answered, c.server = "reset")
      /\ \A i \in 1..Len(c.up) : c.up[i].req \in Nat \ {0}
  BY ConnectionNumbers DEF InUse
<1>2. CASE ReadsNext(c, d)
  <2>1. d.down = c.down /\ d.answered = c.answered /\ d.server = c.server
    BY <1>2 DEF ReadsNext
  <2>2. Inputs(d, n)
    BY <1>1, <1>2, InputsRead
  <2> QED  BY <1>1, <2>1, <2>2 DEF InUse
<1>3. CASE Responds(c, d)
  <2>1. PICK r : IsResponse(r, c.reading) /\ d.down = c.down \o r
    BY <1>3 DEF Responds
  <2>2. /\ c.server = "open" /\ c.reading # 0 /\ c.answered # c.reading
        /\ d.answered = c.reading /\ d.up = c.up /\ d.reading = c.reading
        /\ d.server = "open"
    BY <1>3 DEF Responds
  <2>3. c.reading = n /\ c.answered # n /\ c.answered <= n
    BY <1>1, <2>2 DEF Inputs
  <2>4. c.down \in Seq(ResponseUnits) /\ Data(c.down) = c.down
    BY <2>2, OpenDown
  <2>5. c.down \o r \in Seq(ResponseUnits)
    <3>1. r \in Seq(ResponseUnits)
      BY <2>1 DEF IsResponse
    <3> QED  BY <2>4, <3>1
  <2>6. Data(d.down) = c.down \o r
    BY <2>1, <2>5, DataOpen
  <2>7. p.stage = "head" => Awaited(c.down, 0, n, c.answered, FALSE)
    <3>1. (c.server = "reset") = FALSE
      BY <2>2
    <3> QED  BY <1>1, <2>4, <3>1 DEF Coming
  <2>8. p.stage \in {"head", "error"}
    BY <1>1, <2>3 DEF Coming
  <2>9. p.stage = "head" => Awaited(c.down \o r, 0, n, n, FALSE)
    BY <2>1, <2>3, <2>4, <2>7, AwaitedResponse
  <2>10. Coming(p, Data(d.down), 0, n, d.answered, d.server = "reset")
    <3>1. (d.server = "reset") = FALSE
      BY <2>2
    <3> QED  BY <2>2, <2>3, <2>6, <2>8, <2>9, <3>1 DEF Coming
  <2>11. Inputs(d, n)
    <3>1. \A i \in 1..Len(c.up) :
            c.up[i].req \in {c.answered, n} /\ c.reading <= c.up[i].req
      BY <1>1 DEF Inputs
    <3>2. \A i \in 1..Len(c.up) : c.up[i].req = n
      BY <1>1, <2>3, <3>1
    <3> QED  BY <1>1, <2>2, <2>3, <3>2 DEF Inputs
  <2> QED  BY <2>2, <2>3, <2>10, <2>11 DEF InUse
<1>4. CASE EndsStream(c, d)
  <2>1. PICK m \in 0..Len(c.down) :
          /\ m < Len(c.down) => c.down[m + 1].counted \/ c.down[m + 1].kind # "body"
          /\ d.down = Append(SubSeq(c.down, 1, m), Fin)
    BY <1>4 DEF EndsStream
  <2>2. c.down \in Seq(ResponseUnits) /\ Data(c.down) = c.down
    BY <1>4, OpenDown DEF EndsStream
  <2>3. Data(d.down) = SubSeq(c.down, 1, m)
    BY <2>1, <2>2, DataEnded
  <2>4. /\ SubSeq(c.down, 1, m) \in Seq(ResponseUnits) /\ Len(SubSeq(c.down, 1, m)) = m
        /\ \A i \in 1..m : SubSeq(c.down, 1, m)[i] = c.down[i]
    BY <2>2
  <2>5. Inputs(d, n) /\ d.answered = c.answered
    BY <1>1, <1>4, InputsStopped
  <2>6. (c.server = "reset") = FALSE /\ (d.server = "reset") = FALSE
    BY <1>4 DEF EndsStream
  <2>7. Coming(p, c.down, 0, n, c.answered, FALSE)
    BY <1>1, <2>2, <2>6
  <2>8. Coming(p, SubSeq(c.down, 1, m), 0, n, c.answered, FALSE)
    BY <2>1, <2>2, <2>4, <2>7, ComingPrefix
  <2> QED  BY <1>1, <2>3, <2>5, <2>6, <2>8 DEF InUse
<1>5. CASE Breaks(c, d)
  <2>1. PICK m \in 0..Len(c.down) : d.down = SubSeq(c.down, 1, m)
    BY <1>5 DEF Breaks
  <2>2. c.down \in Downs
    BY ConnectionNumbers DEF Downs, FinIsLast
  <2>3. /\ Data(d.down) \in Seq(ResponseUnits)
        /\ Len(Data(d.down)) \in 0..Len(Data(c.down))
        /\ \A i \in 1..Len(Data(d.down)) : Data(d.down)[i] = Data(c.down)[i]
    BY <2>1, <2>2, DataOfBroken
  <2>4. Data(c.down) \in Seq(ResponseUnits)
    BY <2>2, DataIs
  <2>5. Inputs(d, n) /\ d.answered = c.answered
    BY <1>1, <1>5, InputsStopped
  <2>6. (d.server = "reset") = TRUE
    BY <1>5 DEF Breaks
  <2>7. (c.server = "reset") \in BOOLEAN /\ TRUE \in BOOLEAN
    OBVIOUS
  <2>8. Coming(p, Data(d.down), 0, n, c.answered, TRUE)
    BY <1>1, <2>3, <2>4, <2>7, ComingPrefix
  <2> QED  BY <1>1, <2>5, <2>6, <2>8 DEF InUse
<1>6. CASE Announces(c, d)
  <2>1. /\ c.server = "open" /\ c.reading # 0 /\ c.answered # c.reading
        /\ d.up = c.up /\ d.reading = c.reading /\ d.answered = c.answered
        /\ d.server = "open"
    BY <1>6 DEF Announces
  <2>2. PICK u \in ResponseUnits : u.kind = "interim" /\ d.down = Append(c.down, u)
    BY <1>6, ConnectionTypes, InterimIs DEF Announces
  <2>3. c.reading = n /\ c.answered # n
    BY <1>1, <2>1 DEF Inputs
  <2>4. c.down \in Seq(ResponseUnits) /\ Data(c.down) = c.down
    BY <2>1, OpenDown
  <2>5. Data(d.down) = Append(c.down, u)
    <3>1. Append(c.down, u) \in Seq(ResponseUnits)
      BY <2>2, <2>4
    <3> QED  BY <2>2, <3>1, DataOpen
  <2>6. (c.server = "reset") = FALSE /\ (d.server = "reset") = FALSE
    BY <2>1
  <2>7. /\ p.stage \in {"head", "error"}
        /\ p.stage = "head" => Awaited(c.down, 0, n, c.answered, FALSE)
    BY <1>1, <2>3, <2>4, <2>6 DEF Coming
  <2>8. p.stage = "head" => Awaited(Append(c.down, u), 0, n, c.answered, FALSE)
    BY <2>2, <2>3, <2>4, <2>7, AwaitedInterim
  <2>9. Coming(p, Data(d.down), 0, n, d.answered, d.server = "reset")
    BY <2>1, <2>5, <2>6, <2>7, <2>8 DEF Coming
  <2>10. Inputs(d, n)
    BY <1>1, <2>1 DEF Inputs
  <2> QED  BY <1>1, <2>1, <2>9, <2>10 DEF InUse
<1> QED  BY <1>2, <1>3, <1>4, <1>5, <1>6 DEF Proceeds

\* The client reads some of what came.
LEMMA InUseTaken ==
  ASSUME NEW c \in Network, NEW d \in Network, NEW p \in Parsers, NEW n \in Nat,
         FinIsLast(c), InUse(c, p, n), NEW m \in 1..Len(Data(c.down)),
         d.up = c.up, d.server = c.server, d.reading = c.reading,
         d.answered = c.answered, d.down = SubSeq(c.down, m + 1, Len(c.down))
  PROVE  InUse(d, Parse(p, SubSeq(Data(c.down), 1, m)), n)
<1> DEFINE data  == Data(c.down)
           units == SubSeq(data, 1, m)
           reset == c.server = "reset"
           T == {iq \in Nat \X Parsers :
                   Coming(iq[2], data, iq[1], n, c.answered, reset)}
<1>1. c.down \in Downs /\ Len(c.down) \in Nat
  BY ConnectionNumbers DEF Downs, FinIsLast
<1>2. data \in Seq(ResponseUnits) /\ Len(data) \in Nat /\ Len(data) <= Len(c.down)
  BY <1>1, DataIs
<1>3. Inputs(d, n) /\ d.answered <= n /\ Coming(p, data, 0, n, c.answered, reset)
  BY DEF InUse, Inputs
<1>4. reset \in BOOLEAN /\ reset = (d.server = "reset")
  OBVIOUS
<1> HIDE DEF data, reset
<1>5. m \in Nat /\ m <= Len(data) /\ m \in 1..Len(data)
  BY <1>2 DEF data
<1>6. /\ units \in Seq(ResponseUnits) /\ Len(units) = m
      /\ \A i \in 1..m : units[i] = data[i]
  BY <1>2, <1>5
<1> HIDE DEF units
<1>7. <<0, p>> \in T
  BY <1>3
<1>8. ASSUME NEW i \in 1..Len(units), NEW q \in Parsers, <<i - 1, q>> \in T
      PROVE  <<i, ParseUnit(q, units[i])>> \in T
  <2>1. i \in 1..Len(data) /\ units[i] = data[i] /\ i \in Nat /\ data[i] \in ResponseUnits
    BY <1>2, <1>5, <1>6
  <2>2. Coming(q, data, i - 1, n, c.answered, reset)
    BY <1>8
  <2>3. Coming(ParseUnit(q, data[i]), data, i, n, c.answered, reset)
    BY <1>2, <1>4, <2>1, <2>2, ParseUnitComing
  <2>4. ParseUnit(q, data[i]) \in Parsers
    BY <2>1, ParseUnitType
  <2> QED  BY <2>1, <2>3, <2>4
<1> HIDE DEF T
<1>9. Parse(p, units) \in Parsers /\ <<Len(units), Parse(p, units)>> \in T
  BY <1>6, <1>7, <1>8, ParseInvariant
<1> DEFINE q == Parse(p, units)
<1> HIDE DEF q
<1>10. q \in Parsers /\ Coming(q, data, m, n, c.answered, reset)
  BY <1>6, <1>9 DEF T, q
<1>11. /\ Data(d.down) \in Seq(ResponseUnits) /\ Len(Data(d.down)) = Len(data) - m
       /\ \A i \in 1..Len(data) - m : Data(d.down)[i] = data[m + i]
  <2>1. m \in 0..Len(c.down) /\ Len(c.down) \in m..Len(c.down)
    BY <1>1, <1>2, <1>5
  <2>2. /\ d.down \in Downs
        /\ \A i \in 1..Len(Data(d.down)) : Data(d.down)[i] = data[m + i]
        /\ Len(Data(d.down)) = Len(data) - m
    <3> DEFINE b == Len(c.down)
    <3>1. b \in m..Len(c.down) /\ b = Len(c.down)
      BY <2>1
    <3>2. d.down = SubSeq(c.down, m + 1, b) /\ m <= Len(Data(c.down))
      BY <1>5 DEF data
    <3> HIDE DEF b
    <3>3. LET e == SubSeq(c.down, m + 1, b)
          IN /\ e \in Downs
             /\ \A i \in 1..Len(Data(e)) :
                  m + i <= Len(Data(c.down)) /\ Data(e)[i] = Data(c.down)[m + i]
             /\ Len(Data(e)) = Len(Data(c.down)) - m
      BY <1>1, <2>1, <3>1, <3>2, DataOfPart
    <3> QED  BY <3>2, <3>3 DEF data
  <2> QED  BY <2>2, DataIs
<1>12. Coming(q, Data(d.down), 0, n, c.answered, reset)
  <2>1. m \in 0..Len(data)
    BY <1>2, <1>5
  <2> QED  BY <1>2, <1>4, <1>10, <1>11, <2>1, ComingShift
<1>13. InUse(d, q, n)
  BY <1>3, <1>4, <1>12 DEF InUse
<1> QED  BY <1>13 DEF q, units, data

-------------------------------------------------------------------------------
(* Steps of the call.                                                      *)

\* A connection that was reset stays so, and what was written stays written.
LEMMA ResetStays ==
  ASSUME TypeOK, Control, [Next]_vars, NEW n \in RequestNumbers, WasReset(n)
  PROVE  WasReset(n)'
<1>1. ASSUME \A k \in Connections :
               /\ k \in Connections'
               /\ net[k].server = "reset" => net'[k].server = "reset"
               /\ \A i \in DOMAIN stream[k] :
                    i \in DOMAIN stream'[k] /\ stream'[k][i] = stream[k][i]
      PROVE  WasReset(n)'
  BY <1>1 DEF WasReset
<1>2. ASSUME Len(net') = Len(net), UNCHANGED stream,
             \A k \in Connections : net[k].server = "reset" => net'[k].server = "reset"
      PROVE  WasReset(n)'
  BY <1>1, <1>2 DEF Connections
<1>3. ASSUME UNCHANGED <<net, stream>> PROVE WasReset(n)'
  BY <1>2, <1>3
<1>4. CASE Connect
  <2>1. net \in Seq(Network) /\ stream \in Seq(Seq(RequestUnits)) /\ Len(stream) = Len(net)
        /\ Len(net) \in Nat
    BY DEF TypeOK
  <2>2. net' = Append(net, NewConnection) /\ stream' = Append(stream, <<>>)
    BY <1>4 DEF Connect
  <2>3. /\ Len(net') = Len(net) + 1
        /\ \A k \in 1..Len(net) : net'[k] = net[k] /\ stream'[k] = stream[k]
    BY <2>1, <2>2
  <2>4. \A k \in Connections : k \in Connections' /\ net'[k] = net[k] /\ stream'[k] = stream[k]
    BY <2>1, <2>3 DEF Connections
  <2> QED  BY <1>1, <2>4
<1>5. CASE Write
  <2>1. /\ conn \in Connections /\ Connections' = Connections
        /\ \A k \in Connections : k # conn => net'[k] = net[k]
        /\ net'[conn].server = net[conn].server
    BY <1>5, Written
  <2>2. /\ stream[conn] \in Seq(RequestUnits)
        /\ stream'[conn] = Append(stream[conn], unsent[1])
        /\ \A k \in Connections : k # conn => stream'[k] = stream[k]
        /\ \A i \in 1..Len(stream[conn]) : stream'[conn][i] = stream[conn][i]
    BY <1>5, StreamAfterWrite
  <2>3. \A i \in DOMAIN stream[conn] :
          i \in DOMAIN stream'[conn] /\ stream'[conn][i] = stream[conn][i]
    <3>1. unsent[1] \in RequestUnits
      BY <1>5, Written
    <3>2. /\ DOMAIN stream[conn] = 1..Len(stream[conn]) /\ Len(stream[conn]) \in Nat
          /\ DOMAIN stream'[conn] = 1..Len(stream[conn]) + 1
      BY <2>2, <3>1
    <3> QED  BY <2>2, <3>2
  <2> QED  BY <1>1, <2>1, <2>2, <2>3
<1>6. ASSUME NEW r \in Results, GivesUp(r) PROVE WasReset(n)'
  <2>1. /\ conn \in Connections /\ Len(net') = Len(net) /\ UNCHANGED stream
        /\ net'[conn].server = "reset" <=> net[conn].server = "reset"
        /\ \A k \in Connections : k # conn => net'[k] = net[k]
    BY <1>6, GivingUp
  <2> QED  BY <1>2, <2>1
<1>7. Error \in Results /\ Response(parser.answer) \in Results
  BY ResponseType DEF TypeOK, Parsers
<1>8. ASSUME NEW m \in 1..Len(Readable(conn)), Takes(m) PROVE WasReset(n)'
  <2>1. /\ Len(net') = Len(net) /\ net'[conn].server = net[conn].server
        /\ \A k \in Connections : k # conn => net'[k] = net[k]
    BY <1>8, Taken
  <2> QED  BY <1>2, <1>8, <2>1 DEF Takes
<1>9. ASSUME NEW k \in Connections, Server(k) PROVE WasReset(n)'
  <2>1. FinIsLast(net[k])
    BY DEF Control
  <2>2. /\ Len(net') = Len(net) /\ UNCHANGED stream
        /\ \A j \in Connections : j # k => net'[j] = net[j]
        /\ Proceeds(net[k], net'[k])
    BY <1>9, <2>1, Serving
  <2>3. net[k].server = "reset" => net'[k].server = "reset"
    BY <2>2 DEF Proceeds, ReadsNext, Announces, Responds, EndsStream, Breaks
  <2> QED  BY <1>2, <2>2, <2>3
<1>10. ASSUME NEW size \in 0..MaxUnits, Begin(size) PROVE WasReset(n)'
  BY <1>3, <1>10 DEF Begin
<1>11. CASE Adopt \/ ConnectFails \/ Retain \/ UNCHANGED vars
  BY <1>3, <1>11 DEF Adopt, ConnectFails, Retain, vars
<1> QED  BY <1>4, <1>5, <1>6, <1>7, <1>8, <1>9, <1>10, <1>11, Steps

\* What was returned stays what it is.
LEMMA ReturnedStays ==
  ASSUME TypeOK, Control, [Next]_vars, NEW n \in RequestNumbers, Returned(n),
         result'[n] = result[n]
  PROVE  Returned(n)'
BY ResetStays DEF Returned

LEMMA OthersReturned ==
  ASSUME TypeOK, Control, [Next]_vars, \A n \in RequestNumbers : Returned(n),
         NEW r \in Results, pc # "idle", result' = [result EXCEPT ![request] = r],
         r.kind = "response" =>
           /\ Stored(r.answer, request)
           /\ Len(r.answer.body) = r.answer.size
                \/ (~r.answer.counted /\ WasReset(request))
  PROVE  \A n \in RequestNumbers : Returned(n)'
<1>1. request \in RequestNumbers /\ result \in [RequestNumbers -> Results]
  BY DEF TypeOK, Control
<1>2. result'[request] = r /\ \A n \in RequestNumbers : n # request => result'[n] = result[n]
  BY <1>1
<1> TAKE n \in RequestNumbers
<1>3. CASE n = request
  <2>1. WasReset(n) => WasReset(n)'
    BY ResetStays
  <2>2. result'[n].kind = "response" =>
          /\ Stored(result'[n].answer, n)
          /\ Len(result'[n].answer.body) = result'[n].answer.size
               \/ (~result'[n].answer.counted /\ WasReset(n)')
    BY <1>2, <1>3, <2>1
  <2> QED  BY <2>2 DEF Returned
<1>4. CASE n # request
  BY <1>2, <1>4, ReturnedStays
<1> QED  BY <1>3, <1>4

\* What the call returns is the response to its request.
LEMMA Delivered ==
  ASSUME TypeOK, Control, Writing, Reading, Delivers, conn # 0
  PROVE  /\ Stored(parser.answer, request)
         /\ Len(parser.answer.body) = parser.answer.size
              \/ (~parser.answer.counted /\ WasReset(request))
<1>1. /\ parser \in Parsers /\ conn \in Connections /\ net[conn] \in Network
      /\ InUse(net[conn], parser, request) /\ FinIsLast(net[conn])
  BY DEF TypeOK, Control, Reading, Connections
<1>2. parser.stage \in {"complete", "close"}
  BY DEF Delivers, Control
<1>3. Continues(parser, Data(net[conn].down), 0, request, net[conn].server = "reset")
  BY <1>1, <1>2 DEF InUse, Coming
<1>4. Stored(parser.answer, request)
  BY <1>3 DEF Continues
<1>5. CASE pc = "decide"
  <2>1. parser.stage = "complete"
    BY <1>5 DEF Control
  <2> QED  BY <1>3, <1>4, <2>1 DEF Continues
<1>6. CASE pc = "read" /\ parser.stage = "close" /\ Ended(conn)
  <2> DEFINE d == Data(net[conn].down)
             rest == parser.answer.size - Len(parser.answer.body)
  <2>1. Readable(conn) = d /\ Readable(conn) = <<>>
    BY <1>1, <1>6, ReadableIs DEF Ended
  <2>2. Len(d) = 0 /\ 0 + rest = rest /\ rest \in Int
    BY <1>1, <2>1, ParserTypes
  <2>3. ~parser.answer.counted
    BY <1>3, <1>6 DEF Continues
  <2>4. Follows(d, 0, rest, request, parser.answer.counted, net[conn].server = "reset")
    BY <1>3 DEF Continues
  <2> HIDE DEF d, rest
  <2>5. rest = 0 \/ net[conn].server = "reset"
    BY <2>2, <2>3, <2>4 DEF Follows
  <2>6. CASE rest = 0
    <3>1. Len(parser.answer.body) = parser.answer.size
      BY <1>1, <2>6, ParserTypes DEF rest
    <3> QED  BY <1>4, <3>1
  <2>7. CASE net[conn].server = "reset"
    <3> DEFINE s == stream[conn]
    <3>1. unsent = <<>> /\ ~NothingSent
      BY <1>6 DEF Control, NothingSent
    <3>2. s # <<>> /\ s[Len(s)].req = request
      BY <3>1 DEF Writing, Ends
    <3>3. Len(s) \in DOMAIN s
      <4>1. s \in Seq(RequestUnits)
        BY <1>1 DEF TypeOK, Connections
      <4> QED  BY <3>2, <4>1
    <3>4. WasReset(request)
      BY <1>1, <2>7, <3>2, <3>3 DEF WasReset
    <3> QED  BY <1>4, <2>3, <3>4
  <2> QED  BY <2>5, <2>6, <2>7
<1> QED  BY <1>5, <1>6 DEF Delivers

\* A kept connection can be used for the next request.
LEMMA QuietInUse ==
  ASSUME NEW c \in Network, Quiet(c), NEW n \in Nat, c.answered <= n, NEW p,
         p.stage = "head"
  PROVE  InUse(c, p, n)
<1>1. Inputs(c, n)
  BY DEF Quiet, Inputs
<1>2. Awaited(Data(c.down), 0, n, c.answered, c.server = "reset")
  BY DEF Quiet, Awaited
<1> QED  BY <1>1, <1>2 DEF InUse, Coming

\* Another unit of request n, of which nothing is behind.
LEMMA InUseWritten ==
  ASSUME NEW c \in Network, NEW d \in Network, NEW p, NEW n \in Nat, InUse(c, p, n),
         NEW u \in RequestUnits, u.req = n, d.up = Append(c.up, u), d.down = c.down,
         d.server = c.server, d.reading = c.reading, d.answered = c.answered
  PROVE  InUse(d, p, n)
<1>1. /\ c.up \in Seq(RequestUnits) /\ Len(c.up) \in Nat
      /\ c.reading \in Nat /\ c.answered \in Nat
      /\ \A i \in 1..Len(c.up) : c.up[i].req \in Nat \ {0}
  BY ConnectionNumbers
<1>2. /\ Len(d.up) = Len(c.up) + 1 /\ d.up[Len(c.up) + 1] = u
      /\ \A i \in 1..Len(c.up) : d.up[i] = c.up[i]
  BY <1>1
<1>3. /\ Inputs(c, n) /\ c.answered <= n
      /\ Coming(p, Data(c.down), 0, n, c.answered, c.server = "reset")
  BY DEF InUse
<1>4. /\ c.reading \in {c.answered, n} /\ c.reading <= n /\ c.answered <= c.reading
      /\ \A i \in 1..Len(c.up) :
           c.up[i].req \in {c.answered, n} /\ c.reading <= c.up[i].req /\ c.up[i].req <= n
      /\ \A i, j \in 1..Len(c.up) : i < j => c.up[i].req <= c.up[j].req
  BY <1>1, <1>3 DEF Inputs
<1>5. \A i \in 1..Len(d.up) : i \in 1..Len(c.up) \/ i = Len(c.up) + 1
  BY <1>1, <1>2
<1>6. \A i \in 1..Len(d.up) :
        d.up[i].req \in {d.answered, n} /\ d.reading <= d.up[i].req /\ d.up[i].req <= n
  BY <1>2, <1>4, <1>5
<1>7. ASSUME NEW i \in 1..Len(d.up), NEW j \in 1..Len(d.up), i < j
      PROVE  d.up[i].req <= d.up[j].req
  <2>1. i \in 1..Len(c.up)
    BY <1>1, <1>2, <1>7
  <2>2. CASE j \in 1..Len(c.up)
    BY <1>2, <1>4, <1>7, <2>1, <2>2
  <2>3. CASE j = Len(c.up) + 1
    BY <1>2, <1>4, <2>1, <2>3
  <2> QED  BY <1>5, <2>2, <2>3
<1>8. Inputs(d, n)
  BY <1>4, <1>6, <1>7 DEF Inputs
<1> QED  BY <1>3, <1>8 DEF InUse

\* A connection that is given up is neither kept nor in use.
LEMMA ReadingGivesUp ==
  ASSUME TypeOK, Control, Writing, Reading, [Next]_vars, pc # "idle",
         NEW r \in Results, GivesUp(r),
         r.kind = "response" =>
           /\ Stored(r.answer, request)
           /\ Len(r.answer.body) = r.answer.size
                \/ (~r.answer.counted /\ WasReset(request))
  PROVE  Reading'
<1>1. conn' = 0 /\ UNCHANGED slot /\ result' = [result EXCEPT ![request] = r]
  BY GivingUp
<1>2. slot' = 0
  BY <1>1 DEF GivesUp, TypeOK
<1>3. \A n \in RequestNumbers : Returned(n)'
  BY <1>1, OthersReturned DEF Reading
<1> QED  BY <1>1, <1>2, <1>3 DEF Reading

LEMMA ReadingStep ==
  ASSUME TypeOK, Control, Writing, Reading, [Next]_vars
  PROVE  Reading'
<1>1. /\ request \in Nat /\ parser \in Parsers
      /\ slot # 0 => slot \in Connections /\ conn = 0
      /\ conn # 0 => conn \in Connections /\ slot = 0
      /\ \A k \in Connections : net[k] \in Network /\ net[k].answered \in Nat /\ FinIsLast(net[k])
  <2>1. \A k \in Connections : net[k] \in Network
    BY DEF TypeOK, Connections
  <2> QED  BY <2>1, ConnectionNumbers, BoundAssumption DEF TypeOK, RequestNumbers, Control
<1>2. ASSUME UNCHANGED result PROVE \A n \in RequestNumbers : Returned(n)'
  BY <1>2, ReturnedStays DEF Reading
<1>3. ASSUME NEW size \in 0..MaxUnits, Begin(size) PROVE Reading'
  <2>1. request' = request + 1 /\ pc = "idle" /\ UNCHANGED <<net, slot, conn, parser, result>>
    BY <1>3, Begun
  <2>2. conn' = 0
    BY <2>1 DEF TypeOK
  <2>3. ASSUME slot' # 0 PROVE Quiet(net'[slot']) /\ net'[slot'].answered <= request'
    <3>1. Quiet(net[slot]) /\ net[slot].answered <= request /\ net[slot].answered \in Nat
      BY <1>1, <2>1, <2>3 DEF Reading
    <3>2. net[slot].answered <= request + 1
      BY <1>1, <3>1
    <3> QED  BY <2>1, <3>1, <3>2
  <2> QED  BY <1>2, <2>1, <2>2, <2>3 DEF Reading
<1>4. CASE Adopt
  <2>1. /\ slot # 0 /\ conn' = slot /\ slot' = 0 /\ pc = "acquire"
        /\ UNCHANGED <<net, request, parser, result>>
    BY <1>4 DEF Adopt
  <2>2. parser.stage = "head"
    BY <2>1, NewParserType DEF Control
  <2>3. InUse(net[slot], parser, request)
    BY <1>1, <2>1, <2>2, QuietInUse DEF Reading
  <2> QED  BY <1>2, <2>1, <2>3 DEF Reading
<1>5. CASE Connect
  <2>1. /\ net' = Append(net, NewConnection) /\ conn' = Len(net) + 1 /\ pc = "acquire"
        /\ slot = 0 /\ UNCHANGED <<slot, request, parser, result>>
    BY <1>5 DEF Connect
  <2>2. net \in Seq(Network) /\ NewConnection \in Network
    BY NewConnectionType DEF TypeOK
  <2>3. net'[conn'] = NewConnection
    BY <2>1, <2>2
  <2>4. /\ NewConnection.up = <<>> /\ NewConnection.down = <<>>
        /\ NewConnection.reading = 0 /\ NewConnection.answered = 0
    BY DEF NewConnection
  <2>5. Data(NewConnection.down) = <<>> /\ Len(NewConnection.up) = 0
    BY <2>4 DEF Data
  <2>6. Quiet(NewConnection) /\ 0 <= request
    BY <1>1, <2>4, <2>5 DEF Quiet, Inputs
  <2>7. parser.stage = "head"
    BY <2>1, NewParserType DEF Control
  <2>8. InUse(NewConnection, parser, request)
    BY <1>1, <2>2, <2>4, <2>6, <2>7, QuietInUse
  <2> QED  BY <1>2, <2>1, <2>3, <2>8 DEF Reading
<1>6. CASE ConnectFails
  <2>1. /\ pc = "acquire" /\ conn' = 0 /\ slot = 0 /\ UNCHANGED slot
        /\ result' = [result EXCEPT ![request] = Error]
    BY <1>6 DEF ConnectFails, Return
  <2>2. Error \in Results /\ Error.kind # "response"
    BY <1>1, ResponseType DEF Parsers
  <2>3. \A n \in RequestNumbers : Returned(n)'
    BY <2>1, <2>2, OthersReturned DEF Reading
  <2> QED  BY <2>1, <2>3 DEF Reading
<1>7. CASE Write
  <2>1. /\ conn \in Connections /\ net' \in Seq(Network) /\ Len(net') = Len(net)
        /\ unsent # <<>> /\ unsent[1] \in RequestUnits
        /\ net'[conn].up = Append(net[conn].up, unsent[1])
        /\ net'[conn].down = net[conn].down /\ net'[conn].server = net[conn].server
        /\ net'[conn].reading = net[conn].reading
        /\ net'[conn].answered = net[conn].answered
    BY <1>7, Written
  <2>2. conn # 0 /\ slot = 0 /\ UNCHANGED <<slot, request, conn, parser, result>>
    BY <1>7 DEF Write, TypeOK
  <2>3. unsent[1].req = request
    <3>1. 1 \in 1..Len(unsent)
      BY <2>1 DEF TypeOK
    <3> QED  BY <2>1, <3>1 DEF Writing, RestOfRequest
  <2>4. net'[conn] \in Network
    BY <2>1 DEF Connections
  <2>5. InUse(net'[conn], parser, request)
    BY <1>1, <2>1, <2>2, <2>3, <2>4, InUseWritten DEF Reading
  <2> QED  BY <1>2, <2>2, <2>5 DEF Reading
<1>8. CASE Retain
  <2>1. /\ pc = "decide" /\ parser.answer.counted /\ conn' = 0 /\ slot' = conn
        /\ UNCHANGED <<net, request>>
        /\ result' = [result EXCEPT ![request] = Response(parser.answer)]
    BY <1>8 DEF Retain, Reusable, Return
  <2>2. conn # 0 /\ parser.stage = "complete" /\ Delivers
    BY <2>1 DEF TypeOK, Control, Delivers
  <2>3. /\ Response(parser.answer) \in Results /\ Response(parser.answer).kind = "response"
        /\ Response(parser.answer).answer = parser.answer
    BY <1>1, ResponseType DEF Parsers
  <2>4. \A n \in RequestNumbers : Returned(n)'
    BY <2>1, <2>2, <2>3, Delivered, OthersReturned DEF Reading
  <2> DEFINE c == net[conn]
             d == Data(c.down)
             rest == parser.answer.size - Len(parser.answer.body)
  <2>5. InUse(c, parser, request) /\ c \in Network
    BY <1>1, <2>2 DEF Reading
  <2>6. c.answered = request
        /\ Continues(parser, d, 0, request, c.server = "reset")
    BY <2>2, <2>5 DEF InUse, Coming
  <2>7. rest = 0
    BY <1>1, <2>2, <2>6, ParserTypes DEF Continues
  <2>8. Follows(d, 0, rest, request, parser.answer.counted, c.server = "reset")
    BY <2>6 DEF Continues
  <2> HIDE DEF c, d, rest
  <2>9. \A i \in 1..Len(d) : d[i].kind = "surplus"
    <3>1. d \in Seq(ResponseUnits)
      BY <1>1, <2>2, ReadableIs DEF c, d
    <3>2. \A i \in 1..Len(d) : i \in 0 + 1..Len(d) /\ ~(i <= 0 + rest)
      BY <2>7, <3>1
    <3> QED  BY <2>8, <3>2 DEF Follows
  <2>10. Quiet(c)
    BY <2>5, <2>6, <2>9 DEF Quiet, InUse, d
  <2>11. c.answered <= request
    BY <1>1, <2>6
  <2> QED  BY <2>1, <2>4, <2>10, <2>11 DEF Reading, c
<1>9. CASE pc \in {"write", "read", "decide"} /\ GivesUp(Error)
  <2>1. Error \in Results /\ Error.kind # "response"
    BY <1>1, ResponseType DEF Parsers
  <2> QED  BY <1>9, <2>1, ReadingGivesUp
<1>10. CASE Delivers /\ GivesUp(Response(parser.answer))
  <2>1. /\ Response(parser.answer) \in Results
        /\ Response(parser.answer).answer = parser.answer
    BY <1>1, ResponseType DEF Parsers
  <2>2. pc # "idle" /\ conn # 0
    BY <1>10 DEF Delivers, GivesUp
  <2> QED  BY <1>10, <2>1, <2>2, Delivered, ReadingGivesUp
<1>11. ASSUME NEW m \in 1..Len(Readable(conn)), Takes(m) PROVE Reading'
  <2>1. /\ conn \in Connections /\ net' \in Seq(Network) /\ Len(net') = Len(net)
        /\ net'[conn].up = net[conn].up /\ net'[conn].server = net[conn].server
        /\ net'[conn].reading = net[conn].reading
        /\ net'[conn].answered = net[conn].answered
        /\ net'[conn].down = SubSeq(net[conn].down, m + 1, Len(net[conn].down))
    BY <1>11, Taken
  <2>2. /\ parser' = Parse(parser, SubSeq(Readable(conn), 1, m)) /\ conn # 0 /\ slot = 0
        /\ UNCHANGED <<slot, request, conn, result>>
    BY <1>11 DEF Takes, TypeOK
  <2>3. Readable(conn) = Data(net[conn].down)
    BY <1>1, <2>1, ReadableIs
  <2>4. net'[conn] \in Network
    BY <2>1 DEF Connections
  <2>5. InUse(net'[conn], parser', request)
    BY <1>1, <2>1, <2>2, <2>3, <2>4, InUseTaken DEF Reading
  <2> QED  BY <1>2, <2>2, <2>5 DEF Reading
<1>12. ASSUME NEW k \in Connections, Server(k) PROVE Reading'
  <2>1. /\ net' \in Seq(Network) /\ Len(net') = Len(net)
        /\ \A j \in Connections : j # k => net'[j] = net[j]
        /\ Proceeds(net[k], net'[k])
        /\ UNCHANGED <<slot, pc, request, conn, unsent, parser, result, stream>>
    BY <1>1, <1>12, Serving
  <2>2. net'[k] \in Network
    BY <2>1 DEF Connections
  <2>3. slot # 0 => Quiet(net'[slot]) /\ net'[slot].answered <= request
    <3>1. CASE slot = k
      <4>1. slot # 0 => Quiet(net'[k]) /\ net'[k].answered = net[k].answered
        BY <1>1, <2>1, <2>2, <3>1, QuietStep DEF Reading
      <4> QED  BY <3>1, <4>1 DEF Reading
    <3>2. CASE slot # k
      BY <1>1, <2>1, <3>2 DEF Reading
    <3> QED  BY <3>1, <3>2
  <2>4. conn # 0 => InUse(net'[conn], parser, request)
    <3>1. CASE conn = k
      BY <1>1, <2>1, <2>2, <3>1, InUseStep DEF Reading
    <3>2. CASE conn # k
      BY <1>1, <2>1, <3>2 DEF Reading
    <3> QED  BY <3>1, <3>2
  <2> QED  BY <1>2, <2>1, <2>3, <2>4 DEF Reading
<1>13. CASE UNCHANGED vars
  BY <1>2, <1>13 DEF Reading, vars
<1> QED  BY <1>3, <1>4, <1>5, <1>6, <1>7, <1>8, <1>9, <1>10, <1>11, <1>12, <1>13, Steps

-------------------------------------------------------------------------------
(* The invariant, and what follows from it.                                *)

Inv == TypeOK /\ Control /\ Writing /\ Reading

LEMMA InitInv == Init => Inv
<1> SUFFICES ASSUME Init PROVE Inv
  OBVIOUS
<1>1. /\ net = <<>> /\ stream = <<>> /\ slot = 0 /\ conn = 0 /\ request = 0
      /\ pc = "idle" /\ unsent = <<>> /\ parser = NewParser
      /\ result = [n \in RequestNumbers |-> NoResult]
      /\ MaxRequests \in Nat
  BY BoundAssumption DEF Init
<1>2. Connections = {} /\ Len(net) = 0 /\ Len(stream) = 0
  BY <1>1 DEF Connections
<1>3. NoResult \in Results /\ NoResult.kind = "none" /\ NewParser \in Parsers
  BY NewParserType, ResponseType
<1>4. result \in [RequestNumbers -> Results]
      /\ \A n \in RequestNumbers : result[n].kind = "none" /\ n > 0
  BY <1>1, <1>3 DEF RequestNumbers
<1>5. TypeOK
  BY <1>1, <1>2, <1>3, <1>4 DEF TypeOK
<1>6. Control
  BY <1>1, <1>2, <1>4 DEF Control
<1>7. Writing
  BY <1>1, <1>2 DEF Writing, RestOfRequest, Ends, BegunOnce
<1>8. Reading
  BY <1>1, <1>4 DEF Reading, Returned
<1> QED  BY <1>5, <1>6, <1>7, <1>8 DEF Inv

LEMMA NextInv == Inv /\ [Next]_vars => Inv'
BY TypeStep, WritingStep, ReadingStep DEF Inv

\* The inductive invariant: where the call is, how requests lie on the connections and
\* what of responses is still to come (all of execute_once against any server).
THEOREM Invariance == Spec => []Inv
BY InitInv, NextInv, PTL DEF Spec

\* The variables of execute_once and of the server have their types, and a connection
\* is held exactly while it is used and never also in the slot.
THEOREM TypeCorrect == Spec => []TypeOK
<1>1. Inv => TypeOK
  BY DEF Inv
<1> QED  BY <1>1, Invariance, PTL

\* No request follows on a connection one of which a part was never written, for any
\* number and size of requests (execute_once keeps no connection that failed).
THEOREM RequestsWhole == Spec => []RequestsStayWhole
<1>1. Inv => RequestsStayWhole
  <2> SUFFICES ASSUME Inv, NEW k \in Connections, NEW i \in 2..Len(stream[k])
               PROVE  LET unit == stream[k][i]
                          last == stream[k][i - 1]
                      IN IF unit.kind = "body"
                           THEN unit.req = last.req
                           ELSE Cardinality({j \in DOMAIN stream[k] :
                                  stream[k][j].req = last.req}) = last.size + 1
    BY DEF RequestsStayWhole
  <2>1. stream[k] \in Seq(RequestUnits) /\ InOrder(stream[k])
    BY DEF Inv, TypeOK, Writing, Connections
  <2> QED  BY <2>1, WholeRequests
<1> QED  BY <1>1, Invariance, PTL

\* A response that is delivered has its whole body, except a body without a length
\* whose connection was reset (read_some, finish_eof).
THEOREM DeliveredWholeUnlessReset == Spec => []WholeUnlessReset
<1>1. Inv => WholeUnlessReset
  <2> SUFFICES ASSUME Inv, NEW n \in RequestNumbers, result[n].kind = "response"
               PROVE  \/ Whole(result[n].answer)
                      \/ ~result[n].answer.counted /\ WasReset(n)
    BY DEF WholeUnlessReset
  <2> DEFINE a == result[n].answer
  <2>1. /\ Stored(a, n) /\ a \in Answers
        /\ Len(a.body) = a.size \/ (~a.counted /\ WasReset(n))
    BY DEF Inv, Reading, Returned, TypeOK, Results
  <2>2. ASSUME Len(a.body) = a.size PROVE Whole(a)
    <3> DEFINE b == [i \in 1..a.size |-> a.req]
    <3>1. a.body \in Seq(RequestNumbers) /\ a.size \in Nat
      BY <2>1, BoundAssumption DEF Answers
    <3>2. a.req = n /\ \A i \in 1..Len(a.body) : a.body[i] = n
      BY <2>1 DEF Stored
    <3> HIDE DEF a
    <3>3. b \in Seq(RequestNumbers) /\ Len(b) = a.size /\ \A i \in 1..a.size : b[i] = n
      BY <3>1, <3>2
    <3> HIDE DEF b
    <3>4. a.body = b
      BY <2>2, <3>1, <3>2, <3>3, SeqEqual
    <3> QED  BY <3>4 DEF Whole, b
  <2> QED  BY <2>1, <2>2
<1> QED  BY <1>1, Invariance, PTL

-------------------------------------------------------------------------------
(* The service of module RequestService.                                   *)

\* The places where request n is begun.
Begins(n) ==
  {ki \in UNION {{k} \X DOMAIN stream[k] : k \in Connections} :
    stream[ki[1]][ki[2]].kind = "head" /\ stream[ki[1]][ki[2]].req = n}

BeginsAt(n, k, i) ==
  /\ k \in Connections /\ i \in DOMAIN stream[k]
  /\ stream[k][i].kind = "head" /\ stream[k][i].req = n

LEMMA BeginsAre ==
  ASSUME NEW n
  PROVE  /\ \A k, i : <<k, i>> \in Begins(n) <=> BeginsAt(n, k, i)
         /\ \A x \in Begins(n) : x = <<x[1], x[2]>>
<1>1. ASSUME NEW k \in Connections, NEW i \in DOMAIN stream[k]
      PROVE  <<k, i>> \in UNION {{l} \X DOMAIN stream[l] : l \in Connections}
  <2>1. <<k, i>> \in {k} \X DOMAIN stream[k]
    OBVIOUS
  <2> QED  BY <2>1
<1>2. ASSUME NEW x \in UNION {{l} \X DOMAIN stream[l] : l \in Connections}
      PROVE  x = <<x[1], x[2]>> /\ x[1] \in Connections /\ x[2] \in DOMAIN stream[x[1]]
  OBVIOUS
<1>3. ASSUME NEW k, NEW i PROVE <<k, i>> \in Begins(n) <=> BeginsAt(n, k, i)
  <2>1. <<k, i>>[1] = k /\ <<k, i>>[2] = i
    OBVIOUS
  <2>2. ASSUME <<k, i>> \in Begins(n) PROVE BeginsAt(n, k, i)
    BY <1>2, <2>1, <2>2 DEF Begins, BeginsAt
  <2>3. ASSUME BeginsAt(n, k, i) PROVE <<k, i>> \in Begins(n)
    BY <1>1, <2>1, <2>3 DEF Begins, BeginsAt
  <2> QED  BY <2>2, <2>3
<1>4. \A x \in Begins(n) : x = <<x[1], x[2]>>
  BY <1>2 DEF Begins
<1> QED  BY <1>3, <1>4

\* A request that is begun is sent once, another one never.
SentOnce ==
  \A n : /\ (\A k, i : ~BeginsAt(n, k, i)) => Sent(n) = 0
         /\ \A k, i : BeginsAt(n, k, i) => Sent(n) = 1

LEMMA SentIs == BegunOnce => SentOnce
<1> SUFFICES ASSUME BegunOnce, NEW n
             PROVE  /\ (\A k, i : ~BeginsAt(n, k, i)) => Sent(n) = 0
                    /\ \A k, i : BeginsAt(n, k, i) => Sent(n) = 1
  BY DEF SentOnce
<1>1. Sent(n) = Cardinality(Begins(n))
  BY DEF Sent, Begins
<1>2. ASSUME \A k, i : ~BeginsAt(n, k, i) PROVE Sent(n) = 0
  <2>1. Begins(n) = {}
    BY <1>2, BeginsAre
  <2> QED  BY <1>1, <2>1, FS_EmptySet
<1>3. ASSUME NEW k, NEW i, BeginsAt(n, k, i) PROVE Sent(n) = 1
  <2>1. ASSUME NEW x \in Begins(n) PROVE x = <<k, i>>
    <3>1. x = <<x[1], x[2]>> /\ BeginsAt(n, x[1], x[2])
      BY BeginsAre
    <3>2. x[1] = k /\ x[2] = i
      BY <1>3, <3>1 DEF BegunOnce, BeginsAt
    <3> QED  BY <3>1, <3>2
  <2>2. <<k, i>> \in Begins(n)
    BY <1>3, BeginsAre
  <2>3. Begins(n) = {<<k, i>>}
    BY <2>1, <2>2
  <2> QED  BY <1>1, <2>3, FS_Singleton
<1> QED  BY <1>2, <1>3

\* A request is sent as often as before when it is begun where it was before.
LEMMA SentStays ==
  ASSUME BegunOnce, BegunOnce', NEW n, \A k, i : BeginsAt(n, k, i)' <=> BeginsAt(n, k, i)
  PROVE  Sent(n)' = Sent(n)
<1>1. /\ (\A k, i : ~BeginsAt(n, k, i)) => Sent(n) = 0
      /\ \A k, i : BeginsAt(n, k, i) => Sent(n) = 1
  BY SentIs DEF SentOnce
<1>2. (BegunOnce => SentOnce)'
  BY SentIs, PTL
<1>3. /\ (\A k, i : ~BeginsAt(n, k, i)') => Sent(n)' = 0
      /\ \A k, i : BeginsAt(n, k, i)' => Sent(n)' = 1
  BY <1>2 DEF SentOnce
<1> QED  BY <1>1, <1>3

\* What a call returned, as its caller sees it.
LEMMA OutcomeIs ==
  ASSUME TypeOK, Reading, NEW n \in RequestNumbers
  PROVE  Outcome(n) = IF result[n].kind = "response" THEN "own" ELSE result[n].kind
<1>1. ASSUME result[n].kind = "response"
      PROVE  /\ result[n].answer.req = n
             /\ \A i \in DOMAIN result[n].answer.body : result[n].answer.body[i] = n
  <2>1. result[n].answer.body \in Seq(RequestNumbers)
    BY DEF TypeOK, Results, Answers
  <2>2. Stored(result[n].answer, n)
    BY <1>1 DEF Reading, Returned
  <2> QED  BY <2>1, <2>2 DEF Stored
<1> QED  BY <1>1 DEF Outcome

\* Where a request is begun does not change when nothing is written.
LEMMA BeginsStays ==
  ASSUME TypeOK,
         \/ UNCHANGED stream /\ Connections' = Connections
         \/ Connect,
         NEW n
  PROVE  \A k, i : BeginsAt(n, k, i)' <=> BeginsAt(n, k, i)
<1>1. CASE UNCHANGED stream /\ Connections' = Connections
  BY <1>1 DEF BeginsAt
<1>2. CASE Connect
  <2>1. net \in Seq(Network) /\ stream \in Seq(Seq(RequestUnits)) /\ Len(stream) = Len(net)
        /\ Len(net) \in Nat
    BY DEF TypeOK
  <2>2. net' = Append(net, NewConnection) /\ stream' = Append(stream, <<>>)
    BY <1>2 DEF Connect
  <2>3. /\ Len(net') = Len(net) + 1 /\ stream'[Len(net) + 1] = <<>>
        /\ \A k \in 1..Len(net) : stream'[k] = stream[k]
    BY <2>1, <2>2
  <2>4. DOMAIN stream'[Len(net) + 1] = {}
    BY <2>3
  <2>5. \A k : k \in Connections' <=> k \in Connections \/ k = Len(net) + 1
    BY <2>1, <2>3 DEF Connections
  <2>6. \A k \in Connections : stream'[k] = stream[k] /\ k # Len(net) + 1
    BY <2>1, <2>3 DEF Connections
  <2> QED  BY <2>4, <2>5, <2>6 DEF BeginsAt
<1> QED  BY <1>1, <1>2

\* The sends and the outcomes that the service sees.
SentNow    == [n \in RequestNumbers |-> Sent(n)]
OutcomeNow == [n \in RequestNumbers |-> Outcome(n)]

\* The invariant gives, for the state after a step too, how often a request was sent
\* and what came of it.
Seen ==
  /\ SentOnce
  /\ \A n \in RequestNumbers :
       Outcome(n) = IF result[n].kind = "response" THEN "own" ELSE result[n].kind

LEMMA InvSeen == Inv => Seen
BY SentIs, OutcomeIs DEF Inv, Writing, Seen

LEMMA SentUnlessBegun ==
  ASSUME Inv, Inv', NEW n, \A k, i : BeginsAt(n, k, i)' <=> BeginsAt(n, k, i)
  PROVE  Sent(n)' = Sent(n)
BY SentStays DEF Inv, Writing

LEMMA OutcomeStays ==
  ASSUME Inv, Seen, Seen', NEW n \in RequestNumbers, result'[n] = result[n]
  PROVE  Outcome(n)' = Outcome(n)
BY DEF Seen

\* Where nothing is written and no call returns, the service sees nothing.
LEMMA ServiceStutters ==
  ASSUME Inv, Inv', Seen, Seen', UNCHANGED result,
         \A n, k, i : BeginsAt(n, k, i)' <=> BeginsAt(n, k, i)
  PROVE  SentNow' = SentNow /\ OutcomeNow' = OutcomeNow
<1>1. \A n \in RequestNumbers : Sent(n)' = Sent(n)
  BY SentUnlessBegun
<1>2. \A n \in RequestNumbers : Outcome(n)' = Outcome(n)
  BY OutcomeStays
<1> QED  BY <1>1, <1>2 DEF SentNow, OutcomeNow

\* The call under way is the one of the current request.
LEMMA CurrentIs ==
  ASSUME Inv, Seen, pc # "idle"
  PROVE  /\ request \in RequestNumbers /\ OutcomeNow[request] = "none"
         /\ \A m \in RequestNumbers : m < request => OutcomeNow[m] # "none"
<1>1. request \in RequestNumbers
  BY DEF Inv, TypeOK, Control
<1>2. \A n \in RequestNumbers :
        /\ OutcomeNow[n] = IF result[n].kind = "response" THEN "own" ELSE result[n].kind
        /\ result[n].kind = "none" <=> n > request \/ (n = request /\ pc # "idle")
        /\ n \in Int
  BY BoundAssumption DEF Seen, OutcomeNow, Inv, Control, RequestNumbers
<1>3. \A m \in RequestNumbers : m < request => ~(m > request) /\ m # request
  BY <1>1, <1>2
<1> QED  BY <1>1, <1>2, <1>3

\* A call that returns fails, or answers a request that was sent.
LEMMA ServiceReturns ==
  ASSUME Inv, Inv', Seen, Seen', pc # "idle", UNCHANGED <<stream, request>>,
         Connections' = Connections, NEW r \in Results,
         result' = [result EXCEPT ![request] = r],
         \/ r.kind = "error"
         \/ r.kind = "response" /\ \E k, i : BeginsAt(request, k, i)
  PROVE  Service!Next
<1> DEFINE outcome == IF r.kind = "error" THEN "error" ELSE "own"
<1>1. PICK c \in RequestNumbers : c = request
  BY CurrentIs
<1>2. Service!Current(c)
  BY <1>1, CurrentIs DEF Service!Current, OutcomeNow
<1>3. SentNow' = SentNow
  <2>1. \A n \in RequestNumbers : Sent(n)' = Sent(n)
    BY SentUnlessBegun, BeginsStays DEF Inv
  <2> QED  BY <2>1 DEF SentNow
<1>4. OutcomeNow' = [OutcomeNow EXCEPT ![c] = outcome]
  <2>1. result \in [RequestNumbers -> Results]
    BY DEF Inv, TypeOK
  <2>2. result'[c] = r /\ \A n \in RequestNumbers : n # c => result'[n] = result[n]
    BY <1>1, <2>1
  <2>3. Outcome(c)' = outcome
    BY <2>2 DEF Seen
  <2>4. \A n \in RequestNumbers : n # c => Outcome(n)' = Outcome(n)
    BY <2>2, OutcomeStays
  <2> QED  BY <2>3, <2>4 DEF OutcomeNow
<1>5. CASE r.kind = "error"
  <2>1. Service!Fail(c)
    BY <1>2, <1>3, <1>4, <1>5 DEF Service!Fail, SentNow, OutcomeNow
  <2> QED  BY <2>1 DEF Service!Next
<1>6. CASE r.kind = "response" /\ \E k, i : BeginsAt(request, k, i)
  <2>1. Sent(c) = 1
    BY <1>1, <1>6 DEF Seen, SentOnce
  <2>2. SentNow[c] = 1
    BY <2>1 DEF SentNow
  <2>3. Service!Answer(c)
    BY <1>2, <1>3, <1>4, <1>6, <2>2 DEF Service!Answer, SentNow, OutcomeNow
  <2> QED  BY <2>3 DEF Service!Next
<1> QED  BY <1>5, <1>6

\* A request whose response is returned was sent.
LEMMA DeliveredWasSent ==
  ASSUME Inv, pc \in {"read", "decide"}
  PROVE  \E k, i : BeginsAt(request, k, i)
<1> DEFINE s == stream[conn]
           e == Len(s)
           first == e - s[e].size + 0
<1>1. conn # 0 /\ conn \in Connections /\ unsent = <<>> /\ s \in Seq(RequestUnits)
  BY DEF Inv, TypeOK, Control, Connections
<1>2. ~NothingSent /\ Len(unsent) = 0
  BY <1>1 DEF NothingSent
<1>3. s # <<>> /\ s[e].req = request /\ EndsWithin(s, e, 0)
  BY <1>1, <1>2 DEF Inv, Writing, Ends
<1>4. first \in 1..e /\ s[first].kind = "head" /\ s[first].req = s[e].req
  <2>1. /\ first \in 1..e /\ s[first].kind = "head"
        /\ \A j \in 1..e : s[j].req = s[e].req <=> j >= first
    BY <1>3 DEF EndsWithin
  <2>2. first >= first
    BY <1>1, <2>1
  <2> HIDE DEF first
  <2> QED  BY <2>1, <2>2
<1> HIDE DEF first, e
<1>5. first \in DOMAIN s
  BY <1>1, <1>4 DEF e
<1>6. BeginsAt(request, conn, first)
  BY <1>1, <1>3, <1>4, <1>5 DEF BeginsAt
<1> QED  BY <1>6

\* Writing the head of a request is sending it, writing its body is not seen.
LEMMA ServiceWrites ==
  ASSUME Inv, Inv', Seen, Seen', Write
  PROVE  Service!Next \/ (SentNow' = SentNow /\ OutcomeNow' = OutcomeNow)
<1> DEFINE s == stream[conn]
           u == unsent[1]
<1>1. /\ conn \in Connections /\ Connections' = Connections /\ unsent # <<>>
      /\ u \in RequestUnits /\ pc = "write" /\ UNCHANGED <<request, conn, result>>
  BY Written DEF Inv, Write
<1>2. /\ s \in Seq(RequestUnits) /\ stream'[conn] = Append(s, u)
      /\ Len(stream'[conn]) = Len(s) + 1 /\ stream'[conn][Len(s) + 1] = u
      /\ \A i \in 1..Len(s) : stream'[conn][i] = s[i]
      /\ \A k \in Connections : k # conn => stream'[k] = stream[k]
  BY StreamAfterWrite DEF Inv
<1>3. /\ DOMAIN s = 1..Len(s) /\ Len(s) \in Nat /\ DOMAIN stream'[conn] = 1..Len(s) + 1
  <2>1. Append(s, u) \in Seq(RequestUnits)
    BY <1>1, <1>2
  <2> QED  BY <1>2, <2>1
<1>4. u.req = request
  <2>1. 1 \in 1..Len(unsent)
    BY <1>1 DEF Inv, TypeOK
  <2> QED  BY <1>1, <2>1 DEF Inv, Writing, RestOfRequest
<1> HIDE DEF s, u
<1>5. ASSUME NEW n, NEW k, NEW i
      PROVE  BeginsAt(n, k, i)' <=>
               \/ BeginsAt(n, k, i)
               \/ k = conn /\ i = Len(s) + 1 /\ u.kind = "head" /\ u.req = n
  <2>1. CASE k # conn
    BY <1>1, <1>2, <2>1 DEF BeginsAt
  <2>2. CASE k = conn
    <3>1. i \in DOMAIN stream'[conn] <=> i \in DOMAIN s \/ i = Len(s) + 1
      BY <1>3
    <3>2. i \in DOMAIN s => i # Len(s) + 1 /\ stream'[conn][i] = s[i]
      BY <1>2, <1>3
    <3> QED  BY <1>1, <1>2, <2>2, <3>1, <3>2 DEF BeginsAt, s
  <2> QED  BY <2>1, <2>2
<1>6. CASE u.kind # "head"
  <2>1. \A n, k, i : BeginsAt(n, k, i)' <=> BeginsAt(n, k, i)
    BY <1>5, <1>6
  <2> QED  BY <1>1, <2>1, ServiceStutters
<1>7. CASE u.kind = "head"
  <2>1. PICK c \in RequestNumbers : c = request
    BY <1>1, CurrentIs
  <2>2. Service!Current(c)
    BY <1>1, <2>1, CurrentIs DEF Service!Current, OutcomeNow
  <2>3. Sent(c) = 0
    <3>1. NothingSent
      BY <1>1, <1>7 DEF NothingSent, u
    <3>2. \A k \in Connections : \A i \in 1..Len(stream[k]) :
            stream[k][i].req < request /\ stream[k][i].req \in Nat
      BY <3>1, UnitTypes DEF Inv, Writing, UpToNow, TypeOK, Connections
    <3>3. request \in Nat /\ \A k \in Connections : DOMAIN stream[k] = 1..Len(stream[k])
      BY <2>1, BoundAssumption DEF Inv, TypeOK, Connections, RequestNumbers
    <3>4. \A k, i : ~BeginsAt(c, k, i)
      BY <2>1, <3>2, <3>3 DEF BeginsAt
    <3> QED  BY <3>4 DEF Seen, SentOnce
  <2>4. Sent(c)' = 1
    <3>1. PICK k, i : k = conn /\ i = Len(s) + 1
      OBVIOUS
    <3>2. BeginsAt(c, k, i)'
      BY <1>4, <1>5, <1>7, <2>1, <3>1
    <3> QED  BY <3>2 DEF Seen, SentOnce
  <2>5. \A n \in RequestNumbers : n # c => Sent(n)' = Sent(n)
    <3> TAKE n \in RequestNumbers
    <3>1. n # c => \A k, i : BeginsAt(n, k, i)' <=> BeginsAt(n, k, i)
      BY <1>4, <1>5, <2>1
    <3> QED  BY <3>1, SentUnlessBegun
  <2>6. SentNow' = [SentNow EXCEPT ![c] = 1] /\ SentNow[c] = 0
    BY <2>3, <2>4, <2>5 DEF SentNow
  <2>7. OutcomeNow' = OutcomeNow
    <3>1. \A n \in RequestNumbers : Outcome(n)' = Outcome(n)
      BY <1>1, OutcomeStays
    <3> QED  BY <3>1 DEF OutcomeNow
  <2>8. Service!Send(c)
    BY <2>2, <2>6, <2>7 DEF Service!Send, SentNow, OutcomeNow
  <2> QED  BY <2>8 DEF Service!Next
<1> QED  BY <1>6, <1>7

\* Every step is a step of the service or nothing to it.
LEMMA ServiceStep ==
  ASSUME Inv, Inv', Seen, Seen', [Next]_vars
  PROVE  Service!Next \/ (SentNow' = SentNow /\ OutcomeNow' = OutcomeNow)
<1>1. TypeOK /\ Control /\ parser \in Parsers /\ parser.answer \in Answers
  BY DEF Inv, TypeOK, Parsers
<1>2. ASSUME UNCHANGED <<stream, result>>, Connections' = Connections
      PROVE  SentNow' = SentNow /\ OutcomeNow' = OutcomeNow
  BY <1>1, <1>2, BeginsStays, ServiceStutters
<1>3. /\ Error \in Results /\ Error.kind = "error"
      /\ Response(parser.answer) \in Results /\ Response(parser.answer).kind = "response"
  BY <1>1, ResponseType
<1>4. ASSUME NEW size \in 0..MaxUnits, Begin(size)
      PROVE  SentNow' = SentNow /\ OutcomeNow' = OutcomeNow
  BY <1>2, <1>4 DEF Begin, Connections
<1>5. CASE Adopt \/ UNCHANGED vars
  BY <1>2, <1>5 DEF Adopt, vars, Connections
<1>6. CASE Connect
  <2>1. \A n, k, i : BeginsAt(n, k, i)' <=> BeginsAt(n, k, i)
    BY <1>1, <1>6, BeginsStays
  <2> QED  BY <1>6, <2>1, ServiceStutters DEF Connect
<1>7. CASE ConnectFails
  <2>1. /\ pc # "idle" /\ UNCHANGED <<stream, request>> /\ Connections' = Connections
        /\ result' = [result EXCEPT ![request] = Error]
    BY <1>7 DEF ConnectFails, Return, Connections
  <2> QED  BY <1>3, <2>1, ServiceReturns
<1>8. CASE Write
  BY <1>8, ServiceWrites
<1>9. CASE Retain
  <2>1. /\ pc = "decide" /\ UNCHANGED <<stream, request>> /\ Connections' = Connections
        /\ result' = [result EXCEPT ![request] = Response(parser.answer)]
    BY <1>9 DEF Retain, Return, Connections
  <2>2. \E k, i : BeginsAt(request, k, i)
    BY <2>1, DeliveredWasSent
  <2> QED  BY <1>3, <2>1, <2>2, ServiceReturns
<1>10. CASE pc \in {"write", "read", "decide"} /\ GivesUp(Error)
  <2>1. /\ Connections' = Connections /\ UNCHANGED <<stream, request>>
        /\ result' = [result EXCEPT ![request] = Error]
    BY <1>1, <1>3, <1>10, GivingUp
  <2> QED  BY <1>3, <1>10, <2>1, ServiceReturns
<1>11. CASE Delivers /\ GivesUp(Response(parser.answer))
  <2>1. /\ Connections' = Connections /\ UNCHANGED <<stream, request>>
        /\ result' = [result EXCEPT ![request] = Response(parser.answer)]
    BY <1>1, <1>3, <1>11, GivingUp
  <2>2. pc \in {"read", "decide"}
    BY <1>11 DEF Delivers
  <2>3. \E k, i : BeginsAt(request, k, i)
    BY <2>2, DeliveredWasSent
  <2> QED  BY <1>3, <2>1, <2>2, <2>3, ServiceReturns
<1>12. ASSUME NEW m \in 1..Len(Readable(conn)), Takes(m)
       PROVE  SentNow' = SentNow /\ OutcomeNow' = OutcomeNow
  <2>1. Connections' = Connections
    BY <1>1, <1>12, Taken
  <2> QED  BY <1>2, <1>12, <2>1 DEF Takes
<1>13. ASSUME NEW k \in Connections, Server(k)
       PROVE  SentNow' = SentNow /\ OutcomeNow' = OutcomeNow
  <2>1. FinIsLast(net[k])
    BY <1>1 DEF Control
  <2>2. Len(net') = Len(net) /\ UNCHANGED <<stream, result>>
    BY <1>1, <1>13, <2>1, Serving
  <2> QED  BY <1>2, <2>2 DEF Connections
<1> QED  BY <1>1, <1>4, <1>5, <1>6, <1>7, <1>8, <1>9, <1>10, <1>11, <1>12, <1>13, Steps

LEMMA ServiceInit ==
  ASSUME Init, Inv, Seen
  PROVE  Service!Init
<1>1. Connections = {} /\ \A n \in RequestNumbers : result[n].kind = "none"
  BY DEF Init, Connections, NoResult
<1>2. \A n \in RequestNumbers : Sent(n) = 0
  BY <1>1 DEF Seen, SentOnce, BeginsAt
<1>3. \A n \in RequestNumbers : Outcome(n) = "none"
  BY <1>1 DEF Seen
<1> QED  BY <1>2, <1>3 DEF Service!Init

\* execute_once gives the service of RequestService, for any number of requests and
\* whatever the server does: a request is sent at most once, and what is returned is an
\* error or its own response.
THEOREM Refinement == Spec => ImplementsService
<1>1. Init => Service!Init
  BY InitInv, InvSeen, ServiceInit
<1>2. Inv /\ Inv' /\ [Next]_vars => Service!Next \/ (SentNow' = SentNow /\ OutcomeNow' = OutcomeNow)
  <2>1. Inv /\ Inv' => Seen /\ Seen'
    <3>1. (Inv => Seen)'
      BY InvSeen, PTL
    <3> QED  BY <3>1, InvSeen
  <2> QED  BY <2>1, ServiceStep
<1>3. Inv /\ Inv' /\ [Next]_vars
        => [Service!Next]_<<[n \in RequestNumbers |-> Sent(n)],
                            [n \in RequestNumbers |-> Outcome(n)]>>
  BY <1>2 DEF SentNow, OutcomeNow
<1> QED  BY <1>1, <1>3, Invariance, PTL DEF Spec, ImplementsService, Service!Spec
===============================================================================
