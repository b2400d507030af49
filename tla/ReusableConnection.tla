-------------------------- MODULE ReusableConnection --------------------------
(***************************************************************************)
(* The connection a Client keeps between requests, and the descriptor      *)
(* ownership of Client::execute_once (src/src/core/client.cpp).            *)
(*                                                                         *)
(* A Client has one slot: a raw descriptor token with the host and port it *)
(* is connected to.  execute_once either takes the token out of the slot   *)
(* or opens a socket, runs one exchange with the descriptor owned by a     *)
(* local TcpConnection, and puts the token back when the connection may be *)
(* reused.  Clients are moved, assigned and destroyed between requests.    *)
(* Several clients, each used by one thread, and the rest of the program   *)
(* share the descriptor numbers of the process: a number that was closed   *)
(* is handed out again at once, so closing one twice closes the descriptor *)
(* of somebody else.                                                       *)
(*                                                                         *)
(* Bytes, deadlines and parsing are left to the other modules: a step of   *)
(* the network is any outcome TcpConnection or ResponseParser may report.  *)
(***************************************************************************)
EXTENDS Integers

CONSTANTS Clients,   \* the Client objects of the program
          Handles,   \* the native descriptor numbers of the process
          Hosts,     \* host names, after ASCII case folding
          Ports,     \* TCP ports
          NoHandle,  \* NativeSocket's invalid handle (INVALID_SOCKET, -1)
          NoHost     \* the empty std::string

ASSUME HandleAssumption == NoHandle \notin Handles
ASSUME OriginAssumption == /\ NoHost \notin Hosts
                           /\ Ports \subseteq Nat \ {0}
                           /\ 0 \in Handles

VARIABLES
  fd,     \* fd[h]: what the kernel knows of descriptor h
  alive,  \* alive[c]: the object is constructed and not yet destroyed
  slot,   \* slot[c]: the members reusable_* and has_reusable_connection_
  call    \* call[c]: the locals of execute_once, NoCall between requests

vars == <<fd, alive, slot, call>>

Origins  == [host: Hosts, port: Ports]
NoOrigin == [host |-> NoHost, port |-> 0]

\* A descriptor: free, a socket of the library, or a descriptor of the rest of
\* the program; of a socket, the origin it was connected to and where peer and
\* client are in their exchange.
Descriptors == [use: {"closed", "socket", "foreign"},
                peer: Origins \cup {NoOrigin},
                wire: {"idle", "busy", "surplus", "ended"}]
ClosedFd  == [use |-> "closed", peer |-> NoOrigin, wire |-> "idle"]
ForeignFd == [use |-> "foreign", peer |-> NoOrigin, wire |-> "idle"]

Slots     == [has: BOOLEAN, token: Handles,
              host: Hosts \cup {NoHost}, port: Ports \cup {0}]
\* The default member initialisers, and what close_reusable_connection leaves.
EmptySlot == [has |-> FALSE, token |-> 0, host |-> NoHost, port |-> 0]

\* A request as this module needs it: where it goes, whether it has a body and
\* whether one of its Connection fields names "close".
Requests  == [origin: Origins, body: BOOLEAN, close: BOOLEAN]
NoRequest == [origin |-> NoOrigin, body |-> FALSE, close |-> FALSE]

\* What ResponseParser says once complete: connection_reusable() and whether
\* pending_bytes() is not empty.
Replies == [keep: BOOLEAN, pending: BOOLEAN]
NoReply == [keep |-> FALSE, pending |-> FALSE]

PCs == {"idle", "acquire", "resolve", "connect", "connecting",
        "head", "body", "read", "decide", "unwind"}

\* conn is the handle the local TcpConnection owns.
Calls  == [pc: PCs, conn: Handles \cup {NoHandle},
           req: Requests \cup {NoRequest}, reply: Replies]
NoCall == [pc |-> "idle", conn |-> NoHandle, req |-> NoRequest, reply |-> NoReply]

\* The places where the local TcpConnection owns a connected descriptor.
ExchangePCs == {"head", "body", "read"}

TypeOK ==
  /\ fd    \in [Handles -> Descriptors]
  /\ alive \in [Clients -> BOOLEAN]
  /\ slot  \in [Clients -> Slots]
  /\ call  \in [Clients -> Calls]

Init ==
  /\ fd    = [h \in Handles |-> ClosedFd]
  /\ alive = [c \in Clients |-> FALSE]
  /\ slot  = [c \in Clients |-> EmptySlot]
  /\ call  = [c \in Clients |-> NoCall]

-------------------------------------------------------------------------------
(* Descriptors.                                                            *)

\* NativeSocket::close: an invalid handle is not closed, a valid one is handed
\* to the kernel, which frees the number.
Closed(h) == IF h = NoHandle THEN fd ELSE [fd EXCEPT ![h] = ClosedFd]

\* close_reusable_connection closes the token only when the flag says it is one.
SlotClosed(c) == IF slot[c].has THEN Closed(slot[c].token) ELSE fd

\* The rest of the program opens and closes descriptors of its own.
ForeignOpen(h) ==
  /\ fd[h] = ClosedFd
  /\ fd' = [fd EXCEPT ![h] = ForeignFd]
  /\ UNCHANGED <<alive, slot, call>>

ForeignClose(h) ==
  /\ fd[h] = ForeignFd
  /\ fd' = [fd EXCEPT ![h] = ClosedFd]
  /\ UNCHANGED <<alive, slot, call>>

-------------------------------------------------------------------------------
(* Lifetime of Client objects.  README.md: one Client is used by one       *)
(* thread at a time, so it is not moved or destroyed during its request.   *)

Quiet(c) == alive[c] /\ call[c].pc = "idle"

Construct(c) ==
  /\ ~alive[c]
  /\ alive' = [alive EXCEPT ![c] = TRUE]
  /\ slot'  = [slot EXCEPT ![c] = EmptySlot]
  /\ UNCHANGED <<fd, call>>

\* ~Client
Destroy(c) ==
  /\ Quiet(c)
  /\ fd'    = SlotClosed(c)
  /\ slot'  = [slot EXCEPT ![c] = EmptySlot]
  /\ alive' = [alive EXCEPT ![c] = FALSE]
  /\ UNCHANGED call

\* A std::string that was moved from is valid but unspecified.
MovedFromHosts(c) == {NoHost, slot[c].host}

\* Fault: the flag and token are copied, not exchanged.
SlotCopied(d, s, left) == [slot EXCEPT ![d] = slot[s]]

\* std::exchange of token, flag and port; std::move of the host.
SlotMoved(d, s, left) ==
  [slot EXCEPT ![d] = slot[s],
               ![s] = [EmptySlot EXCEPT !.host = left]]

\* Client(Client&&)
MoveConstruct(d, s) ==
  /\ d # s /\ ~alive[d] /\ Quiet(s)
  /\ alive' = [alive EXCEPT ![d] = TRUE]
  /\ \E left \in MovedFromHosts(s) : slot' = SlotMoved(d, s, left)
  /\ UNCHANGED <<fd, call>>

\* Fault: operator= overwrites the token it holds without closing it.
MoveAssignOverwrites(d, s) ==
  /\ d # s /\ Quiet(d) /\ Quiet(s)
  /\ \E left \in MovedFromHosts(s) : slot' = SlotMoved(d, s, left)
  /\ UNCHANGED <<fd, alive, call>>

\* operator=(Client&&); assigning a client to itself changes nothing.
MoveAssign(d, s) ==
  /\ d # s /\ Quiet(d) /\ Quiet(s)
  /\ fd' = SlotClosed(d)
  /\ \E left \in MovedFromHosts(s) : slot' = SlotMoved(d, s, left)
  /\ UNCHANGED <<alive, call>>

-------------------------------------------------------------------------------
(* execute_once.                                                           *)

At(c, where)   == call[c].pc = where
Goto(c, where) == call' = [call EXCEPT ![c].pc = where]
GotoWith(c, where, h) == call' = [call EXCEPT ![c].pc = where, ![c].conn = h]
Return(c)      == call' = [call EXCEPT ![c] = NoCall]

\* The request serialised.  When it does not, execute_once returns before it
\* touches anything.
Begin(c, r) ==
  /\ Quiet(c)
  /\ call' = [call EXCEPT ![c] = [NoCall EXCEPT !.pc = "acquire", !.req = r]]
  /\ UNCHANGED <<fd, alive, slot>>

\* Fault: the port is forgotten.
SameHost(s, o) == s.host = o.host

SameOrigin(s, o) == s.port = o.port /\ s.host = o.host

ReuseExisting(c) == slot[c].has /\ SameOrigin(slot[c], call[c].req.origin)

\* Fault: the slot keeps the token it has lent out.
AdoptKeepsSlot(c) ==
  /\ At(c, "acquire") /\ ReuseExisting(c)
  /\ GotoWith(c, "head", slot[c].token)
  /\ UNCHANGED <<fd, alive, slot>>

\* The slot is emptied before the first write, so that no error path can find
\* the token there again.
Adopt(c) ==
  /\ At(c, "acquire") /\ ReuseExisting(c)
  /\ GotoWith(c, "head", slot[c].token)
  /\ slot' = [slot EXCEPT ![c] = EmptySlot]
  /\ UNCHANGED <<fd, alive>>

\* Fault: the descriptor is closed and the flag left set.
CloseKeepsFlag(c) ==
  /\ At(c, "acquire") /\ ~ReuseExisting(c)
  /\ fd' = SlotClosed(c)
  /\ Goto(c, "resolve")
  /\ UNCHANGED <<alive, slot>>

CloseReusable(c) ==
  /\ At(c, "acquire") /\ ~ReuseExisting(c)
  /\ fd'   = SlotClosed(c)
  /\ slot' = [slot EXCEPT ![c] = EmptySlot]
  /\ Goto(c, "resolve")
  /\ UNCHANGED alive

\* Resolver::resolve returns endpoints, or an error that execute_once returns.
Resolve(c) ==
  /\ At(c, "resolve")
  /\ Goto(c, "connect") \/ Return(c)
  /\ UNCHANGED <<fd, alive, slot>>

\* TcpConnection::connect tries the endpoints in order, one socket at a time.
OpenSocket(c, h) ==
  /\ At(c, "connect")
  /\ fd[h] = ClosedFd
  /\ fd' = [fd EXCEPT ![h] = [use |-> "socket", peer |-> call[c].req.origin,
                              wire |-> "idle"]]
  /\ GotoWith(c, "connecting", h)
  /\ UNCHANGED <<alive, slot>>

\* No endpoint is left, none was valid, none got a socket, or the deadline
\* has passed before the next attempt.
ConnectGivesUp(c) ==
  /\ At(c, "connect")
  /\ Return(c)
  /\ UNCHANGED <<fd, alive, slot>>

ConnectSucceeds(c) ==
  /\ At(c, "connecting")
  /\ Goto(c, "head")
  /\ UNCHANGED <<fd, alive, slot>>

\* The socket of the attempt is a local of the loop body, closed at its end;
\* a failure goes on with the next endpoint, a timeout returns.
ConnectAttemptFails(c) ==
  /\ At(c, "connecting")
  /\ fd' = Closed(call[c].conn)
  /\ GotoWith(c, "connect", NoHandle) \/ Return(c)
  /\ UNCHANGED <<alive, slot>>

WriteHead(c) ==
  /\ At(c, "head")
  /\ fd' = [fd EXCEPT ![call[c].conn].wire = "busy"]
  /\ Goto(c, IF call[c].req.body THEN "body" ELSE "read")
  /\ UNCHANGED <<alive, slot>>

WriteBody(c) ==
  /\ At(c, "body")
  /\ Goto(c, "read")
  /\ UNCHANGED <<fd, alive, slot>>

\* write_all and read_some close the socket themselves before they report a
\* timeout, a failure or the end of the stream.
IoFails(c) ==
  /\ call[c].pc \in ExchangePCs
  /\ fd' = Closed(call[c].conn)
  /\ GotoWith(c, "unwind", NoHandle)
  /\ UNCHANGED <<alive, slot>>

\* ResponseParser rejects the bytes, or an allocation throws: the socket is
\* still open when the scope is left.
ParseFails(c) ==
  /\ At(c, "read")
  /\ Goto(c, "unwind")
  /\ UNCHANGED <<fd, alive, slot>>

\* What a complete response leaves on the connection: bytes after the message,
\* or a peer that ends it, or a connection ready for the next request.
WireAfter(r, close) ==
  IF r.pending THEN "surplus"
  ELSE IF r.keep /\ ~close THEN "idle" ELSE "ended"

\* feed reported completion.  Feeds that do not complete change nothing here.
ReadCompletes(c, r) ==
  /\ At(c, "read")
  /\ fd' = [fd EXCEPT ![call[c].conn].wire = WireAfter(r, call[c].req.close)]
  /\ call' = [call EXCEPT ![c].pc = "decide", ![c].reply = r]
  /\ UNCHANGED <<alive, slot>>

\* The stream ended (read_some closed the socket) and finish_eof completed a
\* close-delimited response.
EofCompletes(c) ==
  /\ At(c, "read")
  /\ fd' = Closed(call[c].conn)
  /\ GotoWith(c, "decide", NoHandle)
  /\ UNCHANGED <<alive, slot>>

\* Fault: pending_bytes is not consulted.
ReusableWithSurplus(k) == k.conn # NoHandle /\ k.reply.keep /\ ~k.req.close

Reusable(k) ==
  /\ k.conn # NoHandle
  /\ k.reply.keep
  /\ ~k.reply.pending
  /\ ~k.req.close

\* The handle is released into the slot.  std::string::assign may throw after
\* the flag is set: it has no effect then and the port is not assigned either.
Retain(c) ==
  /\ At(c, "decide") /\ Reusable(call[c])
  /\ \E o \in {call[c].req.origin, NoOrigin} :
        slot' = [slot EXCEPT ![c] = [has |-> TRUE, token |-> call[c].conn,
                                     host |-> o.host, port |-> o.port]]
  /\ Return(c)
  /\ UNCHANGED <<fd, alive>>

\* The local TcpConnection is destroyed at the return, of a response whose
\* connection may not be kept or of an error.
Discard(c) ==
  /\ At(c, "unwind") \/ (At(c, "decide") /\ ~Reusable(call[c]))
  /\ fd' = Closed(call[c].conn)
  /\ Return(c)
  /\ UNCHANGED <<alive, slot>>

-------------------------------------------------------------------------------
Acquire(c) ==
  \/ \E r \in Requests : Begin(c, r)
  \/ Adopt(c) \/ CloseReusable(c) \/ Resolve(c)
  \/ \E h \in Handles : OpenSocket(c, h)
  \/ ConnectGivesUp(c) \/ ConnectSucceeds(c) \/ ConnectAttemptFails(c)

Exchange(c) ==
  \/ WriteHead(c) \/ WriteBody(c) \/ IoFails(c) \/ ParseFails(c)
  \/ \E r \in Replies : ReadCompletes(c, r)
  \/ EofCompletes(c) \/ Retain(c) \/ Discard(c)

Lifetime(c) ==
  \/ Construct(c) \/ Destroy(c)
  \/ \E s \in Clients : MoveConstruct(c, s) \/ MoveAssign(c, s)

Foreign == \E h \in Handles : ForeignOpen(h) \/ ForeignClose(h)

Next == (\E c \in Clients : Acquire(c) \/ Exchange(c) \/ Lifetime(c)) \/ Foreign

Spec == Init /\ [][Next]_vars

-------------------------------------------------------------------------------
(* Properties.                                                             *)

\* The two places of client c that can own descriptor h.
SlotOwns(c, h) == slot[c].has /\ slot[c].token = h
CallOwns(c, h) == call[c].conn = h
Owns(c, h)     == SlotOwns(c, h) \/ CallOwns(c, h)

\* A raw token in a slot or a NativeSocket always denotes an open socket of the
\* library (nothing dangles), and no descriptor has two owners, so that nobody
\* closes a number that already means something else (client.cpp:311-317,
\* 165-208, 394-398).
SoleOwner ==
  \A h \in Handles : \A c \in Clients : Owns(c, h) =>
    /\ fd[h].use = "socket"
    /\ ~(SlotOwns(c, h) /\ CallOwns(c, h))
    /\ \A d \in Clients : Owns(d, h) => d = c

\* No descriptor is leaked: a socket the library opened is owned by a live
\* client's slot or by its call in progress, on every error path too.
NoLeak ==
  \A h \in Handles : fd[h].use = "socket" =>
    \E c \in Clients : alive[c] /\ Owns(c, h)

\* While a call owns a connection the client's slot is empty: a client never
\* holds two descriptors, even when it connects to another origin.
OneDescriptorPerClient ==
  \A c \in Clients : call[c].conn # NoHandle => ~slot[c].has

\* The request goes to the origin it names: the connection used, new or taken
\* from the slot, was opened to that host and port (client.cpp:304-309).
RightPeer ==
  \A c \in Clients :
    call[c].pc \in ExchangePCs => fd[call[c].conn].peer = call[c].req.origin

\* The first byte of a request is never written on a connection on which an
\* earlier exchange is unfinished, left surplus bytes or was announced as the
\* last one (client.cpp:387-390).
CleanBeforeWrite ==
  \A c \in Clients : At(c, "head") => fd[call[c].conn].wire = "idle"

\* A descriptor of the rest of the program is closed by nobody else, however
\* its number was used before.
ForeignUntouched ==
  [][\A h \in Handles : fd[h] = ForeignFd /\ fd'[h] # ForeignFd => ForeignClose(h)]_vars

\* What a client holds after a call is the connection this call has just used
\* and found reusable, or nothing: whatever was kept before is used, closed or
\* given up, and no error leaves a connection behind (client.cpp:311-319, 339-399).
KeepsOnlyItsOwn ==
  [][\A c \in Clients :
        call[c].pc # "idle" /\ call'[c].pc = "idle" /\ slot'[c].has
          => Reusable(call[c]) /\ slot'[c].token = call[c].conn]_vars
===============================================================================
