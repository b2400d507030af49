----------------------- MODULE ReusableConnectionProofs -----------------------
(***************************************************************************)
(* Proofs about ReusableConnection, for any sets of clients, descriptor    *)
(* numbers, hosts and ports.                                               *)
(***************************************************************************)
EXTENDS ReusableConnection, TLAPS

(***************************************************************************)
(* Type correctness.                                                       *)
(***************************************************************************)

\* NativeSocket::close keeps the descriptor table a table of descriptors.
LEMMA ClosedTyped ==
  ASSUME TypeOK, NEW h \in Handles \cup {NoHandle}
  PROVE  Closed(h) \in [Handles -> Descriptors]
<1>1. ClosedFd \in Descriptors
  BY DEF ClosedFd, Descriptors, NoOrigin
<1> QED  BY <1>1 DEF Closed, TypeOK

\* close_reusable_connection does too.
LEMMA SlotClosedTyped ==
  ASSUME TypeOK, NEW c \in Clients
  PROVE  SlotClosed(c) \in [Handles -> Descriptors]
<1>1. slot[c].token \in Handles
  BY DEF TypeOK, Slots
<1> QED  BY <1>1, ClosedTyped DEF SlotClosed, TypeOK

\* The empty slot and the absent call are values of their types.
LEMMA DefaultsTyped == EmptySlot \in Slots /\ NoCall \in Calls
BY OriginAssumption DEF EmptySlot, Slots, NoCall, Calls, PCs, NoRequest, NoReply,
                        Replies, NoOrigin

\* The default members and the idle call are typed.
LEMMA TypeInitially == Init => TypeOK
<1> SUFFICES ASSUME Init PROVE TypeOK
  OBVIOUS
<1>1. ClosedFd \in Descriptors
  BY DEF ClosedFd, Descriptors, NoOrigin
<1> QED  BY <1>1, DefaultsTyped DEF Init, TypeOK

\* Every step keeps the types, one case per action.
LEMMA TypeStep == TypeOK /\ [Next]_vars => TypeOK'
<1> SUFFICES ASSUME TypeOK, [Next]_vars PROVE TypeOK'
  OBVIOUS
<1> USE DefaultsTyped
<1>1. ASSUME NEW c \in Clients, Acquire(c) PROVE TypeOK'
  <2>1. ASSUME NEW r \in Requests, Begin(c, r) PROVE TypeOK'
    <3>1. [NoCall EXCEPT !.pc = "acquire", !.req = r] \in Calls
      BY <2>1 DEF NoCall, Calls, PCs, Replies, NoReply
    <3> QED  BY <2>1, <3>1 DEF Begin, TypeOK
  <2>2. CASE Adopt(c)
    BY <2>2 DEF Adopt, GotoWith, TypeOK, Calls, PCs, Slots
  <2>3. CASE CloseReusable(c)
    BY <2>3, SlotClosedTyped DEF CloseReusable, Goto, TypeOK, Calls, PCs
  <2>4. CASE Resolve(c)
    <3>1. CASE Goto(c, "connect")
      BY <2>4, <3>1 DEF Resolve, Goto, TypeOK, Calls, PCs
    <3>2. CASE Return(c)
      BY <2>4, <3>2 DEF Resolve, Return, TypeOK
    <3> QED  BY <2>4, <3>1, <3>2 DEF Resolve
  <2>5. ASSUME NEW h \in Handles, OpenSocket(c, h) PROVE TypeOK'
    <3>1. call[c].req.origin \in Origins \cup {NoOrigin}
      BY DEF TypeOK, Calls, Requests, NoRequest
    <3>2. fd' \in [Handles -> Descriptors]
      BY <2>5, <3>1 DEF OpenSocket, TypeOK, Descriptors
    <3> QED  BY <2>5, <3>2 DEF OpenSocket, GotoWith, TypeOK, Calls, PCs
  <2>6. CASE ConnectGivesUp(c)
    BY <2>6 DEF ConnectGivesUp, Return, TypeOK
  <2>7. CASE ConnectSucceeds(c)
    BY <2>7 DEF ConnectSucceeds, Goto, TypeOK, Calls, PCs
  <2>8. CASE ConnectAttemptFails(c)
    <3>1. call[c].conn \in Handles \cup {NoHandle}
      BY DEF TypeOK, Calls
    <3>2. fd' \in [Handles -> Descriptors]
      BY <2>8, <3>1, ClosedTyped DEF ConnectAttemptFails
    <3>3. CASE GotoWith(c, "connect", NoHandle)
      BY <2>8, <3>2, <3>3 DEF ConnectAttemptFails, GotoWith, TypeOK, Calls, PCs
    <3>4. CASE Return(c)
      BY <2>8, <3>2, <3>4 DEF ConnectAttemptFails, Return, TypeOK
    <3> QED  BY <2>8, <3>3, <3>4 DEF ConnectAttemptFails
  <2> QED  BY <1>1, <2>1, <2>2, <2>3, <2>4, <2>5, <2>6, <2>7, <2>8 DEF Acquire
<1>2. ASSUME NEW c \in Clients, Exchange(c) PROVE TypeOK'
  <2>1. call[c].conn \in Handles \cup {NoHandle}
    BY DEF TypeOK, Calls
  <2>2. CASE WriteHead(c)
    <3>1. fd' \in [Handles -> Descriptors]
      BY <2>2 DEF WriteHead, TypeOK, Descriptors
    <3> QED  BY <2>2, <3>1 DEF WriteHead, Goto, TypeOK, Calls, PCs
  <2>3. CASE WriteBody(c)
    BY <2>3 DEF WriteBody, Goto, TypeOK, Calls, PCs
  <2>4. CASE IoFails(c)
    BY <2>4, <2>1, ClosedTyped DEF IoFails, GotoWith, TypeOK, Calls, PCs
  <2>5. CASE ParseFails(c)
    BY <2>5 DEF ParseFails, Goto, TypeOK, Calls, PCs
  <2>6. ASSUME NEW r \in Replies, ReadCompletes(c, r) PROVE TypeOK'
    <3>1. WireAfter(r, call[c].req.close) \in {"idle", "surplus", "ended"}
      BY DEF WireAfter
    <3>2. fd' \in [Handles -> Descriptors]
      BY <2>6, <3>1 DEF ReadCompletes, TypeOK, Descriptors
    <3> QED  BY <2>6, <3>2 DEF ReadCompletes, TypeOK, Calls, PCs
  <2>7. CASE EofCompletes(c)
    BY <2>7, <2>1, ClosedTyped DEF EofCompletes, GotoWith, TypeOK, Calls, PCs
  <2>8. CASE Retain(c)
    <3>1. call[c].conn \in Handles
      BY <2>8, <2>1 DEF Retain, Reusable
    <3>2. call[c].req.origin \in Origins \cup {NoOrigin}
      BY DEF TypeOK, Calls, Requests, NoRequest
    <3>3. ASSUME NEW o \in {call[c].req.origin, NoOrigin}
          PROVE  [has |-> TRUE, token |-> call[c].conn,
                  host |-> o.host, port |-> o.port] \in Slots
      BY <3>1, <3>2 DEF Slots, Origins, NoOrigin
    <3> QED  BY <2>8, <3>3 DEF Retain, Return, TypeOK
  <2>9. CASE Discard(c)
    BY <2>9, <2>1, ClosedTyped DEF Discard, Return, TypeOK
  <2> QED  BY <1>2, <2>2, <2>3, <2>4, <2>5, <2>6, <2>7, <2>8, <2>9 DEF Exchange
<1>3. ASSUME NEW c \in Clients, Lifetime(c) PROVE TypeOK'
  <2>1. CASE Construct(c)
    BY <2>1 DEF Construct, TypeOK
  <2>2. CASE Destroy(c)
    BY <2>2, SlotClosedTyped DEF Destroy, TypeOK
  <2>3. ASSUME NEW s \in Clients, NEW left \in MovedFromHosts(s)
        PROVE  SlotMoved(c, s, left) \in [Clients -> Slots]
    <3>1. [EmptySlot EXCEPT !.host = left] \in Slots
      BY DEF MovedFromHosts, TypeOK, Slots, EmptySlot
    <3> QED  BY <3>1 DEF SlotMoved, TypeOK
  <2>4. ASSUME NEW s \in Clients, MoveConstruct(c, s) PROVE TypeOK'
    BY <2>3, <2>4 DEF MoveConstruct, TypeOK
  <2>5. ASSUME NEW s \in Clients, MoveAssign(c, s) PROVE TypeOK'
    BY <2>3, <2>5, SlotClosedTyped DEF MoveAssign, TypeOK
  <2> QED  BY <1>3, <2>1, <2>2, <2>4, <2>5 DEF Lifetime
<1>4. CASE Foreign
  <2>1. ClosedFd \in Descriptors /\ ForeignFd \in Descriptors
    BY DEF ClosedFd, ForeignFd, Descriptors, NoOrigin
  <2> QED  BY <1>4, <2>1 DEF Foreign, ForeignOpen, ForeignClose, TypeOK
<1>5. CASE UNCHANGED vars
  BY <1>5 DEF vars, TypeOK
<1> QED  BY <1>1, <1>2, <1>3, <1>4, <1>5 DEF Next

\* Every variable keeps its type: in particular a retained token is a descriptor
\* number, and a call owns a descriptor number or none.
THEOREM TypeCorrect == Spec => []TypeOK
BY TypeInitially, TypeStep, PTL DEF Spec

(***************************************************************************)
(* Ownership of descriptors.  SoleOwner and NoLeak are not inductive: they *)
(* need to know at which points of execute_once the local TcpConnection    *)
(* has a socket, and that the slot is empty from the moment it does.       *)
(***************************************************************************)

\* Where the handles of client c are at each point of execute_once.
Placement ==
  \A c \in Clients :
    /\ At(c, "connecting") \/ call[c].pc \in ExchangePCs => call[c].conn \in Handles
    /\ call[c].pc \in {"idle", "acquire", "resolve", "connect"}
         => call[c].conn = NoHandle
    /\ call[c].pc \notin {"idle", "acquire"} => ~slot[c].has
    /\ ~alive[c] => At(c, "idle") /\ ~slot[c].has

Ownership == TypeOK /\ Placement /\ SoleOwner /\ NoLeak

\* A step that changes neither who owns what nor which descriptors are open.
LEMMA OwnersKept ==
  ASSUME Ownership,
         \A c \in Clients, h \in Handles :
            SlotOwns(c, h)' = SlotOwns(c, h) /\ CallOwns(c, h)' = CallOwns(c, h),
         \A h \in Handles : fd'[h].use = fd[h].use,
         \A c \in Clients : alive[c] => alive'[c]
  PROVE  SoleOwner' /\ NoLeak'
BY DEF Ownership, SoleOwner, NoLeak, Owns

\* A step in which client c closes all it owns.
LEMMA OwnedClosed ==
  ASSUME Ownership, NEW c \in Clients,
         \A h \in Handles : ~Owns(c, h)',
         \A d \in Clients \ {c}, h \in Handles :
            SlotOwns(d, h)' = SlotOwns(d, h) /\ CallOwns(d, h)' = CallOwns(d, h),
         \A h \in Handles : fd'[h] = IF Owns(c, h) THEN ClosedFd ELSE fd[h],
         \A d \in Clients \ {c} : alive[d] => alive'[d]
  PROVE  SoleOwner' /\ NoLeak'
<1> USE DEF Ownership, Owns
<1>1. SoleOwner'
  BY DEF SoleOwner
<1>2. NoLeak'
  <2> SUFFICES ASSUME NEW h \in Handles, fd'[h].use = "socket"
               PROVE  \E d \in Clients : alive'[d] /\ Owns(d, h)'
    BY DEF NoLeak
  <2>1. ~Owns(c, h) /\ fd'[h] = fd[h]
    BY DEF ClosedFd
  <2>2. PICK d \in Clients : alive[d] /\ Owns(d, h)
    BY <2>1 DEF NoLeak
  <2> QED  BY <2>1, <2>2
<1> QED  BY <1>1, <1>2

\* Placement follows from the program order of execute_once alone.
LEMMA PlacementStep ==
  ASSUME TypeOK, Placement, [Next]_vars
  PROVE  Placement'
<1> USE HandleAssumption DEF Placement, At, ExchangePCs, NoCall, EmptySlot
<1>1. ASSUME NEW c \in Clients, Acquire(c) PROVE Placement'
  <2>1. ASSUME NEW r \in Requests, Begin(c, r) PROVE Placement'
    BY <2>1 DEF Begin, Quiet, TypeOK, Calls
  <2>2. CASE Adopt(c)
    BY <2>2 DEF Adopt, GotoWith, ReuseExisting, TypeOK, Calls, Slots
  <2>3. CASE CloseReusable(c)
    BY <2>3 DEF CloseReusable, Goto, TypeOK, Calls, Slots
  <2>4. CASE Resolve(c)
    BY <2>4 DEF Resolve, Goto, Return, TypeOK, Calls
  <2>5. ASSUME NEW h \in Handles, OpenSocket(c, h) PROVE Placement'
    BY <2>5 DEF OpenSocket, GotoWith, TypeOK, Calls
  <2>6. CASE ConnectGivesUp(c)
    BY <2>6 DEF ConnectGivesUp, Return, TypeOK, Calls
  <2>7. CASE ConnectSucceeds(c)
    BY <2>7 DEF ConnectSucceeds, Goto, TypeOK, Calls
  <2>8. CASE ConnectAttemptFails(c)
    <3>1. ~slot[c].has /\ alive[c]
      BY <2>8 DEF ConnectAttemptFails
    <3>2. CASE GotoWith(c, "connect", NoHandle)
      BY <2>8, <3>1, <3>2 DEF ConnectAttemptFails, GotoWith, TypeOK, Calls
    <3>3. CASE Return(c)
      BY <2>8, <3>1, <3>3 DEF ConnectAttemptFails, Return, TypeOK
    <3> QED  BY <2>8, <3>2, <3>3 DEF ConnectAttemptFails
  <2> QED  BY <1>1, <2>1, <2>2, <2>3, <2>4, <2>5, <2>6, <2>7, <2>8 DEF Acquire
<1>2. ASSUME NEW c \in Clients, Exchange(c) PROVE Placement'
  <2>1. CASE WriteHead(c)
    BY <2>1 DEF WriteHead, Goto, TypeOK, Calls
  <2>2. CASE WriteBody(c)
    BY <2>2 DEF WriteBody, Goto, TypeOK, Calls
  <2>3. CASE IoFails(c)
    BY <2>3 DEF IoFails, GotoWith, TypeOK, Calls
  <2>4. CASE ParseFails(c)
    BY <2>4 DEF ParseFails, Goto, TypeOK, Calls
  <2>5. ASSUME NEW r \in Replies, ReadCompletes(c, r) PROVE Placement'
    BY <2>5 DEF ReadCompletes, TypeOK, Calls
  <2>6. CASE EofCompletes(c)
    BY <2>6 DEF EofCompletes, GotoWith, TypeOK, Calls
  <2>7. CASE Retain(c)
    BY <2>7 DEF Retain, Return, TypeOK, Calls, Slots
  <2>8. CASE Discard(c)
    BY <2>8 DEF Discard, Return, TypeOK, Calls
  <2> QED  BY <1>2, <2>1, <2>2, <2>3, <2>4, <2>5, <2>6, <2>7, <2>8 DEF Exchange
<1>3. ASSUME NEW c \in Clients, Lifetime(c) PROVE Placement'
  <2>1. CASE Construct(c)
    BY <2>1 DEF Construct, TypeOK, Slots
  <2>2. CASE Destroy(c)
    BY <2>2 DEF Destroy, Quiet, TypeOK, Slots
  <2>3. ASSUME NEW s \in Clients, MoveConstruct(c, s) PROVE Placement'
    BY <2>3 DEF MoveConstruct, SlotMoved, Quiet, TypeOK, Slots
  <2>4. ASSUME NEW s \in Clients, MoveAssign(c, s) PROVE Placement'
    BY <2>4 DEF MoveAssign, SlotMoved, Quiet, TypeOK, Slots
  <2> QED  BY <1>3, <2>1, <2>2, <2>3, <2>4 DEF Lifetime
<1>4. CASE Foreign
  BY <1>4 DEF Foreign, ForeignOpen, ForeignClose
<1>5. CASE UNCHANGED vars
  BY <1>5 DEF vars
<1> QED  BY <1>1, <1>2, <1>3, <1>4, <1>5 DEF Next

\* The steps of execute_once up to the connected socket.
LEMMA AcquireKeepsOwnership ==
  ASSUME Ownership, NEW c \in Clients, Acquire(c)
  PROVE  SoleOwner' /\ NoLeak'
<1> USE HandleAssumption DEF At, ExchangePCs, NoCall, EmptySlot, SlotOwns, CallOwns
<1>1. ASSUME NEW r \in Requests, Begin(c, r) PROVE SoleOwner' /\ NoLeak'
  BY <1>1, OwnersKept DEF Begin, Quiet, Ownership, Placement, TypeOK, Calls
<1>2. CASE Adopt(c)
  <2>1. call[c].conn = NoHandle
    BY <1>2 DEF Adopt, Ownership, Placement
  <2>2. \A d \in Clients, h \in Handles : Owns(d, h)' = Owns(d, h)
    BY <1>2, <2>1
       DEF Adopt, GotoWith, ReuseExisting, Owns, Ownership, TypeOK, Calls, Slots
  <2>3. \A d \in Clients, h \in Handles : ~(SlotOwns(d, h)' /\ CallOwns(d, h)') 
    BY <1>2 DEF Adopt, GotoWith, Owns, Ownership, SoleOwner, TypeOK, Calls, Slots
  <2> QED  BY <1>2, <2>2, <2>3 DEF Adopt, Ownership, SoleOwner, NoLeak
<1>3. CASE CloseReusable(c)
  BY <1>3, OwnedClosed
     DEF CloseReusable, SlotClosed, Closed, Goto, Owns, Ownership, Placement,
         TypeOK, Calls, Slots
<1>4. CASE Resolve(c)
  BY <1>4, OwnersKept DEF Resolve, Goto, Return, Ownership, Placement, TypeOK, Calls
<1>5. ASSUME NEW h \in Handles, OpenSocket(c, h) PROVE SoleOwner' /\ NoLeak'
  <2>1. /\ fd[h].use = "closed" /\ fd'[h].use = "socket"
        /\ \A g \in Handles \ {h} : fd'[g] = fd[g]
    BY <1>5 DEF OpenSocket, ClosedFd, Ownership, TypeOK
  <2>2. \A d \in Clients : ~Owns(d, h)
    BY <2>1 DEF Ownership, SoleOwner
  <2>3. alive[c] /\ alive' = alive /\ slot' = slot /\ ~slot[c].has
    BY <1>5 DEF OpenSocket, Ownership, Placement
  <2>4. /\ call'[c].conn = h /\ call[c].conn = NoHandle
        /\ \A d \in Clients \ {c} : call'[d] = call[d]
    BY <1>5 DEF OpenSocket, GotoWith, Ownership, Placement, TypeOK, Calls
  <2>5. \A d \in Clients, g \in Handles :
           Owns(d, g)' <=> (Owns(d, g) \/ (d = c /\ g = h))
    BY <2>2, <2>3, <2>4 DEF Owns
  <2>6. SoleOwner'
    BY <2>1, <2>2, <2>3, <2>4, <2>5 DEF Ownership, SoleOwner, Owns
  <2>7. NoLeak'
    BY <2>1, <2>3, <2>5 DEF Ownership, NoLeak
  <2> QED  BY <2>6, <2>7
<1>6. CASE ConnectGivesUp(c)
  BY <1>6, OwnersKept DEF ConnectGivesUp, Return, Ownership, Placement, TypeOK, Calls
<1>7. CASE ConnectSucceeds(c)
  BY <1>7, OwnersKept DEF ConnectSucceeds, Goto, Ownership, TypeOK, Calls
<1>8. CASE ConnectAttemptFails(c)
  <2>1. /\ call'[c].conn = NoHandle
        /\ \A d \in Clients \ {c} : call'[d] = call[d]
    BY <1>8 DEF ConnectAttemptFails, GotoWith, Return, Ownership, TypeOK, Calls
  <2> QED
    BY <1>8, <2>1, OwnedClosed
       DEF ConnectAttemptFails, Closed, Owns, Ownership, Placement, TypeOK
<1> QED  BY <1>1, <1>2, <1>3, <1>4, <1>5, <1>6, <1>7, <1>8 DEF Acquire

\* The exchange, its failures and its end.
LEMMA ExchangeKeepsOwnership ==
  ASSUME Ownership, NEW c \in Clients, Exchange(c)
  PROVE  SoleOwner' /\ NoLeak'
<1> USE HandleAssumption DEF At, ExchangePCs, NoCall, SlotOwns, CallOwns
<1>1. CASE WriteHead(c)
  BY <1>1, OwnersKept DEF WriteHead, Goto, Ownership, TypeOK, Calls, Descriptors
<1>2. CASE WriteBody(c)
  BY <1>2, OwnersKept DEF WriteBody, Goto, Ownership, TypeOK, Calls
<1>3. CASE IoFails(c)
  BY <1>3, OwnedClosed
     DEF IoFails, GotoWith, Closed, Owns, Ownership, Placement, TypeOK, Calls
<1>4. CASE ParseFails(c)
  BY <1>4, OwnersKept DEF ParseFails, Goto, Ownership, TypeOK, Calls
<1>5. ASSUME NEW r \in Replies, ReadCompletes(c, r) PROVE SoleOwner' /\ NoLeak'
  BY <1>5, OwnersKept DEF ReadCompletes, Ownership, TypeOK, Calls, Descriptors
<1>6. CASE EofCompletes(c)
  BY <1>6, OwnedClosed
     DEF EofCompletes, GotoWith, Closed, Owns, Ownership, Placement, TypeOK, Calls
<1>7. CASE Retain(c)
  <2>1. ~slot[c].has /\ call[c].conn \in Handles
    BY <1>7 DEF Retain, Reusable, Ownership, Placement, TypeOK, Calls
  <2>2. \A d \in Clients, h \in Handles : Owns(d, h)' = Owns(d, h)
    BY <1>7, <2>1 DEF Retain, Return, Owns, Ownership, TypeOK, Calls, Slots
  <2>3. \A d \in Clients, h \in Handles : ~(SlotOwns(d, h)' /\ CallOwns(d, h)')
    BY <1>7 DEF Retain, Return, Owns, Ownership, SoleOwner, TypeOK, Calls, Slots
  <2> QED  BY <1>7, <2>2, <2>3 DEF Retain, Ownership, SoleOwner, NoLeak
<1>8. CASE Discard(c)
  BY <1>8, OwnedClosed
     DEF Discard, Return, Closed, Owns, Ownership, Placement, TypeOK, Calls
<1> QED  BY <1>1, <1>2, <1>3, <1>4, <1>5, <1>6, <1>7, <1>8 DEF Exchange

\* Construction, destruction and moves of Client objects.
LEMMA LifetimeKeepsOwnership ==
  ASSUME Ownership, NEW c \in Clients, Lifetime(c)
  PROVE  SoleOwner' /\ NoLeak'
<1> USE HandleAssumption DEF At, EmptySlot, SlotOwns, CallOwns
<1>1. CASE Construct(c)
  BY <1>1, OwnersKept DEF Construct, Ownership, Placement, TypeOK, Slots
<1>2. CASE Destroy(c)
  <2>1. call[c].conn = NoHandle /\ call' = call
    BY <1>2 DEF Destroy, Quiet, Ownership, Placement
  <2>2. ~slot'[c].has /\ \A d \in Clients \ {c} : slot'[d] = slot[d]
    BY <1>2 DEF Destroy, Ownership, TypeOK
  <2>3. \A h \in Handles : fd'[h] = IF Owns(c, h) THEN ClosedFd ELSE fd[h]
    BY <1>2, <2>1 DEF Destroy, SlotClosed, Closed, Owns, Ownership, TypeOK, Slots
  <2>4. \A d \in Clients \ {c} : alive[d] => alive'[d]
    BY <1>2 DEF Destroy, Ownership, TypeOK
  <2> QED  BY <2>1, <2>2, <2>3, <2>4, OwnedClosed DEF Owns
<1>3. ASSUME NEW s \in Clients, MoveConstruct(c, s) PROVE SoleOwner' /\ NoLeak'
  <2>1. /\ c # s /\ ~alive[c] /\ alive[s] /\ fd' = fd /\ call' = call
        /\ \A d \in Clients : alive[d] => alive'[d]
        /\ alive'[c]
    BY <1>3 DEF MoveConstruct, Quiet, Ownership, TypeOK
  <2>2. /\ slot'[c] = slot[s] /\ ~slot'[s].has
        /\ \A d \in Clients \ {c, s} : slot'[d] = slot[d]
    BY <1>3 DEF MoveConstruct, SlotMoved, Ownership, TypeOK, Slots
  <2>3. /\ call[c].conn = NoHandle /\ ~slot[c].has
        /\ call[s].conn = NoHandle
    BY <1>3 DEF MoveConstruct, Quiet, Ownership, Placement
  <2>4. \A h \in Handles :
           /\ Owns(c, h)' = Owns(s, h)
           /\ ~Owns(s, h)' /\ ~Owns(c, h)
           /\ \A d \in Clients \ {c, s} : Owns(d, h)' = Owns(d, h)
    BY <2>1, <2>2, <2>3 DEF Owns
  <2>5. SoleOwner'
    BY <2>1, <2>2, <2>3, <2>4 DEF Ownership, SoleOwner
  <2>6. NoLeak'
    BY <2>1, <2>4 DEF Ownership, NoLeak
  <2> QED  BY <2>5, <2>6
<1>4. ASSUME NEW s \in Clients, MoveAssign(c, s) PROVE SoleOwner' /\ NoLeak'
  <2>1. c # s /\ alive[c] /\ alive[s] /\ alive' = alive /\ call' = call
    BY <1>4 DEF MoveAssign, Quiet
  <2>2. /\ slot'[c] = slot[s] /\ ~slot'[s].has
        /\ \A d \in Clients \ {c, s} : slot'[d] = slot[d]
    BY <1>4 DEF MoveAssign, SlotMoved, Ownership, TypeOK, Slots
  <2>3. call[c].conn = NoHandle /\ call[s].conn = NoHandle
    BY <1>4 DEF MoveAssign, Quiet, Ownership, Placement
  <2>4. \A h \in Handles : fd'[h] = IF Owns(c, h) THEN ClosedFd ELSE fd[h]
    BY <1>4, <2>3 DEF MoveAssign, SlotClosed, Closed, Owns, Ownership, TypeOK, Slots
  <2>5. \A h \in Handles :
           /\ Owns(c, h)' = Owns(s, h)
           /\ ~Owns(s, h)'
           /\ \A d \in Clients \ {c, s} : Owns(d, h)' = Owns(d, h)
    BY <2>1, <2>2, <2>3 DEF Owns
  <2>6. SoleOwner'
    BY <2>1, <2>2, <2>3, <2>4, <2>5 DEF Ownership, SoleOwner
  <2>7. NoLeak'
    <3> SUFFICES ASSUME NEW h \in Handles, fd'[h].use = "socket"
                 PROVE  \E d \in Clients : alive'[d] /\ Owns(d, h)'
      BY DEF NoLeak
    <3>1. ~Owns(c, h) /\ fd'[h] = fd[h]
      BY <2>4 DEF ClosedFd
    <3>2. PICK d \in Clients : alive[d] /\ Owns(d, h)
      BY <3>1 DEF Ownership, NoLeak
    <3> QED  BY <2>1, <2>5, <3>1, <3>2
  <2> QED  BY <2>6, <2>7
<1> QED  BY <1>1, <1>2, <1>3, <1>4 DEF Lifetime

\* Descriptors of the rest of the program come and go on numbers nobody owns.
LEMMA ForeignKeepsOwnership ==
  ASSUME Ownership, Foreign
  PROVE  SoleOwner' /\ NoLeak'
<1>1. PICK h \in Handles : ForeignOpen(h) \/ ForeignClose(h)
  BY DEF Foreign
<1>2. /\ fd[h].use # "socket" /\ fd'[h].use # "socket"
      /\ \A g \in Handles \ {h} : fd'[g] = fd[g]
      /\ alive' = alive /\ slot' = slot /\ call' = call
  BY <1>1 DEF ForeignOpen, ForeignClose, ClosedFd, ForeignFd, Ownership, TypeOK
<1>3. \A c \in Clients : ~Owns(c, h)
  BY <1>2 DEF Ownership, SoleOwner
<1>4. \A c \in Clients, g \in Handles : Owns(c, g)' = Owns(c, g)
  BY <1>2 DEF Owns, SlotOwns, CallOwns
<1> QED  BY <1>2, <1>3, <1>4 DEF Ownership, SoleOwner, NoLeak, SlotOwns, CallOwns

\* The invariant in one piece.
LEMMA OwnershipInvariant == Spec => []Ownership
<1>1. Init => Ownership
  <2> SUFFICES ASSUME Init PROVE Placement /\ SoleOwner /\ NoLeak
    BY TypeInitially DEF Ownership
  <2> QED
    BY HandleAssumption
       DEF Init, Placement, SoleOwner, NoLeak, Owns, SlotOwns, CallOwns, At,
           NoCall, EmptySlot, ClosedFd, ExchangePCs
<1>2. Ownership /\ [Next]_vars => Ownership'
  <2> SUFFICES ASSUME Ownership, [Next]_vars PROVE SoleOwner' /\ NoLeak'
    BY TypeStep, PlacementStep DEF Ownership
  <2>1. CASE UNCHANGED vars
    BY <2>1, OwnersKept DEF vars, SlotOwns, CallOwns
  <2> QED
    BY <2>1, AcquireKeepsOwnership, ExchangeKeepsOwnership,
       LifetimeKeepsOwnership, ForeignKeepsOwnership DEF Next
<1> QED  BY <1>1, <1>2, PTL DEF Spec

\* No double close, no dangling token: every owned descriptor is an open socket
\* of the library with exactly one owner (client.cpp:165-208, 311-317, 394-398).
THEOREM DescriptorsHaveOneOwner == Spec => []SoleOwner
<1>1. Ownership => SoleOwner
  BY DEF Ownership
<1> QED  BY <1>1, OwnershipInvariant, PTL

\* No leak: every socket the library opened belongs to a live client, on the
\* error paths of execute_once too.
THEOREM NoDescriptorLeaks == Spec => []NoLeak
<1>1. Ownership => NoLeak
  BY DEF Ownership
<1> QED  BY <1>1, OwnershipInvariant, PTL

\* A client never holds a retained connection beside the one it uses.
THEOREM OneDescriptor == Spec => []OneDescriptorPerClient
<1>1. Ownership => OneDescriptorPerClient
  BY DEF Ownership, Placement, OneDescriptorPerClient, TypeOK, Calls
<1> QED  BY <1>1, OwnershipInvariant, PTL

\* A descriptor of the rest of the program is closed by nobody else.
THEOREM ForeignDescriptorsUntouched == Spec => ForeignUntouched
<1>1. ASSUME Ownership, [Next]_vars, NEW h \in Handles,
             fd[h] = ForeignFd, fd'[h] # ForeignFd
      PROVE  ForeignClose(h)
  <2> USE HandleAssumption DEF Ownership
  <2>0. fd[h] # ClosedFd
    BY <1>1 DEF ForeignFd, ClosedFd
  <2>1. \A c \in Clients : ~Owns(c, h)
    BY <1>1 DEF SoleOwner, ForeignFd
  <2>2. \A c \in Clients : slot[c].has => slot[c].token # h
    BY <2>1 DEF Owns, SlotOwns
  <2>3. \A c \in Clients : call[c].conn # h
    BY <2>1 DEF Owns, CallOwns
  <2>4. \A c \in Clients : ~Acquire(c)
    <3> SUFFICES ASSUME NEW c \in Clients, Acquire(c) PROVE FALSE
      OBVIOUS
    <3>1. CASE CloseReusable(c)
      BY <1>1, <2>2, <3>1 DEF CloseReusable, SlotClosed, Closed, TypeOK, Slots
    <3>2. ASSUME NEW g \in Handles, OpenSocket(c, g) PROVE FALSE
      BY <1>1, <2>0, <3>2 DEF OpenSocket, TypeOK
    <3>3. CASE ConnectAttemptFails(c)
      BY <1>1, <2>3, <3>3 DEF ConnectAttemptFails, Closed, TypeOK, Calls
    <3>4. ASSUME fd' = fd PROVE FALSE
      BY <1>1, <3>4
    <3> QED  BY <3>1, <3>2, <3>3, <3>4
             DEF Acquire, Begin, Adopt, Resolve, ConnectGivesUp, ConnectSucceeds
  <2>5. \A c \in Clients : ~Exchange(c)
    BY <1>1, <2>3
       DEF Exchange, WriteHead, WriteBody, IoFails, ParseFails, ReadCompletes,
           EofCompletes, Retain, Discard, Closed, TypeOK
  <2>6. \A c \in Clients : ~Lifetime(c)
    BY <1>1, <2>2
       DEF Lifetime, Construct, Destroy, MoveConstruct, MoveAssign, SlotClosed,
           Closed, TypeOK
  <2>7. PICK g \in Handles : ForeignOpen(g) \/ ForeignClose(g)
    BY <1>1, <2>4, <2>5, <2>6 DEF Next, Foreign, vars
  <2>8. g = h /\ ~ForeignOpen(g)
    BY <1>1, <2>7 DEF ForeignOpen, ForeignClose, ClosedFd, ForeignFd, TypeOK
  <2> QED  BY <2>7, <2>8
<1>2. Ownership /\ [Next]_vars =>
        [\A h \in Handles :
            fd[h] = ForeignFd /\ fd'[h] # ForeignFd => ForeignClose(h)]_vars
  BY <1>1
<1> QED  BY <1>2, OwnershipInvariant, PTL DEF Spec, ForeignUntouched

\* After a call its client holds the connection the call used, or none.
THEOREM ClientsKeepOnlyTheirOwn == Spec => KeepsOnlyItsOwn
<1>1. ASSUME Ownership, [Next]_vars, NEW c \in Clients,
             call[c].pc # "idle", call'[c].pc = "idle", slot'[c].has
      PROVE  Reusable(call[c]) /\ slot'[c].token = call[c].conn
  <2>0. TypeOK
    BY <1>1 DEF Ownership
  <2>1. call'[c] # call[c]
    BY <1>1
  <2>2. call[c].pc # "acquire" => ~slot[c].has
    BY <1>1 DEF Ownership, Placement, At
  <2>3. \A d \in Clients : ~Lifetime(d)
    BY <2>1 DEF Lifetime, Construct, Destroy, MoveConstruct, MoveAssign
  <2>4. ~Foreign /\ ~UNCHANGED vars
    BY <2>1 DEF Foreign, ForeignOpen, ForeignClose, vars
  <2>5. ASSUME NEW d \in Clients, Acquire(d) PROVE FALSE
    <3>1. \A r \in Requests : ~Begin(d, r)
      BY <1>1, <2>0, <2>1 DEF Begin, Quiet, TypeOK
    <3>2. ~Adopt(d) /\ ~CloseReusable(d)
      BY <1>1, <2>0 DEF Adopt, CloseReusable, Goto, GotoWith, TypeOK, Calls
    <3>3. \A h \in Handles : ~OpenSocket(d, h)
      BY <1>1, <2>0 DEF OpenSocket, GotoWith, TypeOK, Calls
    <3>4. ~ConnectSucceeds(d)
      BY <1>1, <2>0 DEF ConnectSucceeds, Goto, TypeOK, Calls
    <3>5. Resolve(d) \/ ConnectGivesUp(d) \/ ConnectAttemptFails(d)
      BY <2>5, <3>1, <3>2, <3>3, <3>4 DEF Acquire
    <3>6. d = c
      BY <2>0, <2>1, <3>5 DEF Resolve, ConnectGivesUp, ConnectAttemptFails, Goto,
         GotoWith, Return, TypeOK
    <3> QED  BY <1>1, <2>2, <3>5, <3>6
             DEF Resolve, ConnectGivesUp, ConnectAttemptFails, At
  <2>6. PICK d \in Clients : Exchange(d)
    BY <1>1, <2>3, <2>4, <2>5 DEF Next
  <2>7. Retain(d) \/ Discard(d)
    <3>1. ~WriteHead(d) /\ ~WriteBody(d)
      BY <1>1, <2>0 DEF WriteHead, WriteBody, Goto, TypeOK, Calls
    <3>2. ~IoFails(d) /\ ~EofCompletes(d)
      BY <1>1, <2>0 DEF IoFails, EofCompletes, GotoWith, TypeOK, Calls
    <3>3. ~ParseFails(d)
      BY <1>1, <2>0 DEF ParseFails, Goto, TypeOK, Calls
    <3>4. \A r \in Replies : ~ReadCompletes(d, r)
      BY <1>1, <2>0 DEF ReadCompletes, TypeOK, Calls
    <3> QED  BY <2>6, <3>1, <3>2, <3>3, <3>4 DEF Exchange
  <2>8. d = c
    BY <2>0, <2>1, <2>7 DEF Retain, Discard, Return, TypeOK
  <2>9. ~Discard(c)
    BY <1>1, <2>2 DEF Discard, At
  <2>10. Reusable(call[c])
    BY <2>7, <2>8, <2>9 DEF Retain
  <2>11. PICK o \in {call[c].req.origin, NoOrigin} :
           slot' = [slot EXCEPT ![c] = [has |-> TRUE, token |-> call[c].conn,
                                        host |-> o.host, port |-> o.port]]
    BY <2>7, <2>8, <2>9 DEF Retain
  <2>12. slot'[c].token = call[c].conn
    BY <2>0, <2>11 DEF TypeOK
  <2> QED  BY <2>10, <2>12
<1>2. Ownership /\ [Next]_vars =>
        [\A c \in Clients :
            call[c].pc # "idle" /\ call'[c].pc = "idle" /\ slot'[c].has
              => Reusable(call[c]) /\ slot'[c].token = call[c].conn]_vars
  BY <1>1
<1> QED  BY <1>2, OwnershipInvariant, PTL DEF Spec, KeepsOnlyItsOwn

(***************************************************************************)
(* What a descriptor is connected to, and what is on its wire.  Ownership  *)
(* is what makes this invariant local: a step of one client changes no     *)
(* descriptor another client owns.                                         *)
(***************************************************************************)

\* The descriptors of client c are what its slot and its call take them for.
PeerOf(c) ==
  /\ ~At(c, "idle") => call[c].req \in Requests
  /\ call[c].conn # NoHandle => fd[call[c].conn].peer = call[c].req.origin
  /\ At(c, "connecting") \/ At(c, "head") => fd[call[c].conn].wire = "idle"
  /\ At(c, "decide") /\ Reusable(call[c]) => fd[call[c].conn].wire = "idle"
  /\ slot[c].has => /\ fd[slot[c].token].wire = "idle"
                    /\ \/ slot[c].host = NoHost
                       \/ fd[slot[c].token].peer =
                            [host |-> slot[c].host, port |-> slot[c].port]

Peers == Ownership /\ \A c \in Clients : PeerOf(c)

\* A client whose locals, slot and descriptors are unchanged.
LEMMA PeerFrame ==
  ASSUME NEW c \in Clients, Ownership, PeerOf(c),
         call'[c] = call[c], slot'[c] = slot[c],
         \A h \in Handles : Owns(c, h) => fd'[h] = fd[h]
  PROVE  PeerOf(c)'
<1>1. call[c].conn # NoHandle => fd'[call[c].conn] = fd[call[c].conn]
  BY DEF Owns, CallOwns, Ownership, TypeOK, Calls
<1>2. slot[c].has => fd'[slot[c].token] = fd[slot[c].token]
  BY DEF Owns, SlotOwns, Ownership, TypeOK, Slots
<1>3. At(c, "connecting") \/ At(c, "head") => call[c].conn # NoHandle
  BY HandleAssumption DEF Ownership, Placement, ExchangePCs, At
<1> QED  BY <1>1, <1>2, <1>3 DEF PeerOf, At, Reusable

\* A step of the call of client c changes no descriptor that another owns.
LEMMA CallStepsAreLocal ==
  ASSUME Ownership, NEW c \in Clients, Acquire(c) \/ Exchange(c),
         NEW d \in Clients, d # c
  PROVE  /\ call'[d] = call[d] /\ slot'[d] = slot[d]
         /\ \A h \in Handles : Owns(d, h) => fd'[h] = fd[h]
<1> USE DEF Ownership, TypeOK
<1>1. call'[d] = call[d]
  BY DEF Acquire, Exchange, Begin, Adopt, CloseReusable, Resolve, OpenSocket,
         ConnectGivesUp, ConnectSucceeds, ConnectAttemptFails, WriteHead,
         WriteBody, IoFails, ParseFails, ReadCompletes, EofCompletes, Retain,
         Discard, Goto, GotoWith, Return
<1>2. slot'[d] = slot[d]
  BY DEF Acquire, Exchange, Begin, Adopt, CloseReusable, Resolve, OpenSocket,
         ConnectGivesUp, ConnectSucceeds, ConnectAttemptFails, WriteHead,
         WriteBody, IoFails, ParseFails, ReadCompletes, EofCompletes, Retain,
         Discard
<1>3. ASSUME NEW h \in Handles, Owns(d, h) PROVE fd'[h] = fd[h]
  <2>1. ~Owns(c, h) /\ fd[h].use = "socket"
    BY <1>3 DEF SoleOwner
  <2>2. (slot[c].has => slot[c].token # h) /\ call[c].conn # h
    BY <2>1 DEF Owns, SlotOwns, CallOwns
  <2>3. CASE Acquire(c)
    <3>1. CASE CloseReusable(c)
      BY <2>2, <3>1 DEF CloseReusable, SlotClosed, Closed, Slots
    <3>2. ASSUME NEW g \in Handles, OpenSocket(c, g) PROVE fd'[h] = fd[h]
      BY <2>1, <3>2 DEF OpenSocket, ClosedFd
    <3>3. CASE ConnectAttemptFails(c)
      BY <2>2, <3>3 DEF ConnectAttemptFails, Closed, Calls
    <3> QED  BY <2>3, <3>1, <3>2, <3>3
             DEF Acquire, Begin, Adopt, Resolve, ConnectGivesUp, ConnectSucceeds
  <2>4. CASE Exchange(c)
    BY <2>2, <2>4
       DEF Exchange, WriteHead, WriteBody, IoFails, ParseFails, ReadCompletes,
           EofCompletes, Retain, Discard, Closed
  <2> QED  BY <2>3, <2>4
<1> QED  BY <1>1, <1>2, <1>3

\* The client that takes the step: up to the connected socket.
LEMMA AcquireKeepsPeer ==
  ASSUME Peers, NEW c \in Clients, Acquire(c)
  PROVE  PeerOf(c)'
<1> USE HandleAssumption DEF Peers, Ownership, TypeOK, At, PeerOf, Reusable
<1>1. ASSUME NEW r \in Requests, Begin(c, r) PROVE PeerOf(c)'
  BY <1>1 DEF Begin, Quiet, NoCall
<1>2. CASE Adopt(c)
  <2>1. /\ slot[c].has /\ slot[c].token \in Handles
        /\ slot[c].host = call[c].req.origin.host
        /\ slot[c].port = call[c].req.origin.port
        /\ call[c].req \in Requests
    BY <1>2 DEF Adopt, ReuseExisting, SameOrigin, Slots
  <2>2. slot[c].host # NoHost
    BY <2>1, OriginAssumption DEF Requests, Origins
  <2>3. [host |-> slot[c].host, port |-> slot[c].port] = call[c].req.origin
    BY <2>1 DEF Requests, Origins
  <2>4. fd[slot[c].token].peer = call[c].req.origin
    BY <2>1, <2>2, <2>3
  <2>5. call'[c] = [call[c] EXCEPT !.pc = "head", !.conn = slot[c].token]
    BY <1>2 DEF Adopt, GotoWith
  <2>6. /\ call'[c].pc = "head" /\ call'[c].conn = slot[c].token
        /\ call'[c].req = call[c].req
    BY <2>5 DEF Calls
  <2> QED  BY <1>2, <2>1, <2>4, <2>6 DEF Adopt, EmptySlot
<1>3. CASE CloseReusable(c)
  <2>1. /\ call'[c].pc = "resolve" /\ call'[c].conn = NoHandle
        /\ call'[c].req = call[c].req /\ ~slot'[c].has
    BY <1>3 DEF CloseReusable, Goto, Placement, EmptySlot, Calls
  <2> QED  BY <1>3, <2>1 DEF CloseReusable
<1>4. CASE Resolve(c)
  <2>1. ~slot[c].has /\ call[c].conn = NoHandle
    BY <1>4 DEF Resolve, Placement
  <2>2. CASE Goto(c, "connect")
    BY <1>4, <2>1, <2>2 DEF Resolve, Goto, Calls
  <2>3. CASE Return(c)
    BY <1>4, <2>1, <2>3 DEF Resolve, Return, NoCall
  <2> QED  BY <1>4, <2>2, <2>3 DEF Resolve
<1>5. ASSUME NEW h \in Handles, OpenSocket(c, h) PROVE PeerOf(c)'
  BY <1>5 DEF OpenSocket, GotoWith, Placement, Calls
<1>6. CASE ConnectGivesUp(c)
  BY <1>6 DEF ConnectGivesUp, Return, Placement, NoCall, Calls
<1>7. CASE ConnectSucceeds(c)
  BY <1>7 DEF ConnectSucceeds, Goto, Placement, Calls
<1>8. CASE ConnectAttemptFails(c)
  BY <1>8 DEF ConnectAttemptFails, GotoWith, Return, Placement, NoCall, Calls
<1> QED  BY <1>1, <1>2, <1>3, <1>4, <1>5, <1>6, <1>7, <1>8 DEF Acquire

\* The client that takes the step: the exchange.
LEMMA ExchangeKeepsPeer ==
  ASSUME Peers, NEW c \in Clients, Exchange(c)
  PROVE  PeerOf(c)'
<1> USE HandleAssumption
    DEF Peers, Ownership, TypeOK, At, PeerOf, Reusable, Placement, ExchangePCs, Calls
<1>1. CASE WriteHead(c)
  <2>1. call[c].conn \in Handles /\ ~slot[c].has
    BY <1>1 DEF WriteHead
  <2>2. fd'[call[c].conn].peer = fd[call[c].conn].peer
    BY <1>1, <2>1 DEF WriteHead, Descriptors
  <2> QED  BY <1>1, <2>1, <2>2 DEF WriteHead, Goto
<1>2. CASE WriteBody(c)
  BY <1>2 DEF WriteBody, Goto
<1>3. CASE IoFails(c)
  BY <1>3 DEF IoFails, GotoWith
<1>4. CASE ParseFails(c)
  BY <1>4 DEF ParseFails, Goto
<1>5. ASSUME NEW r \in Replies, ReadCompletes(c, r) PROVE PeerOf(c)'
  <2>1. call[c].conn \in Handles /\ ~slot[c].has
    BY <1>5 DEF ReadCompletes
  <2>2. /\ fd'[call[c].conn].peer = fd[call[c].conn].peer
        /\ fd'[call[c].conn].wire = WireAfter(r, call[c].req.close)
    BY <1>5, <2>1 DEF ReadCompletes, Descriptors
  <2>3. call'[c].reply = r /\ call'[c].req = call[c].req
        /\ call'[c].conn = call[c].conn /\ call'[c].pc = "decide"
    BY <1>5 DEF ReadCompletes
  <2> QED  BY <1>5, <2>1, <2>2, <2>3 DEF ReadCompletes, WireAfter
<1>6. CASE EofCompletes(c)
  BY <1>6 DEF EofCompletes, GotoWith
<1>7. CASE Retain(c)
  <2>1. PICK o \in {call[c].req.origin, NoOrigin} :
          slot'[c] = [has |-> TRUE, token |-> call[c].conn,
                      host |-> o.host, port |-> o.port]
    BY <1>7 DEF Retain
  <2>2. o = NoOrigin => slot'[c].host = NoHost
    BY <2>1 DEF NoOrigin
  <2>3. call[c].req.origin = [host |-> call[c].req.origin.host,
                              port |-> call[c].req.origin.port]
    BY <1>7 DEF Retain, Requests, Origins
  <2>4. /\ call'[c].pc = "idle" /\ call'[c].conn = NoHandle /\ fd' = fd
        /\ slot'[c].token = call[c].conn /\ slot'[c].host = o.host
        /\ slot'[c].port = o.port
    BY <1>7, <2>1 DEF Retain, Return, NoCall
  <2>5. /\ fd[call[c].conn].wire = "idle"
        /\ fd[call[c].conn].peer = call[c].req.origin
    BY <1>7 DEF Retain
  <2> QED  BY <2>2, <2>3, <2>4, <2>5
<1>8. CASE Discard(c)
  <2>1. ~slot'[c].has /\ call'[c] = NoCall
    BY <1>8 DEF Discard, Return
  <2> QED  BY <2>1 DEF NoCall
<1> QED  BY <1>1, <1>2, <1>3, <1>4, <1>5, <1>6, <1>7, <1>8 DEF Exchange

\* Moves carry a retained connection over with its origin.
LEMMA LifetimeKeepsPeers ==
  ASSUME Peers, NEW c \in Clients, Lifetime(c), NEW d \in Clients
  PROVE  PeerOf(d)'
<1> USE HandleAssumption DEF Peers, Ownership, TypeOK, Placement, At, PeerOf, Reusable
<1>1. CASE Construct(c)
  BY <1>1, PeerFrame DEF Construct, EmptySlot
<1>2. CASE Destroy(c)
  <2>1. CASE d = c
    BY <1>2, <2>1 DEF Destroy, Quiet, EmptySlot
  <2>2. CASE d # c
    <3>1. \A h \in Handles : Owns(d, h) => fd'[h] = fd[h]
      BY <1>2, <2>2 DEF Destroy, SlotClosed, Closed, SoleOwner, Owns, SlotOwns, Slots
    <3> QED  BY <1>2, <2>2, <3>1, PeerFrame DEF Destroy
  <2> QED  BY <2>1, <2>2
<1>3. ASSUME NEW s \in Clients, MoveConstruct(c, s) PROVE PeerOf(d)'
  BY <1>3 DEF MoveConstruct, SlotMoved, Quiet, EmptySlot
<1>4. ASSUME NEW s \in Clients, MoveAssign(c, s) PROVE PeerOf(d)'
  <2>1. /\ c # s /\ call' = call /\ slot'[c] = slot[s] /\ ~slot'[s].has
        /\ \A e \in Clients \ {c, s} : slot'[e] = slot[e]
    BY <1>4 DEF MoveAssign, SlotMoved, Quiet, EmptySlot
  <2>2. /\ call[c].pc = "idle" /\ call[c].conn = NoHandle
        /\ call[s].pc = "idle" /\ call[s].conn = NoHandle
    BY <1>4 DEF MoveAssign, Quiet
  <2>3. \A e \in Clients \ {c}, h \in Handles : Owns(e, h) => fd'[h] = fd[h]
    BY <1>4 DEF MoveAssign, SlotClosed, Closed, SoleOwner, Owns, SlotOwns, Slots
  <2>4. CASE d = c
    <3>1. slot[s].has => fd'[slot[s].token] = fd[slot[s].token]
      BY <2>1, <2>3 DEF Owns, SlotOwns, Slots
    <3> QED  BY <2>1, <2>2, <2>4, <3>1
  <2>5. CASE d = s
    BY <2>1, <2>2, <2>5
  <2>6. CASE d # c /\ d # s
    BY <2>1, <2>3, <2>6, PeerFrame
  <2> QED  BY <2>4, <2>5, <2>6
<1> QED  BY <1>1, <1>2, <1>3, <1>4 DEF Lifetime

\* The invariant behind the two theorems below.
LEMMA PeersInvariant == Spec => []Peers
<1>1. Init /\ Ownership => Peers
  <2> SUFFICES ASSUME Init, Ownership, NEW c \in Clients PROVE PeerOf(c)
    BY DEF Peers
  <2>1. call[c] = NoCall /\ slot[c] = EmptySlot
    BY DEF Init
  <2>2. call[c].pc = "idle" /\ call[c].conn = NoHandle /\ ~slot[c].has
    BY <2>1 DEF NoCall, EmptySlot
  <2> QED  BY <2>2 DEF PeerOf, At
<1>2. Peers /\ [Next]_vars /\ Ownership' => Peers'
  <2> SUFFICES ASSUME Peers, [Next]_vars, NEW d \in Clients PROVE PeerOf(d)'
    BY DEF Peers
  <2>1. ASSUME NEW c \in Clients, Acquire(c) \/ Exchange(c) PROVE PeerOf(d)'
    BY <2>1, CallStepsAreLocal, PeerFrame, AcquireKeepsPeer, ExchangeKeepsPeer
       DEF Peers
  <2>2. CASE Foreign
    <3>1. PICK g \in Handles : ForeignOpen(g) \/ ForeignClose(g)
      BY <2>2 DEF Foreign
    <3>2. /\ fd[g].use # "socket" /\ \A h \in Handles \ {g} : fd'[h] = fd[h]
          /\ slot' = slot /\ call' = call
      BY <3>1 DEF ForeignOpen, ForeignClose, ClosedFd, ForeignFd, Peers,
                  Ownership, TypeOK
    <3>3. \A h \in Handles : Owns(d, h) => fd'[h] = fd[h]
      BY <3>2 DEF Peers, Ownership, SoleOwner
    <3> QED  BY <3>2, <3>3, PeerFrame DEF Peers
  <2>3. CASE UNCHANGED vars
    BY <2>3, PeerFrame DEF vars, Peers
  <2> QED  BY <2>1, <2>2, <2>3, LifetimeKeepsPeers DEF Next
<1> QED  BY <1>1, <1>2, OwnershipInvariant, PTL DEF Spec

\* A request is written to the origin it names (client.cpp:304-309, 395-398).
THEOREM RequestsReachTheirOrigin == Spec => []RightPeer
<1>1. Peers => RightPeer
  BY HandleAssumption
     DEF Peers, PeerOf, RightPeer, Ownership, Placement, ExchangePCs, At
<1> QED  BY <1>1, PeersInvariant, PTL

\* A retained connection carries nothing of an earlier exchange
\* (client.cpp:387-390).
THEOREM RequestsStartClean == Spec => []CleanBeforeWrite
<1>1. Peers => CleanBeforeWrite
  BY DEF Peers, PeerOf, CleanBeforeWrite
<1> QED  BY <1>1, PeersInvariant, PTL
===============================================================================
