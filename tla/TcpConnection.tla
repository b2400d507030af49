------------------------------ MODULE TcpConnection ------------------------------
(***************************************************************************)
(* TcpConnection (src/src/net/tcp_connection.cpp) with the platform layer  *)
(* under it: connect, write_all and read_some on one native socket, each   *)
(* with a timeout of its own.                                              *)
(*                                                                         *)
(* The clock runs in ticks of a fraction of a millisecond, because the     *)
(* code rounds what remains to whole milliseconds; it counts from the      *)
(* moment a call reads it first, and it may advance between any two steps: *)
(* the thread may be delayed anywhere.  The operating system may answer a  *)
(* call in every way the code tells apart.  The build is the POSIX one,    *)
(* and read_some's null buffer, which no caller passes, is left out.       *)
(***************************************************************************)
EXTENDS Integers, Sequences, FiniteSets

CONSTANTS Timeouts,     \* timeouts of callers, in milliseconds
          Sizes,        \* sizes of data and buffers
          EndpointLists,\* what the resolver returns: Endpoint::valid() of each
          Ms,           \* ticks in a millisecond
          MaxPoll,      \* the longest time poll takes, in milliseconds (INT_MAX)
          MaxElapsed    \* bound on the clock, for model checking

ASSUME ParameterAssumption ==
  /\ Timeouts \subseteq Nat /\ Sizes \subseteq Nat
  /\ EndpointLists \subseteq Seq(BOOLEAN)
  /\ Ms \in Nat \ {0} /\ MaxPoll \in Nat \ {0} /\ MaxElapsed \in Nat

VARIABLES
  open,      \* socket_ is valid (in connect: the socket of the attempt is)
  blocking,  \* the socket is in blocking mode
  pc,        \* where the call is, "idle" between calls
  call,      \* the call: operation, timeout, size of data or buffer, endpoints
  elapsed,   \* the clock since the call set its deadline
  remaining, \* the remaining time computed last, in milliseconds
  slip,      \* how late the poll in progress was entered after that
  until,     \* when the poll in progress gives up
  done,      \* total_written, or the bytes received
  todo,      \* connect: the endpoints not looked at yet
  tried,     \* connect: how many valid endpoints were looked at
  created,   \* created_socket
  result     \* what the last call returned

waits == <<remaining, slip, until>>
vars  == <<open, blocking, pc, call, elapsed, waits, done, todo, tried, created, result>>

Operations == {"connect", "write", "read"}
Calls      == [op: Operations, timeout: Timeouts, size: Sizes, endpoints: EndpointLists]
NoCall     == [op |-> "none", timeout |-> 0, size |-> 0, endpoints |-> <<>>]

TimeoutError == [connect |-> "ConnectTimeout", write |-> "WriteTimeout", read |-> "ReadTimeout"]
FailedError  == [write |-> "WriteFailed", read |-> "ReadFailed"]
Results == {"none", "ok", "ConnectTimeout", "ConnectFailed", "SocketCreateFailed",
            "WriteTimeout", "ReadTimeout", "WriteFailed", "ReadFailed", "ConnectionClosed"}

ConnectPCs  == {"endpoint", "budget", "attempt", "connecting"}
TransferPCs == {"check", "io", "budget", "poll", "wait", "finish"}
InPoll      == pc \in {"connecting", "wait"}

TypeOK ==
  /\ open \in BOOLEAN /\ blocking \in BOOLEAN /\ created \in BOOLEAN
  /\ pc \in {"idle"} \cup ConnectPCs \cup TransferPCs
  /\ call \in Calls \cup {NoCall}
  /\ elapsed \in Nat /\ remaining \in Nat /\ slip \in Nat /\ until \in Nat
  /\ done \in 0..call.size /\ tried \in Nat
  /\ todo \in Seq(BOOLEAN)
  /\ result \in Results

Init ==
  /\ open = FALSE /\ blocking = TRUE /\ created = FALSE
  /\ pc = "idle" /\ call = NoCall /\ result = "none"
  /\ elapsed = 0 /\ remaining = 0 /\ slip = 0 /\ until = 0 /\ done = 0 /\ tried = 0
  /\ todo = <<>>

-------------------------------------------------------------------------------
(* Time.                                                                   *)

Deadline == call.timeout * Ms

\* Fault: every wait gets the whole timeout.
RemainingWhole == IF elapsed >= Deadline THEN 0 ELSE call.timeout

\* remaining_timeout: rounded down to milliseconds, but never down to zero.
Remaining ==
  IF elapsed >= Deadline THEN 0
  ELSE IF (Deadline - elapsed) \div Ms = 0 THEN 1
  ELSE (Deadline - elapsed) \div Ms

\* Fault: poll takes milliseconds and is given ticks of the clock.
PollTicks == IF remaining <= MaxPoll THEN remaining ELSE MaxPoll

\* wait_socket: how long it polls.
PollTime == (IF remaining <= MaxPoll THEN remaining ELSE MaxPoll) * Ms

\* The bound on the clock cuts no poll short.
Tick ==
  /\ pc # "idle" /\ (elapsed < MaxElapsed \/ (InPoll /\ elapsed < until))
  /\ elapsed' = elapsed + 1
  /\ slip' = IF pc \in {"attempt", "poll"} THEN slip + 1 ELSE slip
  /\ UNCHANGED <<open, blocking, pc, call, remaining, until, done, todo, tried, created, result>>

-------------------------------------------------------------------------------
Goto(where) == pc' = where /\ UNCHANGED result
Return(r)   == pc' = "idle" /\ result' = r
\* The connection closes its socket before it returns the error.
Fail(e)     == Return(e) /\ open' = FALSE /\ UNCHANGED blocking

\* What every call sets, whatever becomes of it.
Begin(c) ==
  /\ pc = "idle"
  /\ call' = c /\ elapsed' = 0 /\ done' = 0 /\ remaining' = 0 /\ slip' = 0 /\ until' = 0
  /\ todo' = c.endpoints /\ tried' = 0 /\ created' = FALSE

\* connect, before its loop.
Connect(c) ==
  /\ c.op = "connect" /\ c.size = 0 /\ ~open
  /\ Begin(c)
  /\ \/ c.timeout = 0 /\ Return("ConnectTimeout")
     \/ c.timeout > 0 /\ c.endpoints = <<>> /\ Return("ConnectFailed")
     \/ c.timeout > 0 /\ c.endpoints # <<>> /\ Goto("endpoint")
  /\ UNCHANGED <<open, blocking>>

SkipInvalid ==
  /\ pc = "endpoint" /\ todo # <<>> /\ ~Head(todo)
  /\ todo' = Tail(todo)
  /\ UNCHANGED <<open, blocking, pc, call, elapsed, waits, done, tried, created, result>>

\* Fault: the first socket that cannot be created ends the search.
CreateGivesUp ==
  /\ pc = "endpoint" /\ todo # <<>> /\ Head(todo)
  /\ tried' = tried + 1
  /\ \/ /\ elapsed >= Deadline
        /\ Return("ConnectTimeout")
        /\ UNCHANGED <<open, blocking, created>>
     \/ /\ elapsed < Deadline
        /\ Return("SocketCreateFailed")
        /\ UNCHANGED <<open, blocking, created>>
     \/ /\ elapsed < Deadline
        /\ Goto("budget")
        /\ open' = TRUE /\ blocking' = TRUE /\ created' = TRUE
  /\ todo' = Tail(todo)
  /\ UNCHANGED <<call, elapsed, waits, done>>

\* The deadline is looked at before each socket; one that cannot be created is
\* passed over.
Create ==
  /\ pc = "endpoint" /\ todo # <<>> /\ Head(todo)
  /\ tried' = tried + 1
  /\ \/ /\ elapsed >= Deadline
        /\ Return("ConnectTimeout")
        /\ UNCHANGED <<open, blocking, created>>
     \/ /\ elapsed < Deadline
        /\ Goto("endpoint")
        /\ UNCHANGED <<open, blocking, created>>
     \/ /\ elapsed < Deadline
        /\ Goto("budget")
        /\ open' = TRUE /\ blocking' = TRUE /\ created' = TRUE
  /\ todo' = Tail(todo)
  /\ UNCHANGED <<call, elapsed, waits, done>>

\* No endpoint is left.
ConnectExhausted ==
  /\ pc = "endpoint" /\ todo = <<>>
  /\ Return(IF tried > 0 /\ ~created THEN "SocketCreateFailed" ELSE "ConnectFailed")
  /\ UNCHANGED <<open, blocking, call, elapsed, waits, done, todo, tried, created>>

\* What is left of the deadline, for the attempt or for a wait.
Budget ==
  /\ pc = "budget"
  /\ \/ Remaining = 0 /\ Fail(TimeoutError[call.op]) /\ UNCHANGED waits
     \/ /\ Remaining > 0
        /\ Goto(IF call.op = "connect" THEN "attempt" ELSE "poll")
        /\ remaining' = Remaining /\ slip' = 0
        /\ UNCHANGED <<open, blocking, until>>
  /\ UNCHANGED <<call, elapsed, done, todo, tried, created>>

EnterPoll == until' = elapsed + PollTime /\ UNCHANGED <<remaining, slip>>

\* The local socket of a failed attempt is closed and the next endpoint looked at.
AttemptFails == Goto("endpoint") /\ open' = FALSE /\ UNCHANGED <<blocking, waits>>
Connected    == Return("ok") /\ blocking' = TRUE /\ UNCHANGED <<open, waits>>

\* connect_with_timeout up to its wait: a failure (of the mode or of ::connect),
\* an immediate connection, or one in progress.
Attempt ==
  /\ pc = "attempt"
  /\ \/ AttemptFails
     \/ Connected
     \/ Goto("connecting") /\ blocking' = FALSE /\ EnterPoll /\ UNCHANGED open
  /\ UNCHANGED <<call, elapsed, done, todo, tried, created>>

\* Its wait.  A failure is one of poll (an interrupted one too), of the connection
\* or of setting the mode back.
ConnectWait ==
  /\ pc = "connecting"
  /\ \/ elapsed >= until /\ Fail("ConnectTimeout") /\ UNCHANGED waits
     \/ AttemptFails
     \/ Connected
  /\ UNCHANGED <<call, elapsed, done, todo, tried, created>>

-------------------------------------------------------------------------------
(* write_all and read_some.                                                *)

\* Before the loop.
Transfer(c) ==
  /\ c.op \in {"write", "read"} /\ c.endpoints = <<>>
  /\ Begin(c)
  /\ \/ ~open /\ Return("ConnectionClosed") /\ UNCHANGED <<open, blocking>>
     \/ open /\ c.size = 0 /\ Return("ok") /\ UNCHANGED <<open, blocking>>
     \/ open /\ c.size > 0 /\ c.timeout = 0 /\ Fail(TimeoutError[c.op])
     \/ open /\ c.size > 0 /\ c.timeout > 0 /\ Fail(FailedError[c.op])
     \/ /\ open /\ c.size > 0 /\ c.timeout > 0
        /\ Goto("check") /\ blocking' = FALSE /\ UNCHANGED open

\* Fault: the loop does not look at the clock.
CheckNothing ==
  /\ pc = "check"
  /\ Goto("io") /\ UNCHANGED <<open, blocking>>
  /\ UNCHANGED <<call, elapsed, waits, done, todo, tried, created>>

Check ==
  /\ pc = "check"
  /\ \/ elapsed >= Deadline /\ Fail(TimeoutError[call.op])
     \/ elapsed < Deadline /\ Goto("io") /\ UNCHANGED <<open, blocking>>
  /\ UNCHANGED <<call, elapsed, waits, done, todo, tried, created>>

\* Fault: one ::send is taken for the whole write.
MovesOnce ==
  /\ pc = "io"
  /\ \E n \in 1..(call.size - done) : done' = done + n
  /\ Goto("finish")
  /\ UNCHANGED <<open, blocking, call, elapsed, waits, todo, tried, created>>

\* Fault: each ::send is offered the whole data again.
MovesTooMuch ==
  /\ pc = "io"
  /\ \E n \in 1..call.size : done' = done + n
  /\ Goto(IF call.op = "read" \/ done' >= call.size THEN "finish" ELSE "check")
  /\ UNCHANGED <<open, blocking, call, elapsed, waits, todo, tried, created>>

\* ::send or ::recv moves some bytes; write_all goes on until it has sent all.
Moves ==
  /\ pc = "io"
  /\ \E n \in 1..(call.size - done) : done' = done + n
  /\ Goto(IF call.op = "read" \/ done' = call.size THEN "finish" ELSE "check")
  /\ UNCHANGED <<open, blocking, call, elapsed, waits, todo, tried, created>>

\* It does not: interrupted, the end of the stream or a reset, another error, or
\* it would block.
MovesNothing ==
  /\ pc = "io"
  /\ \/ Goto("check") /\ UNCHANGED <<open, blocking>>
     \/ Fail("ConnectionClosed")
     \/ Fail(FailedError[call.op])
     \/ Goto("budget") /\ UNCHANGED <<open, blocking>>
  /\ UNCHANGED <<call, elapsed, waits, done, todo, tried, created>>

Poll ==
  /\ pc = "poll"
  /\ Goto("wait") /\ EnterPoll
  /\ UNCHANGED <<open, blocking, call, elapsed, done, todo, tried, created>>

\* Fault: the socket is left open when poll times out.
WaitLeavesOpen ==
  /\ pc = "wait"
  /\ \/ Goto("check") /\ UNCHANGED <<open, blocking>>
     \/ elapsed >= until /\ Return(TimeoutError[call.op]) /\ UNCHANGED <<open, blocking>>
     \/ Fail("ConnectionClosed")
     \/ Fail(FailedError[call.op])
  /\ UNCHANGED <<call, elapsed, waits, done, todo, tried, created>>

\* poll: ready or interrupted, timed out, or failed.
Wait ==
  /\ pc = "wait"
  /\ \/ Goto("check") /\ UNCHANGED <<open, blocking>>
     \/ elapsed >= until /\ Fail(TimeoutError[call.op])
     \/ Fail("ConnectionClosed")
     \/ Fail(FailedError[call.op])
  /\ UNCHANGED <<call, elapsed, waits, done, todo, tried, created>>

\* Fault: the mode is not set back.
FinishNonblocking ==
  /\ pc = "finish"
  /\ Return("ok") /\ UNCHANGED <<open, blocking>>
  /\ UNCHANGED <<call, elapsed, waits, done, todo, tried, created>>

\* The mode is set back, or else the connection is given up, bytes that were
\* received included.
Finish ==
  /\ pc = "finish"
  /\ \/ Return("ok") /\ blocking' = TRUE /\ UNCHANGED open
     \/ Fail(FailedError[call.op])
  /\ UNCHANGED <<call, elapsed, waits, done, todo, tried, created>>

\* The object is closed, or its handle released to be kept by the Client; a kept
\* handle is adopted later in the state it is in.
Close ==
  /\ pc = "idle" /\ open
  /\ open' = FALSE
  /\ UNCHANGED <<blocking, pc, call, elapsed, waits, done, todo, tried, created, result>>

-------------------------------------------------------------------------------
Step ==
  \/ SkipInvalid \/ Create \/ ConnectExhausted \/ Attempt \/ ConnectWait
  \/ Budget \/ Check \/ Moves \/ MovesNothing \/ Poll \/ Wait \/ Finish

Next == Step \/ Tick \/ Close \/ \E c \in Calls : Connect(c) \/ Transfer(c)

Spec == Init /\ [][Next]_vars
\* The thread of a call runs on, poll returns when its time is over, and time
\* passes.  Nothing is assumed of what the system calls return, and poll may return
\* for no other reason than its time: the peer may be silent for ever.
Runs     == Step /\ (InPoll => elapsed >= until)
FairSpec == Spec /\ WF_vars(Runs) /\ WF_vars(Tick)

-------------------------------------------------------------------------------
(* Properties.                                                             *)

Errors == Results \ {"none", "ok"}

\* Between calls an open socket is in blocking mode, whatever the calls before
\* did with it and however they ended, so that a kept connection is like new.
BlockingBetweenCalls == pc = "idle" /\ open => blocking

\* A call that reports an error leaves no open socket: nothing more is written on
\* a connection whose stream is broken off in the middle.
FailureCloses == pc = "idle" /\ result \in Errors => ~open

\* Success means the whole operation: all bytes written, or at least one byte read.
\* Of connect it says that an endpoint was tried and no more: whether one is
\* connected, ::connect and SO_ERROR tell, and the model takes their word.
SuccessIsWhole ==
  pc = "idle" /\ result = "ok" =>
    CASE call.op = "write"   -> done = call.size
      [] call.op = "read"    -> call.size > 0 => done > 0
      [] call.op = "connect" -> tried > 0

\* No wait lasts a millisecond or more beyond the deadline of the call, over any
\* number of waits and endpoints, but for the delay of entering it.
WaitsEndOnTime == InPoll => until < Deadline + Ms + slip

\* A timeout is not reported a millisecond or more before its time, unless it is
\* one that poll cannot wait for.
TimeoutsNotEarly ==
  pc = "idle" /\ call.timeout <= MaxPoll
    /\ result \in {"ConnectTimeout", "WriteTimeout", "ReadTimeout"}
    => elapsed > Deadline - Ms

\* connect fails for good only after it has looked at every valid endpoint.
ConnectTriesAll ==
  pc = "idle" /\ call.op = "connect" /\ call.timeout > 0
    /\ result \in {"ConnectFailed", "SocketCreateFailed"}
    => tried = Cardinality({i \in 1..Len(call.endpoints) : call.endpoints[i]})

\* Every call returns, even to a peer that never answers and under any number of
\* interrupted system calls and false wakeups.
CallsReturn == pc # "idle" ~> pc = "idle"
===============================================================================
