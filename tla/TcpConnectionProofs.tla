--------------------------- MODULE TcpConnectionProofs ---------------------------
(***************************************************************************)
(* Proofs about TcpConnection, for all timeouts, sizes and endpoints, any  *)
(* resolution of the clock and any limit of poll.                          *)
(***************************************************************************)
EXTENDS TcpConnection, SequenceTheorems, FiniteSetTheorems, TLAPS

\* At each place of a call: which operation it is, and that a socket is open,
\* or is not yet.
Places ==
  /\ pc # "idle" => call \in Calls
  /\ call.op \notin Operations => result = "none"
  /\ pc \in {"endpoint", "attempt", "connecting"} => call.op = "connect"
  /\ pc \in TransferPCs \ {"budget"} => call.op \in {"write", "read"}
  /\ pc = "endpoint" => ~open
  /\ pc \notin {"idle", "endpoint"} => open

\* The socket of an attempt is as it was created.
Modes ==
  /\ BlockingBetweenCalls
  /\ FailureCloses

\* What an operation has done at the place where it can only succeed.
Progress ==
  /\ pc = "idle" /\ result = "ok" =>
       /\ call.op = "write" => done = call.size
       /\ call.op = "read" /\ call.size > 0 => done > 0
       /\ call.op = "connect" => tried > 0
  /\ pc = "finish" => done > 0 /\ (call.op = "write" => done = call.size)
  /\ pc \notin {"idle", "endpoint"} /\ call.op = "connect" => tried > 0

\* What a wait was granted is right to a millisecond when it is computed, and so
\* is the end of the poll.
Granted == remaining * Ms
Timing ==
  /\ WaitsEndOnTime
  /\ TimeoutsNotEarly
  /\ pc \in {"attempt", "poll"} =>
       /\ elapsed + Granted < Deadline + Ms + slip
       /\ elapsed + Granted > Deadline - Ms
       /\ remaining <= call.timeout
  /\ InPoll /\ call.timeout <= MaxPoll => until > Deadline - Ms

-------------------------------------------------------------------------------
(* Arithmetic.                                                             *)

\* A whole number of m fits into a, and one more does not.
LEMMA Division ==
  ASSUME NEW a \in Nat, NEW m \in Nat \ {0}
  PROVE  /\ a \div m \in Nat
         /\ (a \div m) * m <= a
         /\ (a \div m) * m > a - m
BY SMT

\* Products are ordered as their first factors are.
LEMMA Product ==
  ASSUME NEW m \in Nat \ {0}, NEW a \in Nat, NEW b \in Nat
  PROVE  /\ a * m \in Nat
         /\ a <= b => a * m <= b * m
         /\ a * m <= b * m => a <= b
BY SMT

-------------------------------------------------------------------------------
(* Types and places.                                                       *)

\* A call under way is one of the three operations, on numbers.
LEMMA CallTypes ==
  ASSUME NEW c \in Calls
  PROVE  /\ c.op \in Operations /\ c.timeout \in Nat /\ c.size \in Nat
         /\ c.endpoints \in Seq(BOOLEAN) /\ c # NoCall
<1>1. c.op \in Operations /\ c.timeout \in Timeouts /\ c.size \in Sizes
      /\ c.endpoints \in EndpointLists
  BY DEF Calls
<1>2. c # NoCall
  BY <1>1 DEF NoCall, Operations
<1> QED  BY <1>1, <1>2, ParameterAssumption

\* The errors that an operation reports.
LEMMA ErrorNames ==
  ASSUME NEW op \in Operations
  PROVE  /\ TimeoutError[op] \in {"ConnectTimeout", "WriteTimeout", "ReadTimeout"}
         /\ op # "connect" => FailedError[op] \in {"WriteFailed", "ReadFailed"}
BY DEF Operations, TimeoutError, FailedError

\* Deadlines and the times of waits are natural numbers.
LEMMA Times ==
  ASSUME TypeOK
  PROVE  /\ call.timeout \in Nat /\ call.size \in Nat /\ Deadline \in Nat
         /\ Granted \in Nat /\ PollTime \in Nat
         /\ PollTime <= Granted /\ (remaining <= MaxPoll => PollTime = Granted)
<1>1. call.timeout \in Nat /\ call.size \in Nat
  BY CallTypes DEF TypeOK, NoCall
<1>2. remaining \in Nat /\ Ms \in Nat \ {0} /\ MaxPoll \in Nat
  BY ParameterAssumption DEF TypeOK
<1>3. CASE remaining <= MaxPoll
  <2>1. PollTime = Granted
    BY <1>3 DEF PollTime, Granted
  <2> QED  BY <1>1, <1>2, <2>1, Product DEF Deadline, Granted
<1>4. CASE ~(remaining <= MaxPoll)
  <2>1. PollTime = MaxPoll * Ms
    BY <1>4 DEF PollTime
  <2> QED  BY <1>1, <1>2, <1>4, <2>1, Product DEF Deadline, Granted
<1> QED  BY <1>3, <1>4

\* remaining_timeout is zero only when the deadline has passed, and otherwise right
\* to a millisecond.
LEMMA RemainingRight ==
  ASSUME TypeOK
  PROVE  /\ Remaining \in Nat
         /\ Remaining = 0 => elapsed >= Deadline
         /\ Remaining > 0 =>
              /\ elapsed + Remaining * Ms < Deadline + Ms
              /\ elapsed + Remaining * Ms > Deadline - Ms
              /\ Remaining <= call.timeout
<1> DEFINE left == Deadline - elapsed
           whole == left \div Ms
<1>1. Deadline \in Nat /\ call.timeout \in Nat /\ elapsed \in Nat /\ Ms \in Nat \ {0}
  BY Times, ParameterAssumption DEF TypeOK
<1>2. CASE elapsed >= Deadline
  BY <1>1, <1>2 DEF Remaining
<1>3. CASE elapsed < Deadline
  <2>1. left \in Nat /\ left > 0 /\ left <= Deadline
    BY <1>1, <1>3
  <2>2. whole \in Nat /\ whole * Ms <= left /\ whole * Ms > left - Ms /\ whole * Ms \in Nat
    BY <1>1, <2>1, Division, Product
  <2>3. CASE whole = 0
    <3>1. Remaining = 1 /\ Remaining * Ms = Ms
      BY <1>1, <1>3, <2>3 DEF Remaining
    <3>2. left < Ms
      BY <1>1, <2>1, <2>2, <2>3
    <3>3. call.timeout # 0
      BY <1>1, <1>3, Product DEF Deadline
    <3> QED  BY <1>1, <1>3, <3>1, <3>2, <3>3
  <2>4. CASE whole # 0
    <3>1. Remaining = whole
      BY <1>1, <1>3, <2>4 DEF Remaining
    <3>2. whole * Ms <= call.timeout * Ms
      BY <1>1, <2>1, <2>2 DEF Deadline
    <3>3. whole <= call.timeout
      BY <1>1, <2>2, <3>2, Product
    <3> HIDE DEF whole
    <3> QED  BY <1>1, <1>3, <2>1, <2>2, <2>4, <3>1, <3>3
  <2> QED  BY <2>3, <2>4
<1> QED  BY <1>1, <1>2, <1>3

Placed == TypeOK /\ Places

LEMMA PlacedInitially == Init => Placed
<1> SUFFICES ASSUME Init PROVE Placed
  OBVIOUS
<1>1. call = NoCall /\ call.op = "none" /\ call.size = 0
  BY DEF Init, NoCall
<1>2. todo \in Seq(BOOLEAN) /\ done \in 0..call.size
  BY <1>1 DEF Init
<1>3. pc = "idle" /\ result = "none" /\ open = FALSE
  BY DEF Init
<1>4. TypeOK
  BY <1>1, <1>2, <1>3 DEF Init, TypeOK, Results
<1>5. Places
  BY <1>1, <1>3 DEF Places, ConnectPCs, TransferPCs, Operations
<1> QED  BY <1>4, <1>5 DEF Placed

\* A call begins.
LEMMA BeginPlaced ==
  ASSUME Placed, NEW c \in Calls, Begin(c)
  PROVE  /\ call' \in Calls /\ elapsed' = 0 /\ tried' = 0
         /\ elapsed' \in Nat /\ remaining' \in Nat /\ slip' \in Nat /\ until' \in Nat
         /\ done' \in 0..call'.size /\ tried' \in Nat /\ todo' \in Seq(BOOLEAN)
         /\ created' \in BOOLEAN
<1>1. call' = c /\ done' = 0 /\ todo' = c.endpoints
  BY DEF Begin
<1>2. done' \in 0..call'.size /\ todo' \in Seq(BOOLEAN)
  BY <1>1, CallTypes
<1> QED  BY <1>1, <1>2 DEF Begin

LEMMA PlacedStep == Placed /\ [Next]_vars => Placed'
<1> SUFFICES ASSUME Placed, [Next]_vars PROVE Placed'
  OBVIOUS
<1> USE DEF Placed
<1>1. call.size \in Nat /\ Deadline \in Nat /\ PollTime \in Nat /\ Remaining \in Nat
  BY Times, RemainingRight
<1>2. pc # "idle" => call \in Calls /\ call.op \in Operations
  BY CallTypes DEF Places
<1>3. pc # "idle" => TimeoutError[call.op] \in Results \ {"none", "ok"}
  BY <1>2, ErrorNames DEF Results
<1>4. pc # "idle" /\ call.op # "connect" => FailedError[call.op] \in Results \ {"none", "ok"}
  BY <1>2, ErrorNames DEF Results
<1> USE DEF TypeOK, Places, waits, ConnectPCs, TransferPCs
<1>5. CASE UNCHANGED vars
  BY <1>5 DEF vars
<1>6. CASE Tick
  BY <1>6 DEF Tick
<1>7. CASE SkipInvalid
  <2>1. todo' \in Seq(BOOLEAN)
    BY <1>7, HeadTailProperties DEF SkipInvalid
  <2>2. UNCHANGED <<open, blocking, pc, call, elapsed, waits, done, tried, created, result>>
    BY <1>7 DEF SkipInvalid
  <2> QED  BY <2>1, <2>2
<1>8. CASE Create
  <2>0. pc = "endpoint" /\ todo # <<>> /\ todo' = Tail(todo) /\ tried' = tried + 1
    BY <1>8 DEF Create
  <2>1. todo' \in Seq(BOOLEAN) /\ tried' \in Nat
    BY <2>0, HeadTailProperties
  <2>2. UNCHANGED <<call, elapsed, waits, done>>
    BY <1>8 DEF Create
  <2>3. CASE pc' = "idle" /\ result' = "ConnectTimeout" /\ UNCHANGED <<open, blocking, created>>
    BY <2>0, <2>1, <2>2, <2>3, <1>2 DEF Results
  <2>4. CASE pc' = "endpoint" /\ UNCHANGED <<open, blocking, created, result>>
    BY <2>0, <2>1, <2>2, <2>4, <1>2
  <2>5. CASE pc' = "budget" /\ open' = TRUE /\ blocking' = TRUE /\ created' = TRUE /\ result' = result
    BY <2>0, <2>1, <2>2, <2>5, <1>2
  <2> QED  BY <1>8, <2>3, <2>4, <2>5 DEF Create, Goto, Return
<1>9. CASE ConnectExhausted
  <2>1. pc = "endpoint" /\ pc' = "idle"
        /\ UNCHANGED <<open, blocking, call, elapsed, waits, done, todo, tried, created>>
    BY <1>9 DEF ConnectExhausted, Return
  <2>2. result' \in {"SocketCreateFailed", "ConnectFailed"}
    BY <1>9 DEF ConnectExhausted, Return
  <2> QED  BY <2>1, <2>2, <1>2 DEF Results
<1>10. CASE Attempt
  <2>1. pc = "attempt" /\ UNCHANGED <<call, elapsed, done, todo, tried, created>>
    BY <1>10 DEF Attempt
  <2>2. CASE AttemptFails
    BY <2>1, <2>2, <1>2 DEF AttemptFails, Goto
  <2>3. CASE Connected
    BY <2>1, <2>3, <1>2 DEF Connected, Return, Results
  <2>4. CASE Goto("connecting") /\ blocking' = FALSE /\ EnterPoll /\ UNCHANGED open
    <3>1. until' \in Nat /\ UNCHANGED <<remaining, slip>>
      BY <2>4, <1>1 DEF EnterPoll
    <3>2. pc' = "connecting" /\ blocking' = FALSE /\ UNCHANGED <<open, result>>
      BY <2>4 DEF Goto
    <3> QED  BY <2>1, <3>1, <3>2, <1>2
  <2> QED  BY <1>10, <2>2, <2>3, <2>4 DEF Attempt
<1>11. CASE ConnectWait
  <2>1. pc = "connecting" /\ UNCHANGED <<call, elapsed, done, todo, tried, created>>
    BY <1>11 DEF ConnectWait
  <2>2. CASE AttemptFails
    BY <2>1, <2>2, <1>2 DEF AttemptFails, Goto
  <2>3. CASE Connected
    BY <2>1, <2>3, <1>2 DEF Connected, Return, Results
  <2>4. CASE Fail("ConnectTimeout") /\ UNCHANGED waits
    BY <2>1, <2>4, <1>2 DEF Fail, Return, Results
  <2> QED  BY <1>11, <2>2, <2>3, <2>4 DEF ConnectWait
<1>12. CASE Budget
  <2>1. pc = "budget" /\ UNCHANGED <<call, elapsed, done, todo, tried, created>>
    BY <1>12 DEF Budget
  <2>2. CASE Fail(TimeoutError[call.op]) /\ UNCHANGED waits
    BY <2>1, <2>2, <1>2, <1>3 DEF Fail, Return
  <2>3. CASE /\ Goto(IF call.op = "connect" THEN "attempt" ELSE "poll")
             /\ remaining' = Remaining /\ slip' = 0 /\ UNCHANGED <<open, blocking, until>>
    <3>1. CASE call.op = "connect"
      BY <2>1, <2>3, <3>1, <1>1, <1>2 DEF Goto
    <3>2. CASE call.op # "connect"
      BY <2>1, <2>3, <3>2, <1>1, <1>2 DEF Goto, Operations
    <3> QED  BY <3>1, <3>2
  <2> QED  BY <1>12, <2>2, <2>3 DEF Budget
<1>13. CASE Check
  BY <1>13, <1>2, <1>3 DEF Check, Fail, Goto, Return
<1>14. CASE Moves
  BY <1>14, <1>1, <1>2 DEF Moves, Goto
<1>15. CASE MovesNothing
  BY <1>15, <1>2, <1>4 DEF MovesNothing, Fail, Goto, Return, Results
<1>16. CASE Poll
  BY <1>16, <1>1, <1>2 DEF Poll, EnterPoll, Goto
<1>17. CASE Wait
  BY <1>17, <1>2, <1>3, <1>4 DEF Wait, Fail, Goto, Return, Results
<1>18. CASE Finish
  BY <1>18, <1>2, <1>4 DEF Finish, Fail, Goto, Return, Results
<1>19. CASE Close
  BY <1>19 DEF Close
<1>20. ASSUME NEW c \in Calls, Connect(c) PROVE Placed'
  BY <1>20, BeginPlaced, CallTypes DEF Connect, Begin, Goto, Return, Results
<1>21. ASSUME NEW c \in Calls, Transfer(c) PROVE Placed'
  <2>1. Begin(c) /\ call' = c /\ c.op \in {"write", "read"}
    BY <1>21 DEF Transfer, Begin
  <2>2. TimeoutError[c.op] \in Results /\ FailedError[c.op] \in Results
    BY <2>1, ErrorNames DEF Operations, Results
  <2>3. CASE pc' = "idle" /\ result' \in Results /\ open' \in BOOLEAN /\ blocking' \in BOOLEAN
    BY <2>1, <2>3, BeginPlaced, CallTypes
  <2>4. CASE open /\ Goto("check") /\ blocking' = FALSE /\ UNCHANGED open
    BY <2>1, <2>4, BeginPlaced, CallTypes DEF Goto
  <2> QED  BY <1>21, <2>2, <2>3, <2>4 DEF Transfer, Return, Fail, Results
<1> QED
  BY <1>5, <1>6, <1>7, <1>8, <1>9, <1>10, <1>11, <1>12, <1>13, <1>14, <1>15, <1>16, <1>17,
     <1>18, <1>19, <1>20, <1>21 DEF Next, Step

LEMMA PlacedInvariant == Spec => []Placed
BY PlacedInitially, PlacedStep, PTL DEF Spec

\* The state of a call is typed: what is done never exceeds what was asked for
\* (the arithmetic of total_written in write_all).
THEOREM TypeCorrect == Spec => []TypeOK
<1>1. Placed => TypeOK
  BY DEF Placed
<1> QED  BY <1>1, PlacedInvariant, PTL

-------------------------------------------------------------------------------
(* Modes and errors.                                                       *)

LEMMA ModesInitially == Init => Modes
BY DEF Init, Modes, BlockingBetweenCalls, FailureCloses, Errors

\* Only a step to "idle" or one there matters.
LEMMA ModesStep == Placed /\ Modes /\ [Next]_vars => Modes'
<1> SUFFICES ASSUME Placed, Modes, [Next]_vars PROVE Modes'
  OBVIOUS
<1> USE DEF Placed, Places, Modes, BlockingBetweenCalls, FailureCloses, Errors, Goto, Return, Fail
<1>1. CASE pc # "idle" /\ Tick
  BY <1>1 DEF Tick
<1>2. CASE SkipInvalid
  BY <1>2 DEF SkipInvalid
<1>3. CASE Create
  <2>1. ~open
    BY <1>3 DEF Create
  <2>2. (pc' = "idle" /\ UNCHANGED open) \/ pc' # "idle"
    BY <1>3 DEF Create
  <2> QED  BY <2>1, <2>2
<1>4. CASE ConnectExhausted
  BY <1>4 DEF ConnectExhausted
<1>5. CASE Attempt
  BY <1>5 DEF Attempt, AttemptFails, Connected
<1>6. CASE ConnectWait
  BY <1>6 DEF ConnectWait, AttemptFails, Connected
<1>7. CASE Budget
  BY <1>7 DEF Budget
<1>8. CASE Check
  BY <1>8 DEF Check
<1>9. CASE Moves
  BY <1>9 DEF Moves
<1>10. CASE MovesNothing
  BY <1>10 DEF MovesNothing
<1>11. CASE Poll
  BY <1>11 DEF Poll
<1>12. CASE Wait
  BY <1>12 DEF Wait
<1>13. CASE Finish
  BY <1>13 DEF Finish
<1>14. CASE Close
  BY <1>14 DEF Close
<1>15. ASSUME NEW c \in Calls, Connect(c) PROVE Modes'
  BY <1>15 DEF Connect
<1>16. ASSUME NEW c \in Calls, Transfer(c) PROVE Modes'
  BY <1>16 DEF Transfer, Begin
<1>17. CASE UNCHANGED vars
  BY <1>17 DEF vars
<1> QED
  BY <1>1, <1>2, <1>3, <1>4, <1>5, <1>6, <1>7, <1>8, <1>9, <1>10, <1>11, <1>12, <1>13,
     <1>14, <1>15, <1>16, <1>17 DEF Next, Step, Tick

LEMMA ModesInvariant == Spec => []Modes
BY ModesInitially, PlacedInvariant, ModesStep, PTL DEF Spec

\* Between calls an open socket is in blocking mode, so that a kept connection is
\* like new (write_all, read_some, connect_with_timeout).
THEOREM SocketsAreBlocking == Spec => []BlockingBetweenCalls
<1>1. Modes => BlockingBetweenCalls
  BY DEF Modes
<1> QED  BY <1>1, ModesInvariant, PTL

\* An error leaves no open socket (close_for_error and its callers).
THEOREM FailuresClose == Spec => []FailureCloses
<1>1. Modes => FailureCloses
  BY DEF Modes
<1> QED  BY <1>1, ModesInvariant, PTL

-------------------------------------------------------------------------------
(* Success.                                                                *)

LEMMA ProgressInitially == Init => Progress
BY DEF Init, Progress

LEMMA ProgressStep == Placed /\ Progress /\ [Next]_vars => Progress'
<1> SUFFICES ASSUME Placed, Progress, [Next]_vars PROVE Progress'
  OBVIOUS
<1>1. call.size \in Nat /\ tried \in Nat /\ done \in Nat /\ done <= call.size
  BY Times DEF Placed, TypeOK
<1>2. pc # "idle" => call.op \in Operations
  BY CallTypes DEF Placed, Places
<1>3. pc # "idle" => TimeoutError[call.op] # "ok"
  BY <1>2, ErrorNames
<1>4. pc # "idle" /\ call.op # "connect" => FailedError[call.op] # "ok"
  BY <1>2, ErrorNames
<1> USE DEF Progress, Goto, Return, Fail
<1>5. CASE Tick
  BY <1>5 DEF Tick
<1>6. CASE SkipInvalid
  BY <1>6 DEF SkipInvalid
<1>7. CASE Create
  <2>1. pc = "endpoint" /\ tried' = tried + 1 /\ UNCHANGED <<call, done>>
    BY <1>7 DEF Create
  <2>2. pc' # "finish" /\ (pc' = "idle" => result' # "ok")
    BY <1>7 DEF Create
  <2> QED  BY <2>1, <2>2, <1>1
<1>8. CASE ConnectExhausted
  BY <1>8 DEF ConnectExhausted
<1>9. CASE Attempt
  BY <1>9, <1>1 DEF Attempt, AttemptFails, Connected, Placed, Places
<1>10. CASE ConnectWait
  BY <1>10, <1>1 DEF ConnectWait, AttemptFails, Connected, Placed, Places
<1>11. CASE Budget
  BY <1>11, <1>3 DEF Budget
<1>12. CASE Check
  BY <1>12, <1>3 DEF Check
<1>13. CASE Moves
  <2>1. PICK n \in 1..(call.size - done) : done' = done + n
    BY <1>13 DEF Moves
  <2>2. done' > 0
    BY <2>1, <1>1
  <2>3. pc' \in {"finish", "check"} /\ (pc' = "finish" /\ call.op # "read" => done' = call.size)
    BY <1>13 DEF Moves
  <2>4. UNCHANGED <<call, tried>> /\ pc = "io"
    BY <1>13 DEF Moves
  <2> QED  BY <2>2, <2>3, <2>4
<1>14. CASE MovesNothing
  BY <1>14, <1>4 DEF MovesNothing, Placed, Places, TransferPCs
<1>15. CASE Poll
  BY <1>15 DEF Poll
<1>16. CASE Wait
  BY <1>16, <1>3, <1>4 DEF Wait, Placed, Places, TransferPCs
<1>17. CASE Finish
  BY <1>17, <1>4 DEF Finish, Placed, Places, TransferPCs
<1>18. CASE Close
  BY <1>18 DEF Close
<1>19. ASSUME NEW c \in Calls, Connect(c) PROVE Progress'
  BY <1>19 DEF Connect, Begin
<1>20. ASSUME NEW c \in Calls, Transfer(c) PROVE Progress'
  <2>1. call' = c /\ c.op \in {"write", "read"} /\ done' = 0
    BY <1>20 DEF Transfer, Begin
  <2>2. TimeoutError[c.op] # "ok" /\ FailedError[c.op] # "ok"
    BY <2>1, ErrorNames DEF Operations
  <2>3. pc' # "finish" /\ (pc' = "idle" /\ result' = "ok" => c.size = 0)
    BY <1>20, <2>2 DEF Transfer
  <2> QED  BY <2>1, <2>3
<1>21. CASE UNCHANGED vars
  BY <1>21 DEF vars
<1> QED
  BY <1>5, <1>6, <1>7, <1>8, <1>9, <1>10, <1>11, <1>12, <1>13, <1>14, <1>15, <1>16, <1>17,
     <1>18, <1>19, <1>20, <1>21 DEF Next, Step

\* A call that reports success has done all it was asked for (the loops of
\* write_all and read_some, connect).
THEOREM SuccessesAreWhole == Spec => []SuccessIsWhole
<1>1. Placed /\ Progress => SuccessIsWhole
  BY DEF Placed, Places, Operations, Progress, SuccessIsWhole
<1>2. Spec => []Progress
  BY ProgressInitially, PlacedInvariant, ProgressStep, PTL DEF Spec
<1> QED  BY <1>1, <1>2, PlacedInvariant, PTL

-------------------------------------------------------------------------------
(* Deadlines.                                                              *)

LEMMA TimingInitially == Init => Timing
BY DEF Init, Timing, WaitsEndOnTime, TimeoutsNotEarly, InPoll

\* A poll that is entered with what was granted.
LEMMA PollRight ==
  ASSUME Placed, Timing, pc \in {"attempt", "poll"}, EnterPoll,
         UNCHANGED <<call, elapsed>>
  PROVE  /\ until' < Deadline' + Ms + slip'
         /\ call'.timeout <= MaxPoll => until' > Deadline' - Ms
<1>1. until' = elapsed + PollTime /\ slip' = slip /\ Deadline' = Deadline /\ call' = call
  BY DEF EnterPoll, Deadline
<1>2. /\ elapsed + Granted < Deadline + Ms + slip
      /\ elapsed + Granted > Deadline - Ms
      /\ remaining <= call.timeout
  BY DEF Timing
<1>3. /\ elapsed \in Nat /\ slip \in Nat /\ remaining \in Nat /\ call.timeout \in Nat
      /\ Ms \in Nat /\ MaxPoll \in Nat
  BY Times, ParameterAssumption DEF Placed, TypeOK
<1>4. /\ PollTime \in Nat /\ Granted \in Nat /\ Deadline \in Nat
      /\ PollTime <= Granted /\ (remaining <= MaxPoll => PollTime = Granted)
  BY Times DEF Placed
<1>5. until' < Deadline' + Ms + slip'
  BY <1>1, <1>2, <1>3, <1>4
<1>6. ASSUME call'.timeout <= MaxPoll PROVE until' > Deadline' - Ms
  <2>1. remaining <= MaxPoll
    BY <1>1, <1>2, <1>3, <1>6
  <2> QED  BY <1>1, <1>2, <1>4, <2>1
<1> QED  BY <1>5, <1>6

\* A step that changes no time and neither enters nor stays in a wait; if it
\* returns a timeout, the deadline has passed, as far as poll can tell.
LEMMA NoWait ==
  ASSUME Placed, UNCHANGED <<call, elapsed>>,
         pc' \notin {"attempt", "poll", "connecting", "wait"},
         pc' = "idle" /\ result' \in {"ConnectTimeout", "WriteTimeout", "ReadTimeout"}
           => (call.timeout <= MaxPoll => elapsed > Deadline - Ms)
  PROVE  Timing'
BY DEF Timing, WaitsEndOnTime, TimeoutsNotEarly, InPoll, Deadline

LEMMA TimingStep == Placed /\ Timing /\ [Next]_vars => Timing'
<1> SUFFICES ASSUME Placed, Timing, [Next]_vars PROVE Timing'
  OBVIOUS
<1> DEFINE Timely == call.timeout <= MaxPoll => elapsed > Deadline - Ms
           Timeout(r) == r \in {"ConnectTimeout", "WriteTimeout", "ReadTimeout"}
<1>1. elapsed \in Nat /\ slip \in Nat /\ Deadline \in Nat /\ Ms \in Nat \ {0} /\ until \in Nat
      /\ Granted \in Nat
  BY Times, ParameterAssumption DEF Placed, TypeOK
<1>2. elapsed >= Deadline => Timely
  BY <1>1
<1>3. InPoll /\ elapsed >= until => Timely
  BY <1>1 DEF Timing
<1>4. pc # "idle" /\ call.op # "connect" => ~Timeout(FailedError[call.op])
  BY CallTypes, ErrorNames DEF Placed, Places
<1> HIDE DEF Timely
<1> USE DEF Goto, Return, Fail
<1>5. CASE Tick
  <2>1. elapsed' = elapsed + 1 /\ pc # "idle"
        /\ UNCHANGED <<pc, call, remaining, until>>
        /\ slip' = IF pc \in {"attempt", "poll"} THEN slip + 1 ELSE slip
    BY <1>5 DEF Tick
  <2>2. Deadline' = Deadline /\ Granted' = Granted
    BY <2>1 DEF Deadline, Granted
  <2> QED  BY <2>1, <2>2, <1>1 DEF Timing, WaitsEndOnTime, TimeoutsNotEarly, InPoll
<1>6. CASE SkipInvalid
  BY <1>6, NoWait DEF SkipInvalid
<1>7. CASE Create
  <2>1. UNCHANGED <<call, elapsed>> /\ pc' \in {"idle", "endpoint", "budget"}
    BY <1>7 DEF Create
  <2>2. pc' = "idle" => Timely
    BY <1>7, <1>2 DEF Create
  <2> QED  BY <2>1, <2>2, NoWait DEF Timely
<1>8. CASE ConnectExhausted
  BY <1>8, NoWait DEF ConnectExhausted
<1>9. CASE Attempt
  <2>1. UNCHANGED <<call, elapsed>> /\ pc = "attempt"
    BY <1>9 DEF Attempt
  <2>2. CASE AttemptFails
    BY <2>1, <2>2, NoWait DEF AttemptFails
  <2>3. CASE Connected
    BY <2>1, <2>3, NoWait DEF Connected
  <2>4. CASE pc' = "connecting" /\ EnterPoll
    BY <2>1, <2>4, PollRight DEF Timing, WaitsEndOnTime, TimeoutsNotEarly, InPoll
  <2> QED  BY <1>9, <2>2, <2>3, <2>4 DEF Attempt
<1>10. CASE ConnectWait
  <2>1. UNCHANGED <<call, elapsed>> /\ pc = "connecting"
    BY <1>10 DEF ConnectWait
  <2>2. CASE elapsed >= until /\ Fail("ConnectTimeout")
    BY <2>1, <2>2, <1>3, NoWait DEF InPoll, Timely
  <2>3. CASE AttemptFails
    BY <2>1, <2>3, NoWait DEF AttemptFails
  <2>4. CASE Connected
    BY <2>1, <2>4, NoWait DEF Connected
  <2> QED  BY <1>10, <2>2, <2>3, <2>4 DEF ConnectWait
<1>11. CASE Budget
  <2>1. UNCHANGED <<call, elapsed>>
    BY <1>11 DEF Budget
  <2>2. CASE Remaining = 0 /\ Fail(TimeoutError[call.op])
    <3>1. Timely
      BY <2>2, <1>2, RemainingRight DEF Placed
    <3> QED  BY <2>1, <2>2, <3>1, NoWait DEF Timely
  <2>3. CASE Remaining > 0 /\ pc' \in {"attempt", "poll"} /\ remaining' = Remaining /\ slip' = 0
    <3>1. /\ elapsed + Remaining * Ms < Deadline + Ms
          /\ elapsed + Remaining * Ms > Deadline - Ms
          /\ Remaining <= call.timeout
      BY <2>3, RemainingRight DEF Placed
    <3>2. Granted' = Remaining * Ms /\ Deadline' = Deadline /\ elapsed' = elapsed /\ call' = call
      BY <2>1, <2>3 DEF Granted, Deadline
    <3>3. elapsed' + Granted' < Deadline' + Ms + slip'
      BY <3>1, <3>2, <2>3, <1>1
    <3> QED  BY <2>3, <3>1, <3>2, <3>3 DEF Timing, WaitsEndOnTime, TimeoutsNotEarly, InPoll
  <2> QED  BY <1>11, <2>2, <2>3 DEF Budget
<1>12. CASE Check
  <2>1. UNCHANGED <<call, elapsed>> /\ pc' \in {"idle", "io"} /\ (pc' = "idle" => Timely)
    BY <1>12, <1>2 DEF Check
  <2> QED  BY <2>1, NoWait DEF Timely
<1>13. CASE Moves
  BY <1>13, NoWait DEF Moves
<1>14. CASE MovesNothing
  <2>1. UNCHANGED <<call, elapsed>> /\ pc' \in {"idle", "check", "budget"}
        /\ pc = "io"
    BY <1>14 DEF MovesNothing
  <2>2. pc' = "idle" => ~Timeout(result')
    BY <1>14, <1>4 DEF MovesNothing, Placed, Places, TransferPCs
  <2> QED  BY <2>1, <2>2, NoWait
<1>15. CASE Poll
  <2>1. UNCHANGED <<call, elapsed>> /\ pc = "poll" /\ pc' = "wait" /\ EnterPoll
    BY <1>15 DEF Poll
  <2> QED  BY <2>1, PollRight DEF Timing, WaitsEndOnTime, TimeoutsNotEarly, InPoll
<1>16. CASE Wait
  <2>1. UNCHANGED <<call, elapsed>> /\ pc' \in {"idle", "check"} /\ pc = "wait"
    BY <1>16 DEF Wait
  <2>2. pc' = "idle" => ~Timeout(result') \/ elapsed >= until
    BY <1>16, <1>4 DEF Wait, Placed, Places, TransferPCs
  <2> QED  BY <2>1, <2>2, <1>3, NoWait DEF Timely, InPoll
<1>17. CASE Finish
  <2>1. UNCHANGED <<call, elapsed>> /\ pc' = "idle" /\ pc = "finish"
    BY <1>17 DEF Finish
  <2>2. ~Timeout(result')
    BY <1>17, <1>4 DEF Finish, Placed, Places, TransferPCs
  <2> QED  BY <2>1, <2>2, NoWait
<1>18. CASE Close
  BY <1>18 DEF Close, Timing, WaitsEndOnTime, TimeoutsNotEarly, InPoll, Deadline
<1>19. ASSUME NEW c \in Calls, Connect(c) \/ Transfer(c) PROVE Timing'
  <2>1. call' = c /\ elapsed' = 0 /\ pc' \in {"idle", "endpoint", "check"}
    BY <1>19 DEF Connect, Transfer, Begin
  <2>2. pc' = "idle" /\ Timeout(result') => c.timeout = 0
    BY <1>19, ErrorNames DEF Connect, Transfer, Operations
  <2>3. c.timeout = 0 => Deadline' = 0
    BY <2>1, <1>1 DEF Deadline
  <2>4. c.timeout = 0 => elapsed' > Deadline' - Ms
    BY <2>1, <2>3, <1>1
  <2> QED  BY <2>1, <2>2, <2>4 DEF Timing, WaitsEndOnTime, TimeoutsNotEarly, InPoll
<1>20. CASE UNCHANGED vars
  BY <1>20 DEF vars, waits, Timing, WaitsEndOnTime, TimeoutsNotEarly, InPoll, Deadline, Granted
<1> QED
  BY <1>5, <1>6, <1>7, <1>8, <1>9, <1>10, <1>11, <1>12, <1>13, <1>14, <1>15, <1>16, <1>17,
     <1>18, <1>19, <1>20 DEF Next, Step

LEMMA TimingInvariant == Spec => []Timing
BY TimingInitially, PlacedInvariant, TimingStep, PTL DEF Spec

\* No wait of a call lasts a millisecond beyond its deadline, however many waits
\* and endpoints there are (remaining_timeout, wait_socket).
THEOREM WaitsAreOnTime == Spec => []WaitsEndOnTime
<1>1. Timing => WaitsEndOnTime
  BY DEF Timing
<1> QED  BY <1>1, TimingInvariant, PTL

\* A timeout that poll can wait for is not reported a millisecond early
\* (remaining_timeout, wait_socket, and the checks of the deadline).
THEOREM TimeoutsAreDue == Spec => []TimeoutsNotEarly
<1>1. Timing => TimeoutsNotEarly
  BY DEF Timing
<1> QED  BY <1>1, TimingInvariant, PTL

-------------------------------------------------------------------------------
(* The search for an endpoint.                                             *)

\* The valid ones of the first n endpoints.
Valid(e, n) == {i \in 1..n : e[i]}
Looked      == Len(call.endpoints) - Len(todo)

\* What is left to do is the end of what the resolver returned, and every valid
\* endpoint before it was counted.
Searching ==
  pc # "idle" /\ call.op = "connect" =>
    /\ Looked \in Nat
    /\ \A i \in 1..Len(todo) : todo[i] = call.endpoints[Looked + i]
    /\ tried = Cardinality(Valid(call.endpoints, Looked))
Search == Searching /\ ConnectTriesAll

\* One more endpoint is one more valid one or none.
LEMMA ValidNext ==
  ASSUME NEW e, NEW n \in Nat
  PROVE  /\ Cardinality(Valid(e, 0)) = 0
         /\ Cardinality(Valid(e, n)) \in Nat
         /\ e[n + 1] => Cardinality(Valid(e, n + 1)) = Cardinality(Valid(e, n)) + 1
         /\ ~e[n + 1] => Cardinality(Valid(e, n + 1)) = Cardinality(Valid(e, n))
<1>1. IsFiniteSet(Valid(e, n)) /\ n + 1 \notin Valid(e, n)
  <2>1. IsFiniteSet(1..n)
    BY FS_Interval
  <2> QED  BY <2>1, FS_Subset DEF Valid
<1>2. Cardinality(Valid(e, n)) \in Nat
  BY <1>1, FS_CardinalityType
<1>3. Cardinality(Valid(e, 0)) = 0
  <2>1. Valid(e, 0) = {}
    BY DEF Valid
  <2> QED  BY <2>1, FS_EmptySet
<1>4. CASE e[n + 1]
  <2>1. Valid(e, n + 1) = Valid(e, n) \cup {n + 1}
    BY <1>4 DEF Valid
  <2> QED  BY <1>1, <1>3, <1>2, <1>4, <2>1, FS_AddElement
<1>5. CASE ~e[n + 1]
  <2>1. Valid(e, n + 1) = Valid(e, n)
    BY <1>5 DEF Valid
  <2> QED  BY <1>2, <1>3, <1>5, <2>1
<1> QED  BY <1>4, <1>5

\* The next endpoint is the first that is left.
LEMMA NextLooked ==
  ASSUME Placed, Searching, pc = "endpoint", todo # <<>>
  PROVE  /\ call.endpoints \in Seq(BOOLEAN) /\ todo \in Seq(BOOLEAN) /\ Looked \in Nat
         /\ \A i \in 1..Len(todo) : todo[i] = call.endpoints[Looked + i]
         /\ Head(todo) = call.endpoints[Looked + 1]
         /\ tried = Cardinality(Valid(call.endpoints, Looked))
<1>1. call.op = "connect" /\ call.endpoints \in Seq(BOOLEAN) /\ todo \in Seq(BOOLEAN)
  BY CallTypes DEF Placed, Places, TypeOK
<1>2. /\ Looked \in Nat /\ tried = Cardinality(Valid(call.endpoints, Looked))
      /\ \A i \in 1..Len(todo) : todo[i] = call.endpoints[Looked + i]
  BY <1>1 DEF Searching
<1>3. 1 \in 1..Len(todo) /\ Head(todo) = todo[1]
  BY <1>1
<1> QED  BY <1>1, <1>2, <1>3

\* It is looked at.
LEMMA LooksAt ==
  ASSUME Placed, Searching, pc = "endpoint", todo # <<>>, todo' = Tail(todo), UNCHANGED call,
         tried' = Cardinality(Valid(call.endpoints, Looked + 1))
  PROVE  Searching'
<1>1. /\ call.endpoints \in Seq(BOOLEAN) /\ todo \in Seq(BOOLEAN) /\ Looked \in Nat
      /\ \A i \in 1..Len(todo) : todo[i] = call.endpoints[Looked + i]
  BY NextLooked
<1>2. /\ Len(call.endpoints) \in Nat /\ Len(todo) \in Nat /\ Len(todo') = Len(todo) - 1
      /\ \A i \in 1..Len(todo') : todo'[i] = todo[i + 1]
  BY <1>1, HeadTailProperties
<1>3. Looked' = Looked + 1
  <2>1. /\ Looked' = Len(call.endpoints) - (Len(todo) - 1)
        /\ Looked = Len(call.endpoints) - Len(todo)
    BY <1>2 DEF Looked
  <2> QED  BY ONLY <1>2, <2>1
<1>4. \A i \in 1..Len(todo') : todo'[i] = call.endpoints[Looked' + i]
  <2> SUFFICES ASSUME NEW i \in 1..Len(todo') PROVE todo'[i] = call.endpoints[Looked' + i]
    OBVIOUS
  <2>1. i + 1 \in 1..Len(todo) /\ Looked' + i = Looked + (i + 1)
    <3>1. i \in Nat /\ 1 <= i /\ i <= Len(todo) - 1
      BY <1>2
    <3> QED  BY <1>1, <1>2, <1>3, <3>1
  <2> QED  BY <1>1, <1>2, <2>1
<1> QED  BY <1>1, <1>3, <1>4 DEF Searching

\* A step that neither looks at an endpoint nor ends a connect.
LEMMA SearchStays ==
  ASSUME Search, UNCHANGED <<call, todo, tried>>, pc # "idle",
         pc' = "idle" => result' \notin {"ConnectFailed", "SocketCreateFailed"}
  PROVE  Search'
BY DEF Search, Searching, ConnectTriesAll, Looked

LEMMA SearchStep == Placed /\ Search /\ [Next]_vars => Search'
<1> SUFFICES ASSUME Placed, Search, [Next]_vars PROVE Search'
  OBVIOUS
<1>1. pc # "idle" => TimeoutError[call.op] \notin {"ConnectFailed", "SocketCreateFailed"}
  BY CallTypes, ErrorNames DEF Placed, Places
<1>2. pc # "idle" /\ call.op # "connect" =>
        FailedError[call.op] \notin {"ConnectFailed", "SocketCreateFailed"}
  BY CallTypes, ErrorNames DEF Placed, Places
<1> USE DEF Goto, Return, Fail
<1>3. CASE Tick
  BY <1>3 DEF Tick, Search, Searching, ConnectTriesAll, Looked
<1>4. CASE SkipInvalid
  <2>1. /\ pc = "endpoint" /\ todo # <<>> /\ todo' = Tail(todo) /\ UNCHANGED call
        /\ ~Head(todo) /\ tried' = tried
    BY <1>4 DEF SkipInvalid
  <2>2. tried' = Cardinality(Valid(call.endpoints, Looked + 1))
    BY <2>1, NextLooked, ValidNext DEF Search
  <2>3. Searching'
    BY <2>1, <2>2, LooksAt DEF Search
  <2> QED  BY <1>4, <2>3 DEF SkipInvalid, Search, ConnectTriesAll
<1>5. CASE Create
  <2>1. /\ pc = "endpoint" /\ todo # <<>> /\ todo' = Tail(todo) /\ UNCHANGED call
        /\ tried' = tried + 1 /\ Head(todo)
        /\ pc' = "idle" => result' = "ConnectTimeout"
    BY <1>5 DEF Create
  <2>2. tried' = Cardinality(Valid(call.endpoints, Looked + 1))
    BY <2>1, NextLooked, ValidNext DEF Search
  <2>3. Searching'
    BY <2>1, <2>2, LooksAt DEF Search
  <2> QED  BY <2>1, <2>3 DEF Search, ConnectTriesAll
<1>6. CASE ConnectExhausted
  <2>1. /\ pc = "endpoint" /\ todo = <<>> /\ pc' = "idle" /\ UNCHANGED <<call, todo, tried>>
    BY <1>6 DEF ConnectExhausted
  <2>2. call.op = "connect" /\ call.endpoints \in Seq(BOOLEAN)
    BY <2>1, CallTypes DEF Placed, Places
  <2>3. Looked = Len(call.endpoints)
    BY <2>1, <2>2 DEF Looked
  <2>4. tried = Cardinality(Valid(call.endpoints, Len(call.endpoints)))
    BY <2>1, <2>2, <2>3 DEF Search, Searching
  <2> QED  BY <2>1, <2>4 DEF Search, Searching, ConnectTriesAll, Valid
<1>7. CASE Attempt
  BY <1>7, SearchStays DEF Attempt, AttemptFails, Connected
<1>8. CASE ConnectWait
  BY <1>8, SearchStays DEF ConnectWait, AttemptFails, Connected
<1>9. CASE Budget
  BY <1>9, <1>1, SearchStays DEF Budget
<1>10. CASE Check
  BY <1>10, <1>1, SearchStays DEF Check
<1>11. CASE Moves
  BY <1>11, SearchStays DEF Moves
<1>12. CASE MovesNothing
  BY <1>12, <1>2, SearchStays DEF MovesNothing, Placed, Places, TransferPCs
<1>13. CASE Poll
  BY <1>13, SearchStays DEF Poll
<1>14. CASE Wait
  BY <1>14, <1>1, <1>2, SearchStays DEF Wait, Placed, Places, TransferPCs
<1>15. CASE Finish
  BY <1>15, <1>2, SearchStays DEF Finish, Placed, Places, TransferPCs
<1>16. CASE Close
  BY <1>16 DEF Close, Search, Searching, ConnectTriesAll
<1>17. ASSUME NEW c \in Calls, Connect(c) PROVE Search'
  <2>1. /\ call' = c /\ todo' = c.endpoints /\ tried' = 0 /\ c.endpoints \in Seq(BOOLEAN)
    BY <1>17, CallTypes DEF Connect, Begin
  <2>2. Len(c.endpoints) \in Nat /\ Looked' = 0
    BY <2>1 DEF Looked
  <2>3. Cardinality(Valid(c.endpoints, 0)) = 0
    BY ValidNext
  <2>4. Searching'
    BY <2>1, <2>2, <2>3 DEF Searching
  <2>5. pc' = "idle" /\ c.timeout > 0 => c.endpoints = <<>>
    BY <1>17, CallTypes DEF Connect
  <2>6. c.endpoints = <<>> => Valid(c.endpoints, Len(c.endpoints)) = Valid(c.endpoints, 0)
    OBVIOUS
  <2>7. ConnectTriesAll'
    BY <2>1, <2>3, <2>5, <2>6 DEF ConnectTriesAll, Valid
  <2> QED  BY <2>4, <2>7 DEF Search
<1>18. ASSUME NEW c \in Calls, Transfer(c) PROVE Search'
  BY <1>18 DEF Transfer, Begin, Search, Searching, ConnectTriesAll
<1>19. CASE UNCHANGED vars
  BY <1>19 DEF vars, Search, Searching, ConnectTriesAll, Looked
<1> QED
  BY <1>3, <1>4, <1>5, <1>6, <1>7, <1>8, <1>9, <1>10, <1>11, <1>12, <1>13, <1>14, <1>15,
     <1>16, <1>17, <1>18, <1>19 DEF Next, Step

\* connect fails for good only after it has looked at every valid endpoint of the
\* resolver's list, whatever became of the attempts before (TcpConnection::connect).
THEOREM AllEndpointsAreTried == Spec => []ConnectTriesAll
<1>1. Init => Search
  BY DEF Init, NoCall, Search, Searching, ConnectTriesAll
<1>2. Search => ConnectTriesAll
  BY DEF Search
<1> QED  BY <1>1, <1>2, PlacedInvariant, SearchStep, PTL DEF Spec
===============================================================================
