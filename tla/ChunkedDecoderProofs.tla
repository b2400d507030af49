-------------------------- MODULE ChunkedDecoderProofs --------------------------
(***************************************************************************)
(* Proofs about ChunkedDecoder, for any limits and any way of cutting any  *)
(* stream.                                                                 *)
(***************************************************************************)
EXTENDS ChunkedDecoder, LeastNumber, SequenceTheorems, TLAPS

\* The first CRLF is behind the line.
LEMMA FirstCrlf ==
  ASSUME NEW s \in Seq(Bytes), HasCrlf(s)
  PROVE  /\ LineLength(s) \in 0..(Len(s) - 2)
         /\ CrlfAt(s, LineLength(s) + 1)
         /\ \A j \in 1..LineLength(s) : ~CrlfAt(s, j)
<1> DEFINE T == {i \in 1..(Len(s) - 1) : CrlfAt(s, i)}
           First(i) == CrlfAt(s, i) /\ \A j \in 1..(i - 1) : ~CrlfAt(s, j)
           n == CHOOSE i \in 1..(Len(s) - 1) : First(i)
<1>1. T \in SUBSET Nat /\ T # {}
  BY DEF HasCrlf
<1>2. PICK i \in T : \A k \in T : i <= k
  BY <1>1, LeastNatural
<1>3. i \in 1..(Len(s) - 1) /\ First(i)
  BY <1>2
<1>4. n \in 1..(Len(s) - 1) /\ First(n)
  BY <1>3
<1>5. LineLength(s) = n - 1
  BY DEF LineLength
<1> HIDE DEF n
<1>6. n = LineLength(s) + 1 /\ LineLength(s) \in 0..(Len(s) - 2)
  BY <1>4, <1>5
<1> QED  BY <1>4, <1>5, <1>6

\* A line that was found ends inside the buffer, with its CRLF.
LEMMA LineLengthBounds ==
  ASSUME NEW s \in Seq(Bytes), HasCrlf(s)
  PROVE  LineLength(s) \in 0..(Len(s) - 2)
BY FirstCrlf

\* The line and what follows its CRLF are byte sequences.
LEMMA LineParts ==
  ASSUME NEW s \in Seq(Bytes), HasCrlf(s)
  PROVE  /\ Line(s) \in Seq(Bytes) /\ Len(Line(s)) = LineLength(s)
         /\ AfterLine(s) \in Seq(Bytes)
<1> DEFINE l == LineLength(s)
<1>1. l \in 0..(Len(s) - 2)
  BY LineLengthBounds
<1> HIDE DEF l
<1>2. SubSeq(s, 1, l) \in Seq(Bytes) /\ Len(SubSeq(s, 1, l)) = l
  BY <1>1
<1>3. SubSeq(s, l + 3, Len(s)) \in Seq(Bytes)
  BY <1>1
<1> QED  BY <1>2, <1>3 DEF Line, AfterLine, l

\* A size line that parse_chunk_size accepts gives a std::size_t.
LEMMA AcceptedSize ==
  ASSUME NEW s, SizeError(s) = "none"
  PROVE  HexNumber(SizeText(s)) \in Nat
<1>1. HexNumber(SizeText(s)) \in 0..SizeMax
  BY Zenon DEF SizeError
<1> QED  BY <1>1, LimitAssumption

\* parse_chunk_size fails with one of two errors.
LEMMA SizeErrors ==
  ASSUME NEW s
  PROVE  SizeError(s) \in {"none", "InvalidChunkSize", "InvalidChunkFraming"}
BY DEF SizeError

\* Data moves bytes of the chunk only, no more than are there.
LEMMA DataMoves ==
  ASSUME TypeOK, Data
  PROVE  /\ input' \in Seq(Bytes) /\ output' \in Seq(Bytes) /\ remaining' \in Nat
         /\ Len(output') + remaining' = Len(output) + remaining
         /\ status' = "NeedMore" => stage = "Data" /\ stage' = "Data" /\ input' = <<>>
<1> DEFINE amount == IF remaining <= Len(input) THEN remaining ELSE Len(input)
<1>1. amount \in 0..Len(input) /\ amount <= remaining /\ remaining \in Nat
  BY DEF TypeOK
<1>2. /\ output' = output \o SubSeq(input, 1, amount)
      /\ input' = SubSeq(input, amount + 1, Len(input))
      /\ remaining' = remaining - amount
      /\ status' = "NeedMore" => amount # remaining /\ stage' = stage
      /\ stage = "Data"
  BY DEF Data, Running
<1>3. status' = "NeedMore" => amount = Len(input)
  BY <1>2
<1> HIDE DEF amount
<1>4. SubSeq(input, 1, amount) \in Seq(Bytes) /\ Len(SubSeq(input, 1, amount)) = amount
  BY <1>1 DEF TypeOK
<1>5. output' \in Seq(Bytes) /\ Len(output') = Len(output) + amount
  BY <1>2, <1>4 DEF TypeOK
<1>6. input' \in Seq(Bytes) /\ (amount = Len(input) => input' = <<>>)
  BY <1>1, <1>2 DEF TypeOK
<1>7. remaining' \in Nat
  BY <1>1, <1>2
<1>8. Len(output') + remaining' = Len(output) + remaining
  <2>1. Len(output) \in Nat
    BY DEF TypeOK
  <2> QED  BY <1>1, <1>2, <1>5, <2>1
<1>9. status' = "NeedMore" => stage = "Data" /\ stage' = "Data" /\ input' = <<>>
  BY <1>2, <1>3, <1>6
<1> QED  BY <1>5, <1>6, <1>7, <1>8, <1>9

-------------------------------------------------------------------------------
(* Types.                                                                  *)

\* The members of the decoder keep their types in every step of the loop.
LEMMA TypeStep == TypeOK /\ [Next]_vars => TypeOK'
<1> SUFFICES ASSUME TypeOK, [Next]_vars PROVE TypeOK'
  OBVIOUS
<1>1. CASE SizeLineUnfinished
  BY <1>1 DEF SizeLineUnfinished, TypeOK, Statuses, Errors
<1>2. CASE SizeLineRejected
  <2>1. SizeError(Line(input)) # "none" => SizeError(Line(input)) \in Errors
    BY SizeErrors DEF Errors
  <2>2. "ResponseLimitExceeded" \in Errors
    BY DEF Errors
  <2>3. PICK e \in Errors : Fails(e)
    BY <1>2, <2>1, <2>2, Zenon DEF SizeLineRejected
  <2> QED  BY <2>3 DEF Fails, TypeOK, Statuses
<1>3. CASE SizeLineAccepted
  <2> DEFINE size == HexNumber(SizeText(Line(input)))
  <2>1. HasCrlf(input) /\ SizeError(Line(input)) = "none"
    BY <1>3 DEF SizeLineAccepted
  <2>2. size \in Nat
    BY <2>1, AcceptedSize
  <2>3. AfterLine(input) \in Seq(Bytes)
    BY <2>1, LineParts DEF TypeOK
  <2>4. /\ remaining' = size /\ stage' \in Stages
        /\ input' = AfterLine(input)
        /\ UNCHANGED <<trailer, output, status, fed>>
    BY <1>3 DEF SizeLineAccepted, Stages
  <2> QED  BY <2>2, <2>3, <2>4 DEF TypeOK
<1>4. CASE Data
  <2>1. UNCHANGED <<trailer, fed>> /\ stage' \in Stages /\ status' \in Statuses
    BY <1>4 DEF Data, TypeOK, Stages, Statuses
  <2> QED  BY <1>4, <2>1, DataMoves DEF TypeOK
<1>5. CASE DataCrlf
  <2>1. UNCHANGED <<remaining, trailer, output, fed>>
        /\ stage' \in Stages /\ status' \in Statuses
    BY <1>5 DEF DataCrlf, TypeOK, Stages, Statuses, Errors
  <2>2. Len(input) >= 2 => SubSeq(input, 3, Len(input)) \in Seq(Bytes)
    BY DEF TypeOK
  <2>3. input' = input \/ (Len(input) >= 2 /\ input' = SubSeq(input, 3, Len(input)))
    BY <1>5 DEF DataCrlf
  <2> QED  BY <2>1, <2>2, <2>3 DEF TypeOK
<1>6. CASE TrailersUnfinished
  BY <1>6 DEF TrailersUnfinished, TypeOK, Statuses, Errors
<1>7. CASE TrailerLine
  <2>1. LineLength(input) \in Nat /\ AfterLine(input) \in Seq(Bytes)
    BY <1>7, LineParts, LineLengthBounds DEF TrailerLine, TypeOK
  <2>2. /\ trailer' \in {trailer, trailer + (LineLength(input) + 2)}
        /\ input' \in {input, AfterLine(input)}
        /\ UNCHANGED <<remaining, output, fed>>
        /\ stage' \in {stage, "Complete"}
        /\ status' \in {status, "Complete", "InvalidHeader", "ResponseLimitExceeded"}
    BY <1>7, Zenon DEF TrailerLine, Fails
  <2> QED  BY <2>1, <2>2 DEF TypeOK, Stages, Statuses, Errors
<1>8. CASE \E segment \in Segments : Feed(segment)
  BY <1>8, SegmentAssumption DEF Feed, TypeOK, Statuses
<1>9. CASE UNCHANGED vars
  BY <1>9 DEF vars, TypeOK
<1> QED  BY <1>1, <1>2, <1>3, <1>4, <1>5, <1>6, <1>7, <1>8, <1>9 DEF Next, Loop

\* Every reachable state of ChunkedDecoder is well typed.
THEOREM TypeCorrect == Spec => []TypeOK
<1>1. Init => TypeOK
  BY DEF Init, TypeOK, Stages, Statuses
<1> QED  BY <1>1, TypeStep, PTL DEF Spec

-------------------------------------------------------------------------------
(* Limits.                                                                 *)

\* would_exceed decides the comparison of the sum it never forms.
LEMMA WouldExceedIsSum ==
  ASSUME NEW a \in Nat, NEW b \in Nat, NEW limit \in Nat
  PROVE  WouldExceed(a, b, limit) <=> a + b > limit
BY DEF WouldExceed

\* The body decoded and the chunk announced fit max_body_bytes.
THEOREM BodyIsBounded == Spec => []BodyBounded
<1>1. Init => BodyBounded
  BY LimitAssumption DEF Init, BodyBounded
<1>2. ASSUME TypeOK, BodyBounded, [Next]_vars PROVE BodyBounded'
  <2>1. CASE SizeLineUnfinished
    BY <1>2, <2>1 DEF SizeLineUnfinished, BodyBounded
  <2>2. CASE SizeLineRejected
    BY <1>2, <2>2 DEF SizeLineRejected, Fails, BodyBounded
  <2>3. CASE SizeLineAccepted
    <3> DEFINE size == HexNumber(SizeText(Line(input)))
    <3>1. /\ SizeError(Line(input)) = "none"
          /\ size # 0 => ~WouldExceed(Len(output), size, MaxBodyBytes)
          /\ remaining' = size /\ output' = output
      BY <2>3 DEF SizeLineAccepted
    <3>2. size \in Nat
      BY <3>1, AcceptedSize
    <3> HIDE DEF size
    <3> QED  BY <1>2, <3>1, <3>2, LimitAssumption, WouldExceedIsSum DEF TypeOK, BodyBounded
  <2>4. CASE Data
    BY <1>2, <2>4, DataMoves DEF BodyBounded
  <2>5. CASE DataCrlf
    BY <1>2, <2>5 DEF DataCrlf, BodyBounded
  <2>6. CASE TrailersUnfinished
    BY <1>2, <2>6 DEF TrailersUnfinished, BodyBounded
  <2>7. CASE TrailerLine
    <3>1. UNCHANGED <<remaining, output>>
      BY <2>7, Zenon DEF TrailerLine, Fails
    <3> QED  BY <1>2, <3>1 DEF BodyBounded
  <2>8. CASE \E segment \in Segments : Feed(segment)
    BY <1>2, <2>8 DEF Feed, BodyBounded
  <2>9. CASE UNCHANGED vars
    BY <1>2, <2>9 DEF vars, BodyBounded
  <2> QED
    BY <1>2, <2>1, <2>2, <2>3, <2>4, <2>5, <2>6, <2>7, <2>8, <2>9 DEF Next, Loop
<1> QED  BY <1>1, <1>2, TypeCorrect, PTL DEF Spec

\* What is kept of an unfinished stream is bounded by the limit of its stage.
THEOREM BufferIsBounded == Spec => []BufferBounded
<1>1. Init => BufferBounded
  BY LimitAssumption DEF Init, BufferBounded
<1>2. ASSUME TypeOK, BufferBounded, [Next]_vars PROVE BufferBounded'
  <2>1. CASE SizeLineUnfinished
    BY <1>2, <2>1, LimitAssumption DEF SizeLineUnfinished, Running, BufferBounded, TypeOK
  <2>2. CASE SizeLineRejected
    <3>1. status' # "NeedMore"
      BY <2>2, SizeErrors DEF SizeLineRejected, Fails
    <3> QED  BY <3>1 DEF BufferBounded
  <2>3. CASE SizeLineAccepted
    BY <2>3 DEF SizeLineAccepted, Running, BufferBounded
  <2>4. CASE Data
    BY <1>2, <2>4, DataMoves DEF BufferBounded
  <2>5. CASE DataCrlf
    BY <1>2, <2>5 DEF DataCrlf, Running, BufferBounded, TypeOK
  <2>6. CASE TrailersUnfinished
    BY <1>2, <2>6, LimitAssumption, WouldExceedIsSum
       DEF TrailersUnfinished, Running, BufferBounded, TypeOK
  <2>7. CASE TrailerLine
    <3>1. status' # "NeedMore"
      BY <2>7 DEF TrailerLine, Fails, Running
    <3> QED  BY <3>1 DEF BufferBounded
  <2>8. CASE \E segment \in Segments : Feed(segment)
    BY <2>8 DEF Feed, BufferBounded
  <2>9. CASE UNCHANGED vars
    BY <1>2, <2>9 DEF vars, BufferBounded
  <2> QED
    BY <1>2, <2>1, <2>2, <2>3, <2>4, <2>5, <2>6, <2>7, <2>8, <2>9 DEF Next, Loop
<1> QED  BY <1>1, <1>2, TypeCorrect, PTL DEF Spec
-------------------------------------------------------------------------------
(* Sequences cut in two.                                                   *)

\* Sequences joined make a sequence.
LEMMA JoinedType ==
  \A a, b \in Seq(Bytes) : a \o b \in Seq(Bytes)
OBVIOUS

\* Three sequences, in whichever order they are joined.
LEMMA Joined ==
  \A a, b, c \in Seq(Bytes) : (a \o b) \o c = a \o (b \o c)
OBVIOUS

\* Behind a there is b.
LEMMA Behind ==
  ASSUME NEW a \in Seq(Bytes), NEW b \in Seq(Bytes)
  PROVE  /\ SubSeq(a \o b, 1, Len(a)) = a
         /\ SubSeq(a \o b, Len(a) + 1, Len(a \o b)) = b
         /\ Len(a \o b) = Len(a) + Len(b)
<1>1. SubSeq(a \o b, 1, Len(a)) = a
  OBVIOUS
<1>2. SubSeq(a \o b, Len(a) + 1, Len(a \o b)) = b
  OBVIOUS
<1>3. Len(a \o b) = Len(a) + Len(b)
  OBVIOUS
<1> QED  BY <1>1, <1>2, <1>3, Zenon

\* The two parts of a sequence.
LEMMA CutInTwo ==
  ASSUME NEW s \in Seq(Bytes), NEW k \in 0..Len(s)
  PROVE  /\ SubSeq(s, 1, k) \in Seq(Bytes) /\ Len(SubSeq(s, 1, k)) = k
         /\ SubSeq(s, k + 1, Len(s)) \in Seq(Bytes)
         /\ Len(SubSeq(s, k + 1, Len(s))) = Len(s) - k
         /\ s = SubSeq(s, 1, k) \o SubSeq(s, k + 1, Len(s))
<1>1. SubSeq(s, 1, k) \in Seq(Bytes) /\ Len(SubSeq(s, 1, k)) = k
  OBVIOUS
<1>2. SubSeq(s, k + 1, Len(s)) \in Seq(Bytes) /\ Len(SubSeq(s, k + 1, Len(s))) = Len(s) - k
  OBVIOUS
<1>3. SubSeq(s, 1, k) \o SubSeq(s, k + 1, Len(s)) = SubSeq(s, 1, Len(s))
  <2>1. 1 \in 1..Len(s) + 1 /\ k \in 1 - 1..Len(s) /\ Len(s) \in k..Len(s)
    OBVIOUS
  <2> QED  BY <2>1, ConcatAdjacentSubSeq, Zenon
<1>4. SubSeq(s, 1, Len(s)) = s
  BY SubSeqFull
<1> QED  BY <1>1, <1>2, <1>3, <1>4, Zenon

\* The parts of a sequence that g was appended to.
LEMMA CutAppended ==
  ASSUME NEW s \in Seq(Bytes), NEW g \in Seq(Bytes), NEW k \in 0..Len(s)
  PROVE  /\ SubSeq(s \o g, 1, k) = SubSeq(s, 1, k)
         /\ SubSeq(s \o g, k + 1, Len(s \o g)) = SubSeq(s, k + 1, Len(s)) \o g
<1> DEFINE a == SubSeq(s, 1, k)
           b == SubSeq(s, k + 1, Len(s))
<1>1. a \in Seq(Bytes) /\ Len(a) = k /\ b \in Seq(Bytes) /\ s = a \o b
  BY CutInTwo, Zenon
<1> HIDE DEF a, b
<1>2. PICK y \in Seq(Bytes) : y = b \o g
  <2>1. b \o g \in Seq(Bytes)
    BY <1>1, ConcatProperties
  <2> QED  BY <2>1, Zenon
<1>3. s \o g = a \o y
  <2>1. (a \o b) \o g = a \o (b \o g)
    <3>1. a \in Seq(Bytes) /\ b \in Seq(Bytes)
      BY <1>1, Zenon
    <3> QED  BY ONLY <3>1, g \in Seq(Bytes)
  <2> QED  BY <1>1, <1>2, <2>1, Zenon
<1>4. SubSeq(a \o y, 1, Len(a)) = a /\ SubSeq(a \o y, Len(a) + 1, Len(a \o y)) = y
  <2>1. a \in Seq(Bytes)
    BY <1>1, Zenon
  <2> QED  BY <2>1, Behind
<1> QED  BY <1>1, <1>2, <1>3, <1>4, Zenon DEF a, b

-------------------------------------------------------------------------------
(* Lines of a buffer that more is appended to.                             *)

\* There is no other first CRLF.
LEMMA LineLengthIs ==
  ASSUME NEW s \in Seq(Bytes), NEW n \in 0..(Len(s) - 2),
         CrlfAt(s, n + 1), \A j \in 1..n : ~CrlfAt(s, j)
  PROVE  HasCrlf(s) /\ LineLength(s) = n
<1>1. n + 1 \in 1..(Len(s) - 1)
  OBVIOUS
<1>2. HasCrlf(s)
  BY <1>1 DEF HasCrlf
<1>3. /\ LineLength(s) \in 0..(Len(s) - 2)
      /\ CrlfAt(s, LineLength(s) + 1)
      /\ \A j \in 1..LineLength(s) : ~CrlfAt(s, j)
  BY <1>2, FirstCrlf
<1>4. ~(n < LineLength(s)) /\ ~(LineLength(s) < n)
  BY <1>1, <1>3
<1> QED  BY <1>2, <1>3, <1>4

\* What arrives behind a whole line does not change it.
LEMMA LineStays ==
  ASSUME NEW s \in Seq(Bytes), NEW g \in Seq(Bytes), HasCrlf(s)
  PROVE  /\ s \o g \in Seq(Bytes) /\ HasCrlf(s \o g)
         /\ LineLength(s \o g) = LineLength(s)
         /\ Line(s \o g) = Line(s)
         /\ AfterLine(s \o g) = AfterLine(s) \o g
<1> DEFINE n == LineLength(s)
           t == s \o g
<1>1. /\ n \in 0..(Len(s) - 2) /\ CrlfAt(s, n + 1)
      /\ \A j \in 1..n : ~CrlfAt(s, j)
  BY FirstCrlf
<1> HIDE DEF n
<1>2. /\ t \in Seq(Bytes) /\ Len(t) = Len(s) + Len(g)
      /\ \A j \in 1..Len(s) : t[j] = s[j]
  OBVIOUS
<1>3. \A j \in 1..(Len(s) - 1) : CrlfAt(t, j) <=> CrlfAt(s, j)
  BY <1>2 DEF CrlfAt
<1>4. n \in 0..(Len(t) - 2) /\ n + 1 \in 1..(Len(s) - 1)
  BY <1>1, <1>2
<1>5. CrlfAt(t, n + 1) /\ \A j \in 1..n : ~CrlfAt(t, j)
  BY <1>1, <1>3, <1>4
<1>6. HasCrlf(t) /\ LineLength(t) = n
  BY <1>2, <1>4, <1>5, LineLengthIs
<1>7. SubSeq(t, 1, n) = SubSeq(s, 1, n)
  <2>1. n \in 0..Len(s)
    BY <1>1
  <2> QED  BY <2>1, CutAppended, Zenon
<1>8. SubSeq(t, n + 3, Len(t)) = SubSeq(s, n + 3, Len(s)) \o g
  <2>1. PICK k \in 0..Len(s) : k = n + 2 /\ k + 1 = n + 3
    BY <1>1
  <2>2. SubSeq(t, k + 1, Len(t)) = SubSeq(s, k + 1, Len(s)) \o g
    BY CutAppended
  <2> QED  BY <2>1, <2>2, Zenon
<1> QED  BY <1>2, <1>6, <1>7, <1>8 DEF Line, AfterLine, n

\* A buffer is its first line with the CRLF, and what is behind them.
LEMMA LineSplit ==
  ASSUME NEW s \in Seq(Bytes), HasCrlf(s)
  PROVE  LET c == SubSeq(s, 1, LineLength(s) + 2)
         IN /\ c \in Seq(Bytes) /\ HasCrlf(c)
            /\ Line(c) = Line(s) /\ AfterLine(c) = <<>>
            /\ s = c \o AfterLine(s)
            /\ Len(AfterLine(s)) = Len(s) - (LineLength(s) + 2)
<1> DEFINE n == LineLength(s)
           c == SubSeq(s, 1, n + 2)
           d == SubSeq(s, n + 3, Len(s))
<1>1. /\ n \in 0..(Len(s) - 2) /\ CrlfAt(s, n + 1)
      /\ \A j \in 1..n : ~CrlfAt(s, j)
  BY FirstCrlf
<1> HIDE DEF n
<1>2. /\ c \in Seq(Bytes) /\ Len(c) = n + 2
      /\ \A j \in 1..n + 2 : c[j] = s[j]
  BY <1>1
<1> HIDE DEF c, d
<1>3. CrlfAt(c, n + 1) /\ \A j \in 1..n : ~CrlfAt(c, j)
  BY <1>1, <1>2 DEF CrlfAt
<1>4. HasCrlf(c) /\ LineLength(c) = n
  <2>1. n \in 0..(Len(c) - 2)
    BY <1>1, <1>2
  <2> QED  BY <1>2, <1>3, <2>1, LineLengthIs
<1>5. n + 2 \in 0..Len(s) /\ n \in 0..n + 2 /\ (n + 2) + 1 = n + 3
  BY <1>1
<1>6. s = c \o d /\ d \in Seq(Bytes) /\ Len(d) = Len(s) - (n + 2)
  <2>1. /\ SubSeq(s, (n + 2) + 1, Len(s)) \in Seq(Bytes)
        /\ Len(SubSeq(s, (n + 2) + 1, Len(s))) = Len(s) - (n + 2)
        /\ s = SubSeq(s, 1, n + 2) \o SubSeq(s, (n + 2) + 1, Len(s))
    BY <1>5, CutInTwo, Zenon
  <2> QED  BY <1>5, <2>1, Zenon DEF c, d
<1>7. SubSeq(c, n + 3, Len(c)) = <<>>
  BY <1>1, <1>2
<1>8. SubSeq(s, 1, n) = SubSeq(c, 1, n)
  <2>1. n \in 0..Len(c)
    BY <1>2, <1>5
  <2> QED  BY <1>2, <1>6, <2>1, CutAppended
<1> QED  BY <1>2, <1>4, <1>6, <1>7, <1>8 DEF Line, AfterLine, n, c, d

-------------------------------------------------------------------------------
(* The reader of the whole stream.                                         *)

Readers ==
  [at: {"SizeLine", "Trailers"} \cup Statuses, body: Seq(Bytes), seen: Nat,
   rest: Seq(Bytes)]

\* What ReadChunk makes of its parts.
LEMMA ReadsChunk ==
  ASSUME NEW b, NEW seen, NEW rest, HasCrlf(rest)
  PROVE  LET line == Line(rest)
             size == HexNumber(SizeText(line))
             data == AfterLine(rest)
             body == b \o SubSeq(data, 1, size)
             tail == SubSeq(data, size + 1, Len(data))
         IN ReadOn(Reader("SizeLine", b, seen, rest)) =
              IF Len(line) > MaxChunkLineBytes
                THEN Reader("ResponseLimitExceeded", b, seen, rest)
              ELSE IF SizeError(line) # "none"
                THEN Reader(SizeError(line), b, seen, rest)
              ELSE IF size = 0 THEN Reader("Trailers", b, seen, data)
              ELSE IF Len(b) + size > MaxBodyBytes
                THEN Reader("ResponseLimitExceeded", b, seen, rest)
              ELSE IF Len(data) < size THEN Reader("NeedMore", b \o data, seen, <<>>)
              ELSE IF Len(tail) < 2 THEN Reader("NeedMore", body, seen, tail)
              ELSE IF ~CrlfAt(tail, 1) THEN Reader("InvalidChunkFraming", body, seen, tail)
              ELSE Reader("SizeLine", body, seen, SubSeq(tail, 3, Len(tail)))
<1> DEFINE r == Reader("SizeLine", b, seen, rest)
<1>1. /\ r.at = "SizeLine" /\ r.body = b /\ r.seen = seen /\ r.rest = rest
      /\ \A e : [r EXCEPT !.at = e] = Reader(e, b, seen, rest)
      /\ ReadOn(r) = ReadChunk(r)
  BY DEF Reader, ReadOn
<1> HIDE DEF r
<1>2. ReadOn(r) = ReadChunk(r) /\ HasCrlf(r.rest)
  BY <1>1
<1> QED  BY <1>1, <1>2, Zenon DEF ReadChunk, r

\* Without the end of its line the reader stays where it is.
LEMMA ReadsPartOfLine ==
  ASSUME NEW b, NEW seen, NEW rest, ~HasCrlf(rest)
  PROVE  /\ ReadOn(Reader("SizeLine", b, seen, rest)) =
              Reader(IF Len(rest) > MaxChunkLineBytes THEN "ResponseLimitExceeded"
                                                      ELSE "NeedMore", b, seen, rest)
         /\ ReadOn(Reader("Trailers", b, seen, rest)) =
              Reader(IF seen + Len(rest) > MaxTrailerBytes THEN "ResponseLimitExceeded"
                                                           ELSE "NeedMore", b, seen, rest)
<1> DEFINE r == Reader("SizeLine", b, seen, rest)
           t == Reader("Trailers", b, seen, rest)
<1>1. /\ r.rest = rest /\ ReadOn(r) = ReadChunk(r)
      /\ \A e : [r EXCEPT !.at = e] = Reader(e, b, seen, rest)
  BY DEF Reader, ReadOn
<1>2. /\ t.rest = rest /\ t.seen = seen /\ ReadOn(t) = ReadTrailer(t)
      /\ \A e : [t EXCEPT !.at = e] = Reader(e, b, seen, rest)
  BY DEF Reader, ReadOn
<1> HIDE DEF r, t
<1>3. ReadOn(r) =
        Reader(IF Len(rest) > MaxChunkLineBytes THEN "ResponseLimitExceeded"
                                                ELSE "NeedMore", b, seen, rest)
  BY <1>1, Zenon DEF ReadChunk
<1>4. ReadOn(t) =
        Reader(IF seen + Len(rest) > MaxTrailerBytes THEN "ResponseLimitExceeded"
                                                     ELSE "NeedMore", b, seen, rest)
  BY <1>2, Zenon DEF ReadTrailer
<1> QED  BY <1>3, <1>4 DEF r, t

\* What ReadTrailer makes of its parts.
LEMMA ReadsTrailer ==
  ASSUME NEW b, NEW seen, NEW rest, HasCrlf(rest)
  PROVE  LET line  == Line(rest)
             bytes == LineLength(rest) + 2
         IN ReadOn(Reader("Trailers", b, seen, rest)) =
              IF seen + bytes > MaxTrailerBytes
                THEN Reader("ResponseLimitExceeded", b, seen, rest)
              ELSE Reader(IF line = <<>> THEN "Complete"
                          ELSE IF ValidTrailerLine(line) THEN "Trailers"
                          ELSE "InvalidHeader",
                          b, seen + bytes, AfterLine(rest))
<1> DEFINE r == Reader("Trailers", b, seen, rest)
<1>1. /\ r.at = "Trailers" /\ r.body = b /\ r.seen = seen /\ r.rest = rest
      /\ \A e : [r EXCEPT !.at = e] = Reader(e, b, seen, rest)
      /\ ReadOn(r) = ReadTrailer(r)
  BY DEF Reader, ReadOn
<1> HIDE DEF r
<1>2. ReadOn(r) = ReadTrailer(r) /\ HasCrlf(r.rest)
  BY <1>1
<1> QED  BY <1>1, <1>2, Zenon DEF ReadTrailer, r

\* A reader reads on to a reader.
LEMMA ReadOnType ==
  ASSUME NEW r \in Readers
  PROVE  ReadOn(r) \in Readers
<1> DEFINE at == r.at
           b == r.body
           seen == r.seen
           rest == r.rest
           line == Line(rest)
           data == AfterLine(rest)
<1>1. /\ at \in {"SizeLine", "Trailers"} \cup Statuses /\ b \in Seq(Bytes)
      /\ seen \in Nat /\ rest \in Seq(Bytes)
      /\ r = Reader(at, b, seen, rest)
  BY DEF Readers, Reader
<1> HIDE DEF at, b, seen, rest
<1>2. ASSUME NEW e \in {"SizeLine", "Trailers"} \cup Statuses, NEW c \in Seq(Bytes),
             NEW n \in Nat, NEW s \in Seq(Bytes)
      PROVE  Reader(e, c, n, s) \in Readers
  BY DEF Reader, Readers
<1>3. {"ResponseLimitExceeded", "NeedMore", "Complete", "InvalidHeader",
       "InvalidChunkFraming", "InvalidChunkSize"} \subseteq Statuses
  BY DEF Statuses, Errors
<1>4. <<>> \in Seq(Bytes)
  OBVIOUS
<1>5. CASE at \notin {"SizeLine", "Trailers"}
  BY <1>1, <1>2, <1>5 DEF ReadOn, Reader
<1>6. CASE at \in {"SizeLine", "Trailers"} /\ ~HasCrlf(rest)
  <2>1. PICK e \in {"ResponseLimitExceeded", "NeedMore"} :
          ReadOn(r) = Reader(e, b, seen, rest)
    BY <1>1, <1>6, ReadsPartOfLine, Zenon
  <2> QED  BY <1>1, <1>2, <1>3, <2>1
<1>7. CASE at = "SizeLine" /\ HasCrlf(rest)
  <2> DEFINE size == HexNumber(SizeText(line))
             body == b \o SubSeq(data, 1, size)
             tail == SubSeq(data, size + 1, Len(data))
  <2>1. ReadOn(r) =
          IF Len(line) > MaxChunkLineBytes
            THEN Reader("ResponseLimitExceeded", b, seen, rest)
          ELSE IF SizeError(line) # "none"
            THEN Reader(SizeError(line), b, seen, rest)
          ELSE IF size = 0 THEN Reader("Trailers", b, seen, data)
          ELSE IF Len(b) + size > MaxBodyBytes
            THEN Reader("ResponseLimitExceeded", b, seen, rest)
          ELSE IF Len(data) < size THEN Reader("NeedMore", b \o data, seen, <<>>)
          ELSE IF Len(tail) < 2 THEN Reader("NeedMore", body, seen, tail)
          ELSE IF ~CrlfAt(tail, 1) THEN Reader("InvalidChunkFraming", body, seen, tail)
          ELSE Reader("SizeLine", body, seen, SubSeq(tail, 3, Len(tail)))
    BY <1>1, <1>7, ReadsChunk, Zenon
  <2>2. data \in Seq(Bytes) /\ b \o data \in Seq(Bytes)
    BY <1>1, <1>7, LineParts
  <2>3. SizeError(line) \in Statuses \/ SizeError(line) = "none"
    BY <1>3, SizeErrors
  <2>4. SizeError(line) = "none" => size \in Nat
    BY AcceptedSize
  <2> HIDE DEF data, line, size
  <2>5. SizeError(line) = "none" /\ ~(Len(data) < size) =>
          /\ body \in Seq(Bytes) /\ tail \in Seq(Bytes)
          /\ ~(Len(tail) < 2) => SubSeq(tail, 3, Len(tail)) \in Seq(Bytes)
    <3> SUFFICES ASSUME SizeError(line) = "none", ~(Len(data) < size)
                 PROVE  /\ body \in Seq(Bytes) /\ tail \in Seq(Bytes)
                        /\ ~(Len(tail) < 2) => SubSeq(tail, 3, Len(tail)) \in Seq(Bytes)
      OBVIOUS
    <3>1. size \in 0..Len(data)
      BY <2>2, <2>4
    <3>2. SubSeq(data, 1, size) \in Seq(Bytes) /\ tail \in Seq(Bytes)
      BY <2>2, <3>1
    <3>3. body \in Seq(Bytes)
      BY <1>1, <3>2
    <3> HIDE DEF tail
    <3>4. ~(Len(tail) < 2) => SubSeq(tail, 3, Len(tail)) \in Seq(Bytes)
      BY <3>2
    <3> QED  BY <3>2, <3>3, <3>4
  <2> HIDE DEF body, tail
  <2>6. CASE SizeError(line) = "none" /\ ~(Len(data) < size)
    <3>1. body \in Seq(Bytes) /\ tail \in Seq(Bytes)
      BY <2>5, <2>6
    <3>2. \/ ReadOn(r) = Reader("ResponseLimitExceeded", b, seen, rest)
          \/ ReadOn(r) = Reader("Trailers", b, seen, data)
          \/ ReadOn(r) = Reader("NeedMore", body, seen, tail)
          \/ ReadOn(r) = Reader("InvalidChunkFraming", body, seen, tail)
          \/ /\ ~(Len(tail) < 2)
             /\ ReadOn(r) = Reader("SizeLine", body, seen, SubSeq(tail, 3, Len(tail)))
      BY <2>1, <2>6, Zenon
    <3>3. ~(Len(tail) < 2) => SubSeq(tail, 3, Len(tail)) \in Seq(Bytes)
      BY <2>5, <2>6, Zenon
    <3>4. /\ Reader("ResponseLimitExceeded", b, seen, rest) \in Readers
          /\ Reader("Trailers", b, seen, data) \in Readers
          /\ Reader("NeedMore", body, seen, tail) \in Readers
          /\ Reader("InvalidChunkFraming", body, seen, tail) \in Readers
      BY <1>1, <1>2, <1>3, <2>2, <3>1
    <3>5. ~(Len(tail) < 2) =>
            Reader("SizeLine", body, seen, SubSeq(tail, 3, Len(tail))) \in Readers
      BY <1>1, <1>2, <3>1, <3>3
    <3> QED  BY <3>2, <3>4, <3>5, Zenon
  <2>7. CASE SizeError(line) # "none" \/ Len(data) < size
    <3>1. ReadOn(r) \in {Reader("ResponseLimitExceeded", b, seen, rest),
                         Reader("Trailers", b, seen, data),
                         Reader("NeedMore", b \o data, seen, <<>>)}
          \/ /\ SizeError(line) # "none"
             /\ ReadOn(r) = Reader(SizeError(line), b, seen, rest)
      BY <2>1, <2>7, Zenon
    <3> QED  BY <1>1, <1>2, <1>3, <1>4, <2>2, <2>3, <3>1, Zenon
  <2> QED  BY <2>6, <2>7
<1>8. CASE at = "Trailers" /\ HasCrlf(rest)
  <2> DEFINE n == seen + (LineLength(rest) + 2)
  <2>1. \/ ReadOn(r) = Reader("ResponseLimitExceeded", b, seen, rest)
        \/ \E e \in {"Complete", "Trailers", "InvalidHeader"} :
             ReadOn(r) = Reader(e, b, n, data)
    BY <1>1, <1>8, ReadsTrailer, Zenon
  <2>2. n \in Nat /\ data \in Seq(Bytes)
    BY <1>1, <1>8, LineParts, LineLengthBounds
  <2> HIDE DEF n, data
  <2> QED  BY <1>1, <1>2, <1>3, <2>1, <2>2, Zenon
<1> QED  BY <1>5, <1>6, <1>7, <1>8

Start(s) == Reader("SizeLine", <<>>, 0, s)

\* f is what the reader of s goes through.
IsReading(s, f) ==
  /\ f[0] = Start(s) /\ f[Len(s) + 1] = InOnePiece(s)
  /\ \A i \in 1..Len(s) + 1 : f[i] = ReadOn(f[i - 1])

\* The reader can always go on.
LEMMA ReadingExists ==
  ASSUME NEW s \in Seq(Bytes)
  PROVE  \E f : IsReading(s, f)
<1> DEFINE n == Len(s) + 1
           Eq(f) == f = [i \in 0..n |-> IF i = 0 THEN Start(s) ELSE ReadOn(f[i - 1])]
           run == CHOOSE f : Eq(f)
<1>1. n \in Nat /\ Start(s) \in Readers
  BY DEF Start, Reader, Readers
<1>2. InOnePiece(s) = run[n]
  BY DEF InOnePiece, Start
<1> HIDE DEF n
<1>3. \E f : Eq(f)
  <2> DEFINE step == [x \in (1..n) \X Readers |-> ReadOn(x[2])]
  <2>1. step \in [(1..n) \X Readers -> Readers]
    <3>1. \A x \in (1..n) \X Readers : x[2] \in Readers
      OBVIOUS
    <3> QED  BY <3>1, ReadOnType
  <2>2. \A i \in 1..n, q \in Readers : step[<<i, q>>] = ReadOn(q)
    OBVIOUS
  <2> HIDE DEF step
  <2>3. PICK f : IsTrack(f, n, Readers, Start(s), step)
    BY <1>1, <2>1, TrackExists
  <2>4. /\ f \in [0..n -> Readers] /\ f[0] = Start(s)
        /\ \A i \in 1..n : f[i] = step[<<i, f[i - 1]>>]
    BY <2>3 DEF IsTrack
  <2>5. \A i \in 1..n : f[i] = ReadOn(f[i - 1])
    <3> TAKE i \in 1..n
    <3>1. i - 1 \in 0..n
      BY <1>1
    <3>2. f[i - 1] \in Readers
      BY <2>4, <3>1
    <3> QED  BY <2>2, <2>4, <3>2
  <2> DEFINE g == [i \in 0..n |-> IF i = 0 THEN Start(s) ELSE ReadOn(f[i - 1])]
  <2>6. \A i \in 0..n : f[i] = g[i]
    <3> TAKE i \in 0..n
    <3>1. i = 0 \/ i \in 1..n
      BY <1>1
    <3> QED  BY <2>4, <2>5, <3>1
  <2>7. f = g
    BY <2>4, <2>6
  <2> QED  BY <2>7
<1>4. Eq(run)
  BY <1>3
<1> HIDE DEF run
<1>5. run[0] = Start(s)
  BY <1>1, <1>4
<1>6. \A i \in 1..n : run[i] = ReadOn(run[i - 1])
  BY <1>1, <1>4
<1>7. IsReading(s, run)
  BY <1>2, <1>5, <1>6 DEF IsReading, n
<1> QED  BY <1>7

\* The reader of s comes to r, in no more steps than it has read bytes.
Reached(s, r) ==
  \E f : /\ IsReading(s, f)
         /\ \E k \in 0..Len(s) : f[k] = r /\ k + Len(r.rest) <= Len(s)

LEMMA ReachedStart ==
  ASSUME NEW s \in Seq(Bytes)
  PROVE  Reached(s, Start(s))
<1>1. PICK f : IsReading(s, f)
  BY ReadingExists
<1>2. f[0] = Start(s) /\ Start(s).rest = s
  BY <1>1 DEF IsReading, Start, Reader
<1>3. 0 \in 0..Len(s) /\ 0 + Len(Start(s).rest) <= Len(s)
  BY <1>2
<1> QED  BY <1>1, <1>2, <1>3 DEF Reached

\* A reader that has read some of what was left is one step further.
LEMMA ReachedNext ==
  ASSUME NEW s \in Seq(Bytes), NEW r, Reached(s, r), Len(r.rest) \in Nat,
         NEW t, t = ReadOn(r), Len(t.rest) \in Nat, Len(t.rest) < Len(r.rest)
  PROVE  Reached(s, t)
<1>1. PICK f : /\ IsReading(s, f)
               /\ \E k \in 0..Len(s) : f[k] = r /\ k + Len(r.rest) <= Len(s)
  BY DEF Reached
<1>2. PICK k \in 0..Len(s) : f[k] = r /\ k + Len(r.rest) <= Len(s)
  BY <1>1
<1>3. /\ k + 1 \in 0..Len(s) /\ k + 1 \in 1..Len(s) + 1 /\ (k + 1) - 1 = k
      /\ (k + 1) + Len(t.rest) <= Len(s)
  <2> DEFINE m == Len(r.rest)
             n == Len(t.rest)
             l == Len(s)
  <2>1. m \in Nat /\ n \in Nat /\ l \in Nat /\ n < m /\ k \in 0..l /\ k + m <= l
    BY <1>2
  <2> HIDE DEF m, n, l
  <2>2. /\ k + 1 \in 0..l /\ k + 1 \in 1..l + 1 /\ (k + 1) - 1 = k
        /\ (k + 1) + n <= l
    BY <2>1
  <2> QED  BY <2>2 DEF m, n, l
<1>4. f[k + 1] = t
  BY <1>1, <1>2, <1>3 DEF IsReading
<1> QED  BY <1>1, <1>3, <1>4 DEF Reached

\* A reader that has ended is the outcome.
LEMMA ReachedEnd ==
  ASSUME NEW s \in Seq(Bytes), NEW r, Reached(s, r), Len(r.rest) \in Nat,
         NEW t, t = ReadOn(r), ReadOn(t) = t
  PROVE  InOnePiece(s) = t
<1>1. PICK f : /\ IsReading(s, f)
               /\ \E k \in 0..Len(s) : f[k] = r /\ k + Len(r.rest) <= Len(s)
  BY DEF Reached
<1>2. PICK k \in 0..Len(s) : f[k] = r
  BY <1>1
<1> DEFINE n == Len(s) - k
           T == {i \in 0..n : f[k + 1 + i] = t}
<1>3. n \in Nat /\ k + 1 + n = Len(s) + 1 /\ Len(s) \in Nat
  BY <1>2
<1>4. \A i \in 1..Len(s) + 1 : f[i] = ReadOn(f[i - 1])
  BY <1>1 DEF IsReading
<1>5. 0 \in T
  <2>1. k + 1 + 0 = k + 1 /\ k + 1 \in 1..Len(s) + 1 /\ (k + 1) - 1 = k
    BY <1>2
  <2>2. f[k + 1] = t
    BY <1>2, <1>4, <2>1
  <2> QED  BY <1>3, <2>1, <2>2
<1>6. ASSUME NEW i \in 0..n - 1, i \in T PROVE i + 1 \in T
  <2>1. /\ k + 1 + (i + 1) \in 1..Len(s) + 1 /\ (k + 1 + (i + 1)) - 1 = k + 1 + i
        /\ i + 1 \in 0..n
    BY <1>3
  <2>2. f[k + 1 + i] = t
    BY <1>6
  <2>3. f[k + 1 + (i + 1)] = ReadOn(f[k + 1 + i])
    BY <1>4, <2>1
  <2>4. f[k + 1 + (i + 1)] = t
    BY <2>2, <2>3
  <2> QED  BY <2>1, <2>4
<1> HIDE DEF T, n
<1>7. n \in T
  <2>1. \A i \in 0..n : i \in T
    BY <1>3, <1>5, <1>6, UpTo, Zenon
  <2> QED  BY <1>3, <2>1
<1>8. f[Len(s) + 1] = t
  BY <1>3, <1>7 DEF T
<1> QED  BY <1>1, <1>8 DEF IsReading

-------------------------------------------------------------------------------
(* However the stream is cut.                                              *)

\* c is the size line of a chunk and what has arrived of its data; b is the body of
\* the chunks before it.
Chunk(c, b) ==
  LET size == HexNumber(SizeText(Line(c)))
  IN /\ HasCrlf(c) /\ Len(Line(c)) <= MaxChunkLineBytes
     /\ SizeError(Line(c)) = "none" /\ size # 0
     /\ Len(b) + size <= MaxBodyBytes
     /\ output = b \o AfterLine(c)
     /\ size = Len(AfterLine(c)) + remaining

\* Whatever arrives next, the reader of the whole stream comes to this line.
AtLine ==
  \A g \in Seq(Bytes) :
    Reached(fed \o g, Reader(stage, output, trailer, input \o g))

\* Whatever arrives next, the reader of the whole stream comes to this chunk.
InChunk(c, b) ==
  /\ Chunk(c, b)
  /\ \A g \in Seq(Bytes) :
       Reached(fed \o g, Reader("SizeLine", b, trailer, c \o (input \o g)))

InStep ==
  /\ stage \in {"SizeLine", "Trailers"} => AtLine
  /\ stage \in {"Data", "DataCrlf"} => \E c, b \in Seq(Bytes) : InChunk(c, b)
  /\ stage = "DataCrlf" => remaining = 0

\* A decoder that can go on is where the reader of the whole stream comes by; one
\* that has returned has the reader's outcome.
OnTrack ==
  /\ status \in {"running", "NeedMore"} => InStep
  /\ SameAsInOnePiece

\* The outcome of what has been fed.
LEMMA SameOutcome ==
  ASSUME TypeOK, fed' = fed,
         NEW r, Reached(fed, r), Len(r.rest) \in Nat,
         status' \notin {"SizeLine", "Trailers"},
         NEW n, ReadOn(r) = Reader(status', output', n, input')
  PROVE  SameAsInOnePiece'
<1> DEFINE t == Reader(status', output', n, input')
<1>1. /\ ReadOn(t) = t
      /\ t.at = status' /\ t.body = output' /\ t.rest = input'
  BY DEF ReadOn, Reader
<1> HIDE DEF t
<1>2. t = ReadOn(r) /\ fed \in Seq(Bytes)
  BY DEF t, TypeOK
<1>3. InOnePiece(fed) = t
  BY <1>1, <1>2, ReachedEnd, Zenon
<1> QED  BY <1>1, <1>3, Zenon DEF SameAsInOnePiece

\* At a line, when nothing more arrives.
LEMMA LineReached ==
  ASSUME TypeOK, AtLine
  PROVE  LET r == Reader(stage, output, trailer, input)
         IN Reached(fed, r) /\ Len(r.rest) \in Nat
<1>1. fed \o <<>> = fed /\ input \o <<>> = input /\ <<>> \in Seq(Bytes)
  BY DEF TypeOK
<1>2. Reached(fed, Reader(stage, output, trailer, input))
  BY <1>1, Zenon DEF AtLine
<1>3. Reader(stage, output, trailer, input).rest = input /\ Len(input) \in Nat
  BY DEF Reader, TypeOK
<1> QED  BY <1>2, <1>3

\* In a chunk, when nothing more arrives.
LEMMA ChunkReached ==
  ASSUME TypeOK, NEW c \in Seq(Bytes), NEW b \in Seq(Bytes), InChunk(c, b)
  PROVE  LET r == Reader("SizeLine", b, trailer, c \o input)
         IN Reached(fed, r) /\ Len(r.rest) \in Nat
<1>1. fed \o <<>> = fed /\ input \o <<>> = input /\ <<>> \in Seq(Bytes)
  BY DEF TypeOK
<1>2. Reached(fed, Reader("SizeLine", b, trailer, c \o input))
  BY <1>1, Zenon DEF InChunk
<1>3. Reader("SizeLine", b, trailer, c \o input).rest = c \o input /\ Len(c \o input) \in Nat
  BY DEF Reader, TypeOK
<1> QED  BY <1>2, <1>3

\* A call that returns without having moved leaves the decoder where it was.
LEMMA StaysInStep ==
  ASSUME InStep, UNCHANGED <<stage, remaining, trailer, input, output, fed>>
  PROVE  InStep'
<1>1. AtLine => AtLine'
  BY DEF AtLine
<1>2. \A c, b : InChunk(c, b) => InChunk(c, b)'
  BY DEF InChunk, Chunk
<1> QED  BY <1>1, <1>2 DEF InStep

LEMMA SizeLineUnfinishedOnTrack ==
  ASSUME TypeOK, OnTrack, SizeLineUnfinished
  PROVE  OnTrack'
<1>1. /\ status = "running" /\ stage = "SizeLine" /\ ~HasCrlf(input)
      /\ UNCHANGED <<stage, remaining, trailer, input, output, fed>>
      /\ status' = IF Len(input) > MaxChunkLineBytes THEN "ResponseLimitExceeded"
                                                     ELSE "NeedMore"
  BY DEF SizeLineUnfinished, Running
<1>2. InStep /\ AtLine
  BY <1>1 DEF OnTrack, InStep
<1>3. InStep'
  BY <1>1, <1>2, StaysInStep
<1> DEFINE r == Reader("SizeLine", output, trailer, input)
<1>4. Reached(fed, r) /\ Len(r.rest) \in Nat
  BY <1>1, <1>2, LineReached
<1>5. ReadOn(r) = Reader(status', output', trailer, input')
  BY <1>1, ReadsPartOfLine, Zenon
<1> HIDE DEF r
<1>6. SameAsInOnePiece'
  BY <1>1, <1>4, <1>5, SameOutcome
<1> QED  BY <1>3, <1>6 DEF OnTrack

LEMMA TrailersUnfinishedOnTrack ==
  ASSUME TypeOK, OnTrack, TrailersUnfinished
  PROVE  OnTrack'
<1>1. /\ status = "running" /\ stage = "Trailers" /\ ~HasCrlf(input)
      /\ UNCHANGED <<stage, remaining, trailer, input, output, fed>>
      /\ status' = IF WouldExceed(trailer, Len(input), MaxTrailerBytes)
                     THEN "ResponseLimitExceeded" ELSE "NeedMore"
  BY DEF TrailersUnfinished, Running
<1>2. InStep /\ AtLine
  BY <1>1 DEF OnTrack, InStep
<1>3. InStep'
  BY <1>1, <1>2, StaysInStep
<1>4. status' = IF trailer + Len(input) > MaxTrailerBytes
                  THEN "ResponseLimitExceeded" ELSE "NeedMore"
  BY <1>1, WouldExceedIsSum, LimitAssumption DEF TypeOK
<1> DEFINE r == Reader("Trailers", output, trailer, input)
<1>5. Reached(fed, r) /\ Len(r.rest) \in Nat
  BY <1>1, <1>2, LineReached
<1>6. ReadOn(r) = Reader(status', output', trailer, input')
  BY <1>1, <1>4, ReadsPartOfLine, Zenon
<1> HIDE DEF r
<1>7. SameAsInOnePiece'
  BY <1>1, <1>5, <1>6, SameOutcome
<1> QED  BY <1>3, <1>7 DEF OnTrack

LEMMA SizeLineRejectedOnTrack ==
  ASSUME TypeOK, OnTrack, SizeLineRejected
  PROVE  OnTrack'
<1> DEFINE line == Line(input)
           size == HexNumber(SizeText(line))
           r == Reader("SizeLine", output, trailer, input)
<1>1. status = "running" /\ stage = "SizeLine" /\ HasCrlf(input)
  BY DEF SizeLineRejected, Running
<1>2. Reached(fed, r) /\ Len(r.rest) \in Nat
  BY <1>1, LineReached DEF OnTrack, InStep
<1>3. \/ Len(line) > MaxChunkLineBytes /\ Fails("ResponseLimitExceeded")
      \/ /\ ~(Len(line) > MaxChunkLineBytes) /\ SizeError(line) # "none"
         /\ Fails(SizeError(line))
      \/ /\ ~(Len(line) > MaxChunkLineBytes) /\ SizeError(line) = "none"
         /\ WouldExceed(Len(output), size, MaxBodyBytes) /\ size # 0
         /\ Fails("ResponseLimitExceeded")
  BY Zenon DEF SizeLineRejected
<1>4. SizeError(line) = "none" => size \in Nat
  BY AcceptedSize
<1>5. SizeError(line) \in {"none", "InvalidChunkSize", "InvalidChunkFraming"}
  BY SizeErrors
<1> HIDE DEF line, size
<1>6. SizeError(line) = "none" /\ WouldExceed(Len(output), size, MaxBodyBytes) =>
        Len(output) + size > MaxBodyBytes
  BY <1>4, WouldExceedIsSum, LimitAssumption DEF TypeOK
<1>7. /\ fed' = fed /\ output' = output /\ input' = input
      /\ status' \in {"ResponseLimitExceeded", "InvalidChunkSize", "InvalidChunkFraming"}
  BY <1>3, <1>5 DEF Fails
<1>8. ReadOn(r) = Reader(status', output', trailer, input')
  <2>1. ReadOn(r) =
          IF Len(line) > MaxChunkLineBytes
            THEN Reader("ResponseLimitExceeded", output, trailer, input)
          ELSE IF SizeError(line) # "none"
            THEN Reader(SizeError(line), output, trailer, input)
          ELSE IF size = 0 THEN Reader("Trailers", output, trailer, AfterLine(input))
          ELSE IF Len(output) + size > MaxBodyBytes
            THEN Reader("ResponseLimitExceeded", output, trailer, input)
          ELSE ReadOn(r)
    BY <1>1, ReadsChunk, Zenon DEF line, size
  <2> QED  BY <1>3, <1>6, <1>7, <2>1, Zenon DEF Fails
<1> HIDE DEF r
<1>9. SameAsInOnePiece'
  BY <1>2, <1>7, <1>8, SameOutcome
<1> QED  BY <1>7, <1>9 DEF OnTrack

\* From a line that is behind the next step of the reader, it goes on there.
LEMMA NextLine ==
  ASSUME TypeOK, AtLine, stage \in {"SizeLine", "Trailers"},
         NEW at, NEW seen, NEW rest \in Seq(Bytes), Len(rest) < Len(input),
         NEW g \in Seq(Bytes),
         ReadOn(Reader(stage, output, trailer, input \o g))
           = Reader(at, output, seen, rest \o g)
  PROVE  Reached(fed \o g, Reader(at, output, seen, rest \o g))
<1> DEFINE s == fed \o g
           r == Reader(stage, output, trailer, input \o g)
           t == Reader(at, output, seen, rest \o g)
<1>1. s \in Seq(Bytes) /\ Reached(s, r) /\ t = ReadOn(r)
  BY DEF AtLine, TypeOK
<1>2. r.rest = input \o g /\ t.rest = rest \o g
  BY DEF Reader
<1>3. /\ Len(input \o g) = Len(input) + Len(g) /\ Len(rest \o g) = Len(rest) + Len(g)
      /\ Len(input) \in Nat /\ Len(rest) \in Nat /\ Len(g) \in Nat
  BY DEF TypeOK
<1> HIDE DEF s, r, t
<1>4. Len(r.rest) \in Nat /\ Len(t.rest) \in Nat /\ Len(t.rest) < Len(r.rest)
  BY <1>2, <1>3
<1>5. Reached(s, t)
  BY <1>1, <1>4, ReachedNext
<1> QED  BY <1>5 DEF s, t

LEMMA SizeLineAcceptedOnTrack ==
  ASSUME TypeOK, OnTrack, SizeLineAccepted
  PROVE  OnTrack'
<1> DEFINE line == Line(input)
           size == HexNumber(SizeText(line))
           rest == AfterLine(input)
<1>1. /\ status = "running" /\ stage = "SizeLine" /\ HasCrlf(input)
      /\ Len(line) <= MaxChunkLineBytes /\ SizeError(line) = "none"
      /\ size # 0 => ~WouldExceed(Len(output), size, MaxBodyBytes)
      /\ remaining' = size
      /\ stage' = IF size = 0 THEN "Trailers" ELSE "Data"
      /\ input' = rest
      /\ UNCHANGED <<trailer, output, status, fed>>
  BY DEF SizeLineAccepted, Running
<1>2. PICK c \in Seq(Bytes) :
        /\ HasCrlf(c) /\ Line(c) = line /\ AfterLine(c) = <<>>
        /\ input = c \o rest /\ Len(rest) = Len(input) - (LineLength(input) + 2)
  BY <1>1, LineSplit, Zenon DEF TypeOK
<1>3. rest \in Seq(Bytes) /\ LineLength(input) \in 0..(Len(input) - 2)
  BY <1>1, LineParts, LineLengthBounds DEF TypeOK
<1>4. size \in Nat /\ Len(line) \in Nat /\ Len(line) = LineLength(input)
  BY <1>1, <1>3, AcceptedSize, LineParts DEF TypeOK
<1>5. AtLine
  BY <1>1 DEF OnTrack, InStep
<1>6. \A g \in Seq(Bytes) : /\ input \o g \in Seq(Bytes) /\ HasCrlf(input \o g)
                            /\ Line(input \o g) = line
                            /\ AfterLine(input \o g) = rest \o g
  BY <1>1, LineStays DEF TypeOK
<1> HIDE DEF line, size, rest
<1>7. size # 0 => Len(output) + size <= MaxBodyBytes
  <2>1. Len(output) \in Nat
    BY DEF TypeOK
  <2> QED  BY <1>1, <1>4, <2>1, WouldExceedIsSum, LimitAssumption
<1>8. ~(Len(line) > MaxChunkLineBytes) /\ Len(rest) < Len(input)
  <2>1. Len(input) \in Nat
    BY DEF TypeOK
  <2> QED  BY <1>1, <1>2, <1>3, <1>4, <2>1, LimitAssumption
<1>9. CASE size = 0
  <2>1. ASSUME NEW g \in Seq(Bytes)
        PROVE  Reached(fed \o g, Reader("Trailers", output, trailer, rest \o g))
    <3>1. ReadOn(Reader("SizeLine", output, trailer, input \o g))
            = Reader("Trailers", output, trailer, rest \o g)
      <4> DEFINE x == input \o g
      <4>1. HasCrlf(x) /\ Line(x) = line /\ AfterLine(x) = rest \o g
        BY <1>6
      <4> HIDE DEF x
      <4>2. ReadOn(Reader("SizeLine", output, trailer, x))
              = IF Len(line) > MaxChunkLineBytes
                  THEN ReadOn(Reader("SizeLine", output, trailer, x))
                ELSE IF SizeError(line) # "none"
                  THEN ReadOn(Reader("SizeLine", output, trailer, x))
                ELSE IF HexNumber(SizeText(line)) = 0
                  THEN Reader("Trailers", output, trailer, rest \o g)
                ELSE ReadOn(Reader("SizeLine", output, trailer, x))
        BY <4>1, ReadsChunk, Zenon
      <4>3. ReadOn(Reader("SizeLine", output, trailer, x))
              = Reader("Trailers", output, trailer, rest \o g)
        BY <1>1, <1>8, <1>9, <4>2, Zenon DEF size
      <4> QED  BY <4>3 DEF x
    <3> QED  BY <1>1, <1>3, <1>5, <1>8, <3>1, NextLine
  <2>2. AtLine'
    BY <1>1, <1>9, <2>1 DEF AtLine
  <2>3. InStep' /\ status' = "running"
    BY <1>1, <1>9, <2>2 DEF InStep
  <2> QED  BY <2>3 DEF OnTrack, SameAsInOnePiece
<1>10. CASE size # 0
  <2>1. PICK b \in Seq(Bytes) : b = output
    BY DEF TypeOK
  <2>2. output' = b \o AfterLine(c) /\ size = Len(AfterLine(c)) + remaining'
    BY <1>1, <1>2, <1>4, <2>1
  <2>3. Chunk(c, b)'
    <3>1. Len(b) + size <= MaxBodyBytes
      BY <1>7, <1>10, <2>1
    <3>2. HexNumber(SizeText(Line(c))) = size /\ size = remaining'
      BY <1>1, <1>2 DEF size
    <3> QED  BY <1>1, <1>2, <1>10, <2>2, <3>1, <3>2 DEF Chunk
  <2>4. ASSUME NEW g \in Seq(Bytes)
        PROVE  Reached(fed \o g, Reader("SizeLine", b, trailer, c \o (rest \o g)))
    <3>1. input \o g = c \o (rest \o g)
      <4>1. (c \o rest) \o g = c \o (rest \o g)
        BY <1>3, Joined
      <4> QED  BY <1>2, <4>1
    <3>2. Reached(fed \o g, Reader(stage, output, trailer, input \o g))
      BY <1>5 DEF AtLine
    <3> QED  BY <1>1, <2>1, <3>1, <3>2, Zenon
  <2>5. \A g \in Seq(Bytes) :
          Reached(fed' \o g, Reader("SizeLine", b, trailer', c \o (input' \o g)))
    BY <1>1, <2>4, Zenon
  <2>6. InChunk(c, b)'
    BY <2>3, <2>5 DEF InChunk
  <2>7. InStep' /\ status' = "running"
    BY <1>1, <1>10, <2>6 DEF InStep
  <2> QED  BY <2>7 DEF OnTrack, SameAsInOnePiece
<1> QED  BY <1>9, <1>10

LEMMA TrailerLineOnTrack ==
  ASSUME TypeOK, OnTrack, TrailerLine
  PROVE  OnTrack'
<1> DEFINE line == Line(input)
           bytes == LineLength(input) + 2
           rest == AfterLine(input)
<1>1. status = "running" /\ stage = "Trailers" /\ HasCrlf(input)
  BY DEF TrailerLine, Running
<1>2. \/ WouldExceed(trailer, bytes, MaxTrailerBytes) /\ Fails("ResponseLimitExceeded")
      \/ /\ ~WouldExceed(trailer, bytes, MaxTrailerBytes)
         /\ trailer' = trailer + bytes /\ input' = rest
         /\ \/ line = <<>> /\ stage' = "Complete" /\ status' = "Complete"
            \/ line # <<>> /\ ~ValidTrailerLine(line) /\ status' = "InvalidHeader"
            \/ /\ line # <<>> /\ ValidTrailerLine(line)
               /\ stage' = stage /\ status' = status
         /\ UNCHANGED <<remaining, output, fed>>
  BY Zenon DEF TrailerLine
<1>3. AtLine
  BY <1>1 DEF OnTrack, InStep
<1>4. \A g \in Seq(Bytes) : /\ HasCrlf(input \o g) /\ Line(input \o g) = line
                            /\ LineLength(input \o g) + 2 = bytes
                            /\ AfterLine(input \o g) = rest \o g
  BY <1>1, LineStays DEF TypeOK
<1>5. /\ rest \in Seq(Bytes) /\ LineLength(input) \in 0..(Len(input) - 2)
      /\ Len(rest) = Len(input) - bytes
  BY <1>1, LineParts, LineLengthBounds, LineSplit DEF TypeOK
<1>6. bytes \in Nat /\ bytes > 0 /\ trailer \in Nat /\ Len(input) \in Nat
  BY <1>5 DEF TypeOK
<1> HIDE DEF line, bytes, rest
<1>7. WouldExceed(trailer, bytes, MaxTrailerBytes) <=> trailer + bytes > MaxTrailerBytes
  BY <1>6, WouldExceedIsSum, LimitAssumption
<1>8. ASSUME NEW g \in Seq(Bytes)
      PROVE  ReadOn(Reader("Trailers", output, trailer, input \o g)) =
               IF trailer + bytes > MaxTrailerBytes
                 THEN Reader("ResponseLimitExceeded", output, trailer, input \o g)
               ELSE Reader(IF line = <<>> THEN "Complete"
                           ELSE IF ValidTrailerLine(line) THEN "Trailers"
                           ELSE "InvalidHeader",
                           output, trailer + bytes, rest \o g)
  <2> DEFINE x == input \o g
  <2>1. /\ HasCrlf(x) /\ Line(x) = line /\ LineLength(x) + 2 = bytes
        /\ AfterLine(x) = rest \o g
    BY <1>4
  <2> HIDE DEF x
  <2>2. ReadOn(Reader("Trailers", output, trailer, x)) =
          IF trailer + bytes > MaxTrailerBytes
            THEN Reader("ResponseLimitExceeded", output, trailer, x)
          ELSE Reader(IF line = <<>> THEN "Complete"
                      ELSE IF ValidTrailerLine(line) THEN "Trailers"
                      ELSE "InvalidHeader",
                      output, trailer + bytes, rest \o g)
    BY <2>1, ReadsTrailer, Zenon
  <2> QED  BY <2>2, Zenon DEF x
<1> DEFINE r == Reader("Trailers", output, trailer, input)
<1>9. Reached(fed, r) /\ Len(r.rest) \in Nat
  BY <1>1, <1>3, LineReached
<1>10. ReadOn(r) =
         IF trailer + bytes > MaxTrailerBytes
           THEN Reader("ResponseLimitExceeded", output, trailer, input)
         ELSE Reader(IF line = <<>> THEN "Complete"
                     ELSE IF ValidTrailerLine(line) THEN "Trailers"
                     ELSE "InvalidHeader",
                     output, trailer + bytes, rest)
  <2>1. input \o <<>> = input /\ rest \o <<>> = rest /\ <<>> \in Seq(Bytes)
    BY <1>5 DEF TypeOK
  <2> QED  BY <1>8, <2>1, Zenon
<1> HIDE DEF r
<1>11. CASE Fails("ResponseLimitExceeded") /\ WouldExceed(trailer, bytes, MaxTrailerBytes)
  <2>1. /\ status' = "ResponseLimitExceeded" /\ fed' = fed
        /\ output' = output /\ input' = input
    BY <1>11 DEF Fails
  <2>2. ReadOn(r) = Reader(status', output', trailer, input')
    BY <1>7, <1>10, <1>11, <2>1, Zenon
  <2>3. SameAsInOnePiece'
    BY <1>9, <2>1, <2>2, SameOutcome
  <2> QED  BY <2>1, <2>3 DEF OnTrack
<1>12. CASE /\ ~WouldExceed(trailer, bytes, MaxTrailerBytes)
            /\ input' = rest /\ output' = output /\ fed' = fed
            /\ \/ line = <<>> /\ status' = "Complete"
               \/ line # <<>> /\ ~ValidTrailerLine(line) /\ status' = "InvalidHeader"
  <2>1. ReadOn(r) = Reader(status', output', trailer + bytes, input')
    BY <1>7, <1>10, <1>12, Zenon
  <2>2. status' \in {"Complete", "InvalidHeader"}
    BY <1>12
  <2>3. SameAsInOnePiece'
    BY <1>9, <1>12, <2>1, <2>2, SameOutcome
  <2> QED  BY <2>2, <2>3 DEF OnTrack
<1>13. CASE /\ ~WouldExceed(trailer, bytes, MaxTrailerBytes)
            /\ input' = rest /\ trailer' = trailer + bytes
            /\ UNCHANGED <<stage, status, output, fed>>
            /\ line # <<>> /\ ValidTrailerLine(line)
  <2>1. ASSUME NEW g \in Seq(Bytes)
        PROVE  Reached(fed \o g, Reader("Trailers", output, trailer', rest \o g))
    <3>1. ReadOn(Reader("Trailers", output, trailer, input \o g))
            = Reader("Trailers", output, trailer', rest \o g)
      BY <1>7, <1>8, <1>13, Zenon
    <3>2. Len(rest) < Len(input)
      BY <1>5, <1>6
    <3>3. PICK seen : seen = trailer'
      OBVIOUS
    <3> QED  BY <1>1, <1>3, <1>5, <3>1, <3>2, <3>3, NextLine
  <2>2. AtLine'
    BY <1>1, <1>13, <2>1 DEF AtLine
  <2>3. InStep' /\ status' = "running"
    BY <1>1, <1>13, <2>2 DEF InStep
  <2> QED  BY <2>3 DEF OnTrack, SameAsInOnePiece
<1> QED  BY <1>2, <1>11, <1>12, <1>13, Zenon

\* What the reader makes of a chunk whose data is there, x behind it.
LEMMA ReadsWholeChunk ==
  ASSUME TypeOK, NEW c \in Seq(Bytes), NEW b \in Seq(Bytes), Chunk(c, b), remaining = 0,
         NEW x \in Seq(Bytes), NEW seen
  PROVE  ReadOn(Reader("SizeLine", b, seen, c \o x)) =
           IF Len(x) < 2 THEN Reader("NeedMore", output, seen, x)
           ELSE IF ~CrlfAt(x, 1) THEN Reader("InvalidChunkFraming", output, seen, x)
           ELSE Reader("SizeLine", output, seen, SubSeq(x, 3, Len(x)))
<1> DEFINE line == Line(c)
           size == HexNumber(SizeText(line))
           a == AfterLine(c)
           data == a \o x
           r == Reader("SizeLine", b, seen, c \o x)
<1>1. /\ HasCrlf(c) /\ Len(line) <= MaxChunkLineBytes /\ SizeError(line) = "none"
      /\ size # 0 /\ Len(b) + size <= MaxBodyBytes
      /\ output = b \o a /\ size = Len(a) + remaining
  BY Zenon DEF Chunk
<1>2. a \in Seq(Bytes) /\ Len(line) \in Nat
  BY <1>1, LineParts, LineLengthBounds
<1>3. HasCrlf(c \o x) /\ Line(c \o x) = line /\ AfterLine(c \o x) = data
  BY <1>1, LineStays
<1> HIDE DEF line, size
<1>4. ReadOn(r) =
        IF Len(line) > MaxChunkLineBytes
          THEN Reader("ResponseLimitExceeded", b, seen, c \o x)
        ELSE IF SizeError(line) # "none"
          THEN Reader(SizeError(line), b, seen, c \o x)
        ELSE IF size = 0 THEN Reader("Trailers", b, seen, data)
        ELSE IF Len(b) + size > MaxBodyBytes
          THEN Reader("ResponseLimitExceeded", b, seen, c \o x)
        ELSE IF Len(data) < size THEN Reader("NeedMore", b \o data, seen, <<>>)
        ELSE IF Len(SubSeq(data, size + 1, Len(data))) < 2
          THEN Reader("NeedMore", b \o SubSeq(data, 1, size), seen,
                      SubSeq(data, size + 1, Len(data)))
        ELSE IF ~CrlfAt(SubSeq(data, size + 1, Len(data)), 1)
          THEN Reader("InvalidChunkFraming", b \o SubSeq(data, 1, size), seen,
                      SubSeq(data, size + 1, Len(data)))
        ELSE Reader("SizeLine", b \o SubSeq(data, 1, size), seen,
                    SubSeq(SubSeq(data, size + 1, Len(data)), 3,
                           Len(SubSeq(data, size + 1, Len(data)))))
  <2> DEFINE y == c \o x
  <2>1. HasCrlf(y) /\ Line(y) = line /\ AfterLine(y) = data
    BY <1>3
  <2> HIDE DEF y, data
  <2> QED  BY <2>1, ReadsChunk, Zenon DEF size, y
<1> HIDE DEF a, r
<1>5. size = Len(a) /\ Len(a) \in Nat
  BY <1>1, <1>2
<1>6. /\ SubSeq(data, 1, size) = a
      /\ SubSeq(data, size + 1, Len(data)) = x
      /\ Len(data) = Len(a) + Len(x)
  <2>1. /\ SubSeq(a \o x, 1, Len(a)) = a
        /\ SubSeq(a \o x, Len(a) + 1, Len(a \o x)) = x
        /\ Len(a \o x) = Len(a) + Len(x)
    BY <1>2, Behind
  <2> QED  BY <1>5, <2>1, Zenon
<1> HIDE DEF data
<1>7. /\ ~(Len(line) > MaxChunkLineBytes) /\ ~(Len(b) + size > MaxBodyBytes)
      /\ ~(Len(data) < size)
  <2>1. Len(x) \in Nat /\ Len(b) \in Nat
    OBVIOUS
  <2> QED  BY <1>1, <1>2, <1>5, <1>6, <2>1, LimitAssumption
<1> QED  BY <1>1, <1>4, <1>6, <1>7, Zenon DEF r

\* What the reader makes of a chunk whose data is not all there.
LEMMA ReadsPartOfChunk ==
  ASSUME TypeOK, NEW c \in Seq(Bytes), NEW b \in Seq(Bytes), Chunk(c, b), remaining > 0,
         NEW seen
  PROVE  ReadOn(Reader("SizeLine", b, seen, c)) = Reader("NeedMore", output, seen, <<>>)
<1> DEFINE line == Line(c)
           size == HexNumber(SizeText(line))
           data == AfterLine(c)
           r == Reader("SizeLine", b, seen, c)
<1>1. /\ HasCrlf(c) /\ Len(line) <= MaxChunkLineBytes /\ SizeError(line) = "none"
      /\ size # 0 /\ Len(b) + size <= MaxBodyBytes
      /\ output = b \o data /\ size = Len(data) + remaining
  BY Zenon DEF Chunk
<1>2. Len(data) \in Nat /\ Len(line) \in Nat /\ remaining \in Nat
  BY <1>1, LineParts, LineLengthBounds DEF TypeOK
<1>3. ReadOn(r) =
        IF Len(line) > MaxChunkLineBytes THEN ReadOn(r)
        ELSE IF SizeError(line) # "none" THEN ReadOn(r)
        ELSE IF size = 0 THEN ReadOn(r)
        ELSE IF Len(b) + size > MaxBodyBytes THEN ReadOn(r)
        ELSE IF Len(data) < size THEN Reader("NeedMore", b \o data, seen, <<>>)
        ELSE ReadOn(r)
  BY <1>1, ReadsChunk, Zenon
<1> HIDE DEF line, size, data, r
<1>4. /\ ~(Len(line) > MaxChunkLineBytes) /\ ~(Len(b) + size > MaxBodyBytes)
      /\ Len(data) < size
  <2>1. Len(b) \in Nat
    OBVIOUS
  <2> QED  BY <1>1, <1>2, <2>1, LimitAssumption
<1> QED  BY <1>1, <1>3, <1>4, Zenon DEF r

\* A call that has taken all there is of a chunk has read all that was fed.
LEMMA OutOfData ==
  TypeOK /\ InStep /\ stage = "Data" /\ remaining > 0 /\ status = "NeedMore"
    /\ input = <<>> => SameAsInOnePiece
<1> SUFFICES ASSUME TypeOK, InStep, stage = "Data", remaining > 0, status = "NeedMore",
                    input = <<>>
             PROVE  SameAsInOnePiece
  OBVIOUS
<1>1. PICK c \in Seq(Bytes), b \in Seq(Bytes) : InChunk(c, b)
  BY DEF InStep
<1> DEFINE r == Reader("SizeLine", b, trailer, c)
           t == Reader("NeedMore", output, trailer, <<>>)
<1>2. Reached(fed, r) /\ Len(r.rest) \in Nat
  <2>1. c \o input = c
    OBVIOUS
  <2>2. LET q == Reader("SizeLine", b, trailer, c \o input)
        IN Reached(fed, q) /\ Len(q.rest) \in Nat
    BY <1>1, ChunkReached
  <2> QED  BY <2>1, <2>2, Zenon
<1>3. ReadOn(r) = t
  BY <1>1, ReadsPartOfChunk DEF InChunk
<1>4. ReadOn(t) = t /\ t.at = "NeedMore" /\ t.body = output /\ t.rest = <<>>
  BY DEF Reader, ReadOn
<1> HIDE DEF r, t
<1>5. InOnePiece(fed) = t
  BY <1>2, <1>3, <1>4, ReachedEnd DEF TypeOK
<1> QED  BY <1>4, <1>5 DEF SameAsInOnePiece

LEMMA DataOnTrack ==
  ASSUME TypeOK, OnTrack, Data
  PROVE  OnTrack'
<1>1. PICK amount : amount = IF remaining <= Len(input) THEN remaining ELSE Len(input)
  OBVIOUS
<1>2. /\ output' = output \o SubSeq(input, 1, amount)
      /\ input' = SubSeq(input, amount + 1, Len(input))
      /\ remaining' = remaining - amount
      /\ \/ amount = remaining /\ stage' = "DataCrlf" /\ status' = "running"
         \/ amount # remaining /\ status' = "NeedMore" /\ stage' = "Data"
      /\ status = "running" /\ stage = "Data"
      /\ UNCHANGED <<trailer, fed>>
  BY <1>1 DEF Data, Running
<1>3. /\ amount \in 0..Len(input) /\ amount <= remaining /\ remaining \in Nat
      /\ amount = remaining \/ amount = Len(input)
  BY <1>1 DEF TypeOK
<1>4. PICK d \in Seq(Bytes) :
        d = SubSeq(input, 1, amount) /\ Len(d) = amount /\ input = d \o input'
  BY <1>2, <1>3, CutInTwo, Zenon DEF TypeOK
<1>5. /\ input' \in Seq(Bytes) /\ output' \in Seq(Bytes) /\ remaining' \in Nat
      /\ status' = "NeedMore" => input' = <<>>
  BY DataMoves
<1>6. PICK c \in Seq(Bytes), b \in Seq(Bytes) : InChunk(c, b)
  BY <1>2 DEF OnTrack, InStep
<1>7. /\ HasCrlf(c) /\ Len(Line(c)) <= MaxChunkLineBytes
      /\ SizeError(Line(c)) = "none" /\ HexNumber(SizeText(Line(c))) # 0
      /\ Len(b) + HexNumber(SizeText(Line(c))) <= MaxBodyBytes
      /\ output = b \o AfterLine(c)
      /\ HexNumber(SizeText(Line(c))) = Len(AfterLine(c)) + remaining
  BY <1>6, Zenon DEF InChunk, Chunk
<1>8. PICK e \in Seq(Bytes) : e = c \o d
  <2>1. c \o d \in Seq(Bytes)
    BY JoinedType
  <2> QED  BY <2>1
<1>9. /\ HasCrlf(e) /\ Line(e) = Line(c) /\ AfterLine(e) = AfterLine(c) \o d
      /\ AfterLine(c) \in Seq(Bytes)
  BY <1>7, <1>8, LineStays, LineParts
<1>10. output' = b \o AfterLine(e)
  <2>1. (b \o AfterLine(c)) \o d = b \o (AfterLine(c) \o d)
    <3>1. AfterLine(c) \in Seq(Bytes)
      BY <1>9
    <3> QED  BY <3>1, Joined
  <2> QED  BY <1>2, <1>4, <1>7, <1>9, <2>1, Zenon
<1>11. HexNumber(SizeText(Line(e))) = Len(AfterLine(e)) + remaining'
  <2>1. Len(AfterLine(e)) = Len(AfterLine(c)) + amount /\ Len(AfterLine(c)) \in Nat
    BY <1>4, <1>9
  <2>2. HexNumber(SizeText(Line(e))) = Len(AfterLine(c)) + remaining
    BY <1>7, <1>9, Zenon
  <2> QED  BY <1>2, <1>3, <2>1, <2>2
<1>12. Chunk(e, b)'
  <2>1. /\ HasCrlf(e) /\ Len(Line(e)) <= MaxChunkLineBytes
        /\ SizeError(Line(e)) = "none" /\ HexNumber(SizeText(Line(e))) # 0
        /\ Len(b) + HexNumber(SizeText(Line(e))) <= MaxBodyBytes
    BY <1>7, <1>9, Zenon
  <2> QED  BY <1>10, <1>11, <2>1, Zenon DEF Chunk
<1>13. InChunk(e, b)'
  <2>1. ASSUME NEW g \in Seq(Bytes)
        PROVE  Reached(fed' \o g, Reader("SizeLine", b, trailer', e \o (input' \o g)))
    <3>1. c \o (input \o g) = e \o (input' \o g)
      <4>1. PICK x \in Seq(Bytes) : x = input'
        BY <1>5
      <4>2. (d \o x) \o g = d \o (x \o g) /\ x \o g \in Seq(Bytes)
        <5>1. (d \o x) \o g = d \o (x \o g)
          OBVIOUS
        <5>2. x \o g \in Seq(Bytes)
          BY JoinedType
        <5> QED  BY <5>1, <5>2
      <4>3. (c \o d) \o (x \o g) = c \o (d \o (x \o g))
        <5>1. PICK y \in Seq(Bytes) : y = x \o g
          BY <4>2, Zenon
        <5>2. (c \o d) \o y = c \o (d \o y)
          OBVIOUS
        <5> QED  BY <5>1, <5>2
      <4>4. input = d \o x
        BY <1>4, <4>1, Zenon
      <4>5. input \o g = d \o (x \o g)
        BY <4>2, <4>4, Zenon
      <4>6. c \o (d \o (x \o g)) = e \o (x \o g)
        BY <1>8, <4>3, Zenon
      <4> QED  BY <4>1, <4>5, <4>6, Zenon
    <3>2. Reached(fed \o g, Reader("SizeLine", b, trailer, c \o (input \o g)))
      BY <1>6 DEF InChunk
    <3>3. fed' = fed /\ trailer' = trailer
      BY <1>2
    <3> QED  BY <3>1, <3>2, <3>3
  <2> QED  BY <1>12, <2>1 DEF InChunk
<1>14. InStep'
  <2>1. stage' = "DataCrlf" => remaining' = 0
    BY <1>2, <1>3
  <2>2. stage' \in {"Data", "DataCrlf"}
    BY <1>2
  <2> QED  BY <1>13, <2>1, <2>2 DEF InStep
<1>15. CASE status' = "running"
  BY <1>14, <1>15 DEF OnTrack, SameAsInOnePiece
<1>16. CASE status' = "NeedMore"
  <2>1. input' = <<>> /\ remaining' > 0
    BY <1>2, <1>3, <1>5, <1>16
  <2>2. TypeOK'
    BY TypeStep DEF Next, Loop
  <2>3. (TypeOK /\ InStep /\ stage = "Data" /\ remaining > 0
          /\ status = "NeedMore" /\ input = <<>> => SameAsInOnePiece)'
    BY OutOfData, PTL
  <2>4. SameAsInOnePiece'
    BY <1>2, <1>14, <1>16, <2>1, <2>2, <2>3
  <2> QED  BY <1>14, <2>4 DEF OnTrack
<1> QED  BY <1>2, <1>15, <1>16

LEMMA DataCrlfOnTrack ==
  ASSUME TypeOK, OnTrack, DataCrlf
  PROVE  OnTrack'
<1>1. /\ status = "running" /\ stage = "DataCrlf"
      /\ UNCHANGED <<remaining, trailer, output, fed>>
      /\ \/ Len(input) < 2 /\ status' = "NeedMore" /\ stage' = stage /\ input' = input
         \/ /\ ~(Len(input) < 2) /\ ~CrlfAt(input, 1)
            /\ status' = "InvalidChunkFraming" /\ input' = input
         \/ /\ ~(Len(input) < 2) /\ CrlfAt(input, 1)
            /\ stage' = "SizeLine" /\ status' = "running"
            /\ input' = SubSeq(input, 3, Len(input))
  BY DEF DataCrlf, Running, TypeOK
<1>2. InStep /\ remaining = 0
  BY <1>1 DEF OnTrack, InStep
<1>3. PICK c \in Seq(Bytes), b \in Seq(Bytes) : InChunk(c, b)
  BY <1>1, <1>2 DEF InStep
<1>4. ASSUME NEW x \in Seq(Bytes)
      PROVE  ReadOn(Reader("SizeLine", b, trailer, c \o x)) =
               IF Len(x) < 2 THEN Reader("NeedMore", output, trailer, x)
               ELSE IF ~CrlfAt(x, 1) THEN Reader("InvalidChunkFraming", output, trailer, x)
               ELSE Reader("SizeLine", output, trailer, SubSeq(x, 3, Len(x)))
  BY <1>2, <1>3, ReadsWholeChunk DEF InChunk
<1>5. CASE status' \in {"NeedMore", "InvalidChunkFraming"}
  <2> DEFINE r == Reader("SizeLine", b, trailer, c \o input)
  <2>1. Reached(fed, r) /\ Len(r.rest) \in Nat
    BY <1>3, ChunkReached
  <2>2. ReadOn(r) = Reader(status', output', trailer, input')
    <3>1. input \in Seq(Bytes)
      BY DEF TypeOK
    <3>2. \/ Len(input) < 2 /\ status' = "NeedMore"
          \/ /\ ~(Len(input) < 2) /\ ~CrlfAt(input, 1)
             /\ status' = "InvalidChunkFraming"
      BY <1>1, <1>5
    <3>3. output' = output /\ input' = input
      BY <1>1, <1>5
    <3> QED  BY <1>4, <3>1, <3>2, <3>3, Zenon
  <2> HIDE DEF r
  <2>3. SameAsInOnePiece'
    BY <1>1, <1>5, <2>1, <2>2, SameOutcome
  <2>4. status' = "NeedMore" => InStep'
    BY <1>1, <1>2, StaysInStep
  <2> QED  BY <1>5, <2>3, <2>4 DEF OnTrack
<1>6. CASE /\ ~(Len(input) < 2) /\ CrlfAt(input, 1)
           /\ stage' = "SizeLine" /\ status' = "running"
           /\ input' = SubSeq(input, 3, Len(input))
  <2>1. ASSUME NEW g \in Seq(Bytes)
        PROVE  Reached(fed' \o g, Reader("SizeLine", output', trailer', input' \o g))
    <3> DEFINE s == fed \o g
               x == input \o g
               r == Reader("SizeLine", b, trailer, c \o x)
               t == Reader("SizeLine", output, trailer, SubSeq(x, 3, Len(x)))
    <3>1. s \in Seq(Bytes) /\ Reached(s, r)
      BY <1>3 DEF InChunk, TypeOK
    <3>2. 2 \in 0..Len(input) /\ input \in Seq(Bytes) /\ Len(input) \in Nat
      BY <1>6 DEF TypeOK
    <3>3. SubSeq(x, 3, Len(x)) = SubSeq(input, 3, Len(input)) \o g
      <4>1. SubSeq(input \o g, 2 + 1, Len(input \o g))
              = SubSeq(input, 2 + 1, Len(input)) \o g
        BY <3>2, CutAppended, Zenon
      <4> QED  BY <4>1
    <3>4. x \in Seq(Bytes) /\ ~(Len(x) < 2) /\ CrlfAt(x, 1)
      BY <1>6, <3>2 DEF CrlfAt
    <3>5. ReadOn(r) = t
      BY <1>4, <3>4, Zenon
    <3>6. r.rest = c \o x /\ t.rest = SubSeq(x, 3, Len(x))
      BY DEF Reader
    <3> HIDE DEF x
    <3>7. Len(c \o x) \in Nat /\ Len(SubSeq(x, 3, Len(x))) \in Nat
          /\ Len(SubSeq(x, 3, Len(x))) < Len(c \o x)
      BY <3>4
    <3> HIDE DEF r, t, s
    <3>8. Reached(s, t)
      BY <3>1, <3>5, <3>6, <3>7, ReachedNext
    <3> QED  BY <1>1, <1>6, <3>3, <3>8, Zenon DEF s, t
  <2>2. AtLine'
    BY <1>6, <2>1 DEF AtLine
  <2>3. InStep'
    BY <1>6, <2>2 DEF InStep
  <2> QED  BY <1>6, <2>3 DEF OnTrack, SameAsInOnePiece
<1> QED  BY <1>1, <1>5, <1>6

LEMMA FeedOnTrack ==
  ASSUME TypeOK, OnTrack, NEW segment \in Segments, Feed(segment)
  PROVE  OnTrack'
<1>1. /\ status = "NeedMore" /\ status' = "running"
      /\ input' = input \o segment /\ fed' = fed \o segment
      /\ UNCHANGED <<stage, remaining, trailer, output>>
  BY DEF Feed
<1>2. segment \in Seq(Bytes)
  BY SegmentAssumption
<1>3. ASSUME NEW g \in Seq(Bytes)
      PROVE  /\ segment \o g \in Seq(Bytes)
             /\ fed' \o g = fed \o (segment \o g)
             /\ input' \o g = input \o (segment \o g)
  <2>1. fed \in Seq(Bytes) /\ input \in Seq(Bytes)
    BY DEF TypeOK
  <2>2. segment \o g \in Seq(Bytes)
    BY <1>2, JoinedType
  <2>3. (fed \o segment) \o g = fed \o (segment \o g)
    BY <1>2, <2>1, Joined
  <2>4. (input \o segment) \o g = input \o (segment \o g)
    BY <1>2, <2>1, Joined
  <2> QED  BY <1>1, <2>2, <2>3, <2>4
<1>4. InStep
  BY <1>1 DEF OnTrack
<1>5. AtLine => AtLine'
  BY <1>1, <1>3 DEF AtLine
<1>6. ASSUME NEW c \in Seq(Bytes), NEW b \in Seq(Bytes), InChunk(c, b)
      PROVE  InChunk(c, b)'
  <2>1. Chunk(c, b)'
    BY <1>1, <1>6, Zenon DEF InChunk, Chunk
  <2>2. ASSUME NEW g \in Seq(Bytes)
        PROVE  Reached(fed' \o g, Reader("SizeLine", b, trailer', c \o (input' \o g)))
    <3>1. Reached(fed \o (segment \o g),
                  Reader("SizeLine", b, trailer, c \o (input \o (segment \o g))))
      BY <1>3, <1>6, Zenon DEF InChunk
    <3> QED  BY <1>1, <1>3, <3>1, Zenon
  <2> QED  BY <2>1, <2>2 DEF InChunk
<1>7. InStep'
  BY <1>1, <1>4, <1>5, <1>6 DEF InStep
<1> QED  BY <1>1, <1>7 DEF OnTrack, SameAsInOnePiece

\* However the bytes are cut, the decoder returns what decoding all of them in one
\* piece returns, with the same body and the same bytes left behind.
THEOREM CutsDoNotMatter == Spec => []SameAsInOnePiece
<1>1. Init => OnTrack
  <2> SUFFICES ASSUME Init PROVE OnTrack
    OBVIOUS
  <2>1. ASSUME NEW g \in Seq(Bytes)
        PROVE  Reached(fed \o g, Reader(stage, output, trailer, input \o g))
    <3>1. fed \o g = g /\ input \o g = g
      BY DEF Init
    <3>2. Reached(g, Reader("SizeLine", <<>>, 0, g))
      BY ReachedStart DEF Start
    <3> QED  BY <3>1, <3>2, Zenon DEF Init
  <2>2. InStep
    BY <2>1 DEF Init, InStep, AtLine
  <2>3. SameAsInOnePiece
    <3> DEFINE r == Reader("SizeLine", <<>>, 0, <<>>)
               t == Reader("NeedMore", <<>>, 0, <<>>)
    <3>1. <<>> \in Seq(Bytes) /\ ~HasCrlf(<<>>) /\ Len(<<>>) = 0
      BY DEF HasCrlf
    <3>2. Reached(<<>>, r)
      BY <3>1, ReachedStart DEF Start
    <3>3. ReadOn(r) = t
      BY <3>1, ReadsPartOfLine, LimitAssumption
    <3>4. ReadOn(t) = t /\ t.at = "NeedMore" /\ t.body = <<>> /\ t.rest = <<>>
          /\ r.rest = <<>>
      BY DEF Reader, ReadOn
    <3> HIDE DEF r, t
    <3>5. InOnePiece(<<>>) = t
      BY <3>1, <3>2, <3>3, <3>4, ReachedEnd
    <3> QED  BY <3>4, <3>5 DEF Init, SameAsInOnePiece
  <2> QED  BY <2>2, <2>3 DEF OnTrack
<1>2. ASSUME TypeOK, OnTrack, [Next]_vars PROVE OnTrack'
  <2>1. CASE UNCHANGED vars
    <3>1. UNCHANGED <<stage, remaining, trailer, input, output, status, fed>>
      BY <2>1 DEF vars
    <3>2. InStep => InStep'
      BY <3>1, StaysInStep
    <3> QED  BY <1>2, <3>1, <3>2 DEF OnTrack, SameAsInOnePiece
  <2> QED
    BY <1>2, <2>1, SizeLineUnfinishedOnTrack, SizeLineRejectedOnTrack,
       SizeLineAcceptedOnTrack, DataOnTrack, DataCrlfOnTrack,
       TrailersUnfinishedOnTrack, TrailerLineOnTrack, FeedOnTrack DEF Next, Loop
<1>3. OnTrack => SameAsInOnePiece
  BY DEF OnTrack
<1> QED  BY <1>1, <1>2, <1>3, TypeCorrect, PTL DEF Spec
===============================================================================
