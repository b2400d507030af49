-------------------------- MODULE ResponseParserProofs --------------------------
(***************************************************************************)
(* Proofs about ResponseParser, for any heads, limits and segments.        *)
(***************************************************************************)
EXTENDS ResponseParser, LeastNumber, SequenceTheorems, TLAPS

\* The first unit that completes a head is one of the heads servers send.
LEMMA HeadFound ==
  ASSUME NEW s \in Seq(Units), HasHead(s)
  PROVE  HeadEnd(s) \in 1..Len(s) /\ s[HeadEnd(s)] \in Heads
<1> DEFINE T == {i \in 1..Len(s) : s[i].kind = "head"}
           First(i) == s[i].kind = "head" /\ \A j \in 1..(i - 1) : s[j].kind # "head"
<1>1. T \in SUBSET Nat /\ T # {}
  BY DEF HasHead
<1>2. PICK i \in T : \A k \in T : i <= k
  BY <1>1, LeastNatural
<1>3. i \in 1..Len(s) /\ First(i)
  BY <1>2
<1>4. HeadEnd(s) = CHOOSE k \in 1..Len(s) : First(k)
  BY DEF HeadEnd
<1>5. HeadEnd(s) \in 1..Len(s) /\ First(HeadEnd(s))
  BY <1>3, <1>4
<1>6. s[HeadEnd(s)] \in Units /\ s[HeadEnd(s)].kind = "head"
  BY <1>5
<1> QED  BY <1>5, <1>6 DEF Units

\* analyze_framing reports one of two errors.
LEMMA FramingErrors ==
  ASSUME NEW h
  PROVE  FramingError(h) \in {"none", "InvalidContentLength", "MalformedResponse"}
BY DEF FramingError, FieldError

\* When it reports none, every field could be read.
LEMMA NoFramingError ==
  ASSUME NEW h \in HeadUnits, FramingError(h) = "none"
  PROVE  \A i \in 1..Len(h.fields) : FieldError(h.fields[i]) = "none"
<1> DEFINE wrong == {i \in 1..Len(h.fields) : FieldError(h.fields[i]) # "none"}
           First(i) == \A j \in wrong : i <= j
<1>1. SUFFICES ASSUME wrong # {} PROVE FALSE
  OBVIOUS
<1>2. Len(h.fields) \in Nat
  BY DEF HeadUnits
<1>3. wrong \in SUBSET Nat
  BY <1>2
<1>4. \E i \in wrong : First(i)
  BY <1>1, <1>3, LeastNatural
<1>5. FramingError(h) = FieldError(h.fields[CHOOSE i \in wrong : First(i)])
  BY <1>1 DEF FramingError
<1>6. (CHOOSE i \in wrong : First(i)) \in wrong
  BY <1>4
<1> QED  BY <1>5, <1>6

\* Content-Length is a number when its field could be read.
LEMMA LengthIsNumber ==
  ASSUME NEW h \in HeadUnits, FramingError(h) = "none", Lengthed(h)
  PROVE  Length(h) \in Nat
<1> DEFINE i == CHOOSE k \in Indices(h, "Content-Length") : TRUE
<1>1. i \in Indices(h, "Content-Length")
  BY DEF Lengthed
<1>2. i \in 1..Len(h.fields) /\ h.fields[i].name = "Content-Length"
  BY <1>1 DEF Indices
<1>3. h.fields[i] \in Fields
  BY <1>2 DEF HeadUnits
<1>4. h.fields[i].length \in Nat \cup {-1}
  BY <1>2, <1>3 DEF Fields
<1>5. ~(h.fields[i].length < 0)
  BY <1>2, NoFramingError DEF FieldError
<1> QED  BY <1>4, <1>5 DEF Length

\* A head is refused with one of the errors of the API.
LEMMA HeadErrors ==
  ASSUME NEW h
  PROVE  HeadError(h) \in Errors \cup {"none"}
BY FramingErrors DEF HeadError, Errors

\* What a head that was not refused says of its content.
LEMMA AcceptedHead ==
  ASSUME NEW h \in HeadUnits, HeadError(h) = "none", ~Interim(h.status),
         BodyStage(h) = "ContentLengthBody"
  PROVE  Length(h) \in Nat /\ Length(h) <= MaxBodyBytes /\ ~HeaderTerminated(h)
         /\ h.status # 205
<1>1. FramingError(h) = "none"
  BY FramingErrors DEF HeadError, Errors
<1>2. Lengthed(h) /\ ~Coded(h) /\ ~HeaderTerminated(h) /\ Length(h) # 0
  BY DEF BodyStage
<1>3. Length(h) \in Nat
  BY <1>1, <1>2, LengthIsNumber
<1>4. Length(h) <= MaxBodyBytes /\ h.status # 205
  BY <1>1, <1>2, <1>3, LimitAssumption DEF HeadError
<1> QED  BY <1>2, <1>3, <1>4

-------------------------------------------------------------------------------
(* The iterations of the loop that move data.                              *)

\* The head at the front of the buffer, and what is behind it.
LEMMA ReadableHead ==
  ASSUME TypeOK, HeadReadable
  PROVE  /\ NextHead \in HeadUnits
         /\ BehindHead \in Seq(Units)
         /\ NextHead.status \in 100..999
<1>1. HeadEnd(buffer) \in 1..Len(buffer) /\ buffer[HeadEnd(buffer)] \in Heads
  BY HeadFound DEF TypeOK, HeadReadable
<1> DEFINE k == HeadEnd(buffer)
<1> HIDE DEF k
<1>2. SubSeq(buffer, k + 1, Len(buffer)) \in Seq(Units)
  BY <1>1 DEF TypeOK, k
<1>3. NextHead \in HeadUnits
  BY <1>1, HeadAssumption DEF NextHead
<1> QED  BY <1>2, <1>3 DEF BehindHead, HeadUnits, k

\* ContentLengthBody moves no more than was promised, and no more than is there.
LEMMA ContentMoves ==
  ASSUME TypeOK, ContentLengthBody
  PROVE  /\ body' \in Seq(Units) /\ buffer' \in Seq(Units) /\ remaining' \in Nat
         /\ Len(body') + remaining' = Len(body) + remaining
<1> DEFINE amount == IF remaining <= Len(buffer) THEN remaining ELSE Len(buffer)
<1>1. amount \in 0..Len(buffer) /\ amount <= remaining /\ remaining \in Nat
  BY DEF TypeOK
<1>2. /\ body' = body \o SubSeq(buffer, 1, amount)
      /\ buffer' = SubSeq(buffer, amount + 1, Len(buffer))
      /\ remaining' = remaining - amount
  BY DEF ContentLengthBody
<1> HIDE DEF amount
<1>3. SubSeq(buffer, 1, amount) \in Seq(Units) /\ Len(SubSeq(buffer, 1, amount)) = amount
  <2>1. buffer \in Seq(Units) /\ Len(buffer) \in Nat
    BY DEF TypeOK
  <2>2. amount \in Nat /\ \A i \in 1..amount : buffer[i] \in Units
    BY <1>1, <2>1
  <2> QED  BY <2>2, SubSeqProperties
<1>4. body' \in Seq(Units) /\ Len(body') = Len(body) + amount
  BY <1>2, <1>3 DEF TypeOK
<1>5. buffer' \in Seq(Units)
  BY <1>1, <1>2 DEF TypeOK
<1>6. Len(body) \in Nat
  BY DEF TypeOK
<1>7. amount \in Nat /\ amount <= remaining /\ remaining \in Nat
  BY <1>1
<1>8. remaining' = remaining - amount
  BY <1>2
<1>9. remaining' \in Nat /\ remaining' = remaining - amount
  BY <1>7, <1>8
<1>10. Len(body') + remaining' = Len(body) + remaining
  BY <1>4, <1>6, <1>7, <1>9
<1> QED  BY <1>4, <1>5, <1>9, <1>10

\* ChunkedBody stores accepted chunks only.
LEMMA ChunksMove ==
  ASSUME TypeOK, ChunkedBody
  PROVE  /\ body' \in Seq(Units) /\ buffer' \in Seq(Units)
         /\ stage' \in {stage, "Complete"}
         /\ outcome' \in {"NeedMore", "Complete", "ResponseLimitExceeded",
                          "InvalidChunkFraming", "MalformedResponse"}
         /\ body' = body \/ Len(body') <= MaxBodyBytes
         /\ outcome' = "Complete" /\ flags.forbidden => body' = <<>>
         /\ outcome' = "NeedMore" /\ flags.forbidden => body' = <<>>
         /\ stage' = "Complete" => outcome' = "Complete"
<1>1. PICK n \in Accepted :
        LET report == DecoderReport(n)
            taken  == IF report = "Complete" THEN n + 1 ELSE n
        IN /\ body'   = body \o SubSeq(buffer, 1, n)
           /\ buffer' = IF report \in {"NeedMore", "Complete"}
                          THEN SubSeq(buffer, taken + 1, Len(buffer)) ELSE buffer
           /\ outcome' = IF /\ report \in {"NeedMore", "Complete"}
                            /\ flags.forbidden /\ body' # <<>>
                           THEN "MalformedResponse" ELSE report
           /\ stage' = IF outcome' = "Complete" THEN "Complete" ELSE stage
  BY DEF ChunkedBody
<1> DEFINE report == DecoderReport(n)
           taken  == IF report = "Complete" THEN n + 1 ELSE n
<1>2. /\ n \in 0..Len(buffer) /\ (n > 0 => Len(body) + n <= MaxBodyBytes)
      /\ Len(buffer) \in Nat /\ Len(body) \in Nat
  BY DEF Accepted, TypeOK
<1>3. /\ report \in {"NeedMore", "Complete", "ResponseLimitExceeded", "InvalidChunkFraming"}
      /\ report = "Complete" => n < Len(buffer)
  BY <1>2 DEF DecoderReport
<1>4. taken \in 0..Len(buffer)
  BY <1>2, <1>3
<1> HIDE DEF report, taken
<1>5. SubSeq(buffer, 1, n) \in Seq(Units) /\ Len(SubSeq(buffer, 1, n)) = n
  BY <1>2 DEF TypeOK
<1>6. SubSeq(buffer, taken + 1, Len(buffer)) \in Seq(Units)
  BY <1>4 DEF TypeOK
<1>7. body' \in Seq(Units) /\ Len(body') = Len(body) + n
  BY <1>1, <1>5 DEF TypeOK
<1>8. buffer' \in Seq(Units)
  BY <1>1, <1>6 DEF TypeOK, report, taken
<1>9. n = 0 => body' = body
  BY <1>1, <1>2, <1>5 DEF TypeOK
<1>10. /\ outcome' = IF report \in {"NeedMore", "Complete"} /\ flags.forbidden /\ body' # <<>>
                       THEN "MalformedResponse" ELSE report
       /\ stage' = IF outcome' = "Complete" THEN "Complete" ELSE stage
  BY <1>1 DEF report
<1>11. body' = body \/ Len(body') <= MaxBodyBytes
  BY <1>2, <1>7, <1>9
<1>12. outcome' \in {"NeedMore", "Complete", "ResponseLimitExceeded",
                     "InvalidChunkFraming", "MalformedResponse"}
       /\ stage' \in {stage, "Complete"}
  BY <1>3, <1>10
<1>13. outcome' \in {"Complete", "NeedMore"} /\ flags.forbidden => body' = <<>>
  BY <1>10
<1>14. stage' = "Complete" => outcome' = "Complete"
  BY <1>10 DEF ChunkedBody, Running
<1> QED  BY <1>7, <1>8, <1>11, <1>12, <1>13, <1>14

\* The checks on close-delimited content report one of two errors; content they
\* let pass fits the limit, and there is none when none is permitted.
LEMMA RestErrors ==
  ASSUME TypeOK
  PROVE  /\ RestError \in {"none", "MalformedResponse", "ResponseLimitExceeded"}
         /\ body \o buffer \in Seq(Units)
         /\ RestError = "none" => \/ body \o buffer = body
                                  \/ ~flags.forbidden /\ Len(body \o buffer) <= MaxBodyBytes
<1>1. RestError \in {"none", "MalformedResponse", "ResponseLimitExceeded"}
  BY DEF RestError
<1>2. /\ body \o buffer \in Seq(Units)
      /\ Len(body \o buffer) = Len(body) + Len(buffer)
      /\ Len(body) \in Nat /\ Len(buffer) \in Nat
  BY DEF TypeOK
<1>3. buffer = <<>> => body \o buffer = body
  BY DEF TypeOK
<1>4. RestError = "none" /\ buffer # <<>> =>
        ~flags.forbidden /\ ~WouldExceed(Len(body), Len(buffer), MaxBodyBytes)
  BY DEF RestError
<1>5. ~WouldExceed(Len(body), Len(buffer), MaxBodyBytes)
        => Len(body) + Len(buffer) <= MaxBodyBytes
  BY <1>2, LimitAssumption DEF WouldExceed
<1> QED  BY <1>1, <1>2, <1>3, <1>4, <1>5

-------------------------------------------------------------------------------
(* Types.                                                                  *)

FlagSet == [close: BOOLEAN, delimited: BOOLEAN, forbidden: BOOLEAN]

\* The members of the parser keep their types in every step.
LEMMA TypeStep == TypeOK /\ [Next]_vars => TypeOK'
<1> SUFFICES ASSUME TypeOK, [Next]_vars PROVE TypeOK'
  OBVIOUS
<1>1. CASE HeadUnfinished
  BY <1>1 DEF HeadUnfinished, Fails, TypeOK, Outcomes, Errors
<1>2. CASE HeadUnreadable
  <2>1. NextHead \in HeadUnits
    BY <1>2, HeadFound, HeadAssumption DEF HeadUnreadable, NextHead, TypeOK
  <2>2. SyntaxError(buffer) \in {"none", "InvalidStatusLine", "InvalidHeader"}
    BY <2>1 DEF SyntaxError, NextHead, HeadUnits
  <2>3. PICK e \in Errors : Fails(e)
    BY <1>2, <2>2 DEF HeadUnreadable, Errors
  <2> QED  BY <2>3 DEF Fails, TypeOK, Outcomes
<1>3. CASE HeadRefused
  <2>1. HeadError(NextHead) \in Errors
    BY <1>3, HeadErrors DEF HeadRefused
  <2>2. BehindHead \in Seq(Units) /\ NextHead.status \in 100..999
    BY <1>3, ReadableHead DEF HeadRefused
  <2>3. status_code' = status_code \/ status_code' = NextHead.status
    BY <1>3, Zenon DEF HeadRefused
  <2>5. flags' \in FlagSet
    <3>1. \/ flags' = flags
          \/ \E a, b \in BOOLEAN :
               flags' = [close |-> a, delimited |-> flags.delimited, forbidden |-> b]
      BY <1>3, Zenon DEF HeadRefused
    <3>2. flags \in FlagSet
      BY DEF TypeOK, FlagSet
    <3> QED  BY <3>1, <3>2 DEF FlagSet
  <2>4. /\ outcome' = HeadError(NextHead) /\ buffer' = BehindHead
        /\ UNCHANGED <<head_request, stage, body, remaining, fed, eof>>
    BY <1>3 DEF HeadRefused
  <2>6. outcome' \in Outcomes
    BY <2>1, <2>4 DEF Outcomes
  <2>7. status_code \in {0} \cup 100..999
    BY DEF TypeOK
  <2>8. NextHead.status \in 100..999
    BY <2>2
  <2>9. status_code' \in {0} \cup 100..999
    BY <2>3, <2>7, <2>8
  <2> QED  BY <2>2, <2>4, <2>5, <2>6, <2>9 DEF TypeOK, FlagSet
<1>4. CASE HeadInterim
  <2>1. BehindHead \in Seq(Units)
    BY <1>4, ReadableHead DEF HeadInterim
  <2> QED  BY <1>4, <2>1 DEF HeadInterim, TypeOK
<1>5. CASE HeadFinal
  <2>1. /\ NextHead \in HeadUnits /\ BehindHead \in Seq(Units)
        /\ NextHead.status \in 100..999
    BY <1>5, ReadableHead DEF HeadFinal
  <2>2. stage' = BodyStage(NextHead) /\ stage' \in Stages
    BY <1>5 DEF HeadFinal, BodyStage, Stages
  <2>3. HeadError(NextHead) = "none" /\ ~Interim(NextHead.status)
    BY <1>5 DEF HeadFinal
  <2>4. stage' = "ContentLengthBody" => Length(NextHead) \in Nat
    BY <2>1, <2>2, <2>3, AcceptedHead
  <2>5. remaining' \in Nat
    BY <1>5, <2>4 DEF HeadFinal
  <2>6. flags' \in [close: BOOLEAN, delimited: BOOLEAN, forbidden: BOOLEAN]
    <3>1. flags' = [close     |-> Closes(NextHead) \/ NextHead.status = 101,
                    delimited |-> stage' = "CloseDelimitedBody",
                    forbidden |-> NextHead.status = 205 /\ ~HeaderTerminated(NextHead)]
      BY <1>5 DEF HeadFinal
    <3> QED  BY <3>1
  <2>7. /\ buffer' = BehindHead /\ status_code' = NextHead.status
        /\ outcome' \in {"Complete", "running"}
        /\ UNCHANGED <<head_request, body, fed, eof>>
    BY <1>5 DEF HeadFinal
  <2> QED  BY <2>1, <2>2, <2>5, <2>6, <2>7 DEF TypeOK, Outcomes
<1>6. CASE ContentLengthBody
  <2>1. /\ UNCHANGED <<head_request, status_code, flags, fed, eof>>
        /\ stage' \in {stage, "Complete"} /\ outcome' \in {"Complete", "NeedMore"}
    BY <1>6 DEF ContentLengthBody
  <2> QED  BY <1>6, <2>1, ContentMoves DEF TypeOK, Stages, Outcomes
<1>7. CASE CloseDelimitedBody
  <2>1. /\ UNCHANGED <<head_request, stage, status_code, remaining, flags, fed, eof>>
        /\ \/ RestError # "none" /\ outcome' = RestError /\ UNCHANGED <<body, buffer>>
           \/ body' = body \o buffer /\ buffer' = <<>> /\ outcome' = "NeedMore"
    BY <1>7, Zenon DEF CloseDelimitedBody, Fails
  <2>2. outcome' \in Outcomes
    BY <2>1, RestErrors DEF Outcomes, Errors
  <2>3. body \o buffer \in Seq(Units)
    BY RestErrors
  <2>4. body \in Seq(Units) /\ buffer \in Seq(Units) /\ <<>> \in Seq(Units)
    BY DEF TypeOK
  <2>5. /\ body' = body \/ body' = body \o buffer
        /\ buffer' = buffer \/ buffer' = <<>>
    BY <2>1
  <2>6. body' \in Seq(Units) /\ buffer' \in Seq(Units)
    BY <2>3, <2>4, <2>5
  <2> QED  BY <2>1, <2>2, <2>6 DEF TypeOK
<1>8. CASE ChunkedBody
  <2>1. UNCHANGED <<head_request, status_code, remaining, flags, fed, eof>>
    BY <1>8 DEF ChunkedBody
  <2> QED  BY <1>8, <2>1, ChunksMove DEF TypeOK, Stages, Outcomes, Errors
<1>9. CASE FinishEof
  <2>1. /\ UNCHANGED <<head_request, status_code, remaining, flags, fed>>
        /\ eof' = TRUE
        /\ stage' \in {stage, "Complete"}
        /\ body' \in {body, body \o buffer} /\ buffer' \in {buffer, <<>>}
        /\ \/ outcome' \in {"UnexpectedEof", "Complete"}
           \/ outcome' = RestError /\ RestError # "none"
    BY <1>9, Zenon DEF FinishEof
  <2>2. outcome' \in Outcomes
    BY <2>1, RestErrors DEF Outcomes, Errors
  <2>3. body \o buffer \in Seq(Units)
    BY RestErrors
  <2>4. body \in Seq(Units) /\ buffer \in Seq(Units) /\ <<>> \in Seq(Units)
    BY DEF TypeOK
  <2>5. /\ body' = body \/ body' = body \o buffer
        /\ buffer' = buffer \/ buffer' = <<>>
    BY <2>1
  <2>6. body' \in Seq(Units) /\ buffer' \in Seq(Units)
    BY <2>3, <2>4, <2>5
  <2> QED  BY <2>1, <2>2, <2>6 DEF TypeOK, Stages
<1>10. CASE \E segment \in Segments : Feed(segment)
  BY <1>10, SegmentAssumption DEF Feed, TypeOK, Outcomes
<1>11. CASE UNCHANGED vars
  BY <1>11 DEF vars, TypeOK
<1> QED  BY <1>1, <1>2, <1>3, <1>4, <1>5, <1>6, <1>7, <1>8, <1>9, <1>10, <1>11
         DEF Next, Loop

\* Every reachable state of ResponseParser is well typed.
THEOREM TypeCorrect == Spec => []TypeOK
<1>1. Init => TypeOK
  <2> SUFFICES ASSUME Init PROVE TypeOK
    OBVIOUS
  <2>1. flags \in FlagSet
    BY DEF Init, FlagSet
  <2>2. outcome \in Outcomes /\ stage \in Stages
    BY DEF Init, Outcomes, Stages
  <2>3. buffer \in Seq(Units) /\ body \in Seq(Units) /\ fed \in Seq(Units)
    BY DEF Init
  <2> QED  BY <2>1, <2>2, <2>3 DEF Init, TypeOK, FlagSet
<1> QED  BY <1>1, TypeStep, PTL DEF Spec

-------------------------------------------------------------------------------
(* Content.  Only a stage with a length still expects content; there is no *)
(* body before the final head.                                             *)

Budget ==
  /\ stage = "Head" => body = <<>>
  /\ stage # "ContentLengthBody" => remaining = 0
  /\ BodyBounded

\* What is stored is within the limit after every step.
LEMMA BudgetStep == TypeOK /\ Budget /\ [Next]_vars => Budget'
<1> SUFFICES ASSUME TypeOK, Budget, [Next]_vars PROVE Budget'
  OBVIOUS
<1> USE LimitAssumption
<1>1. CASE HeadUnfinished
  BY <1>1 DEF HeadUnfinished, Fails, Budget, BodyBounded
<1>2. CASE HeadUnreadable
  BY <1>2, Zenon DEF HeadUnreadable, Fails, Budget, BodyBounded
<1>3. CASE HeadRefused
  <2>1. UNCHANGED <<stage, body, remaining>>
    BY <1>3, Zenon DEF HeadRefused
  <2> QED  BY <2>1 DEF Budget, BodyBounded
<1>4. CASE HeadInterim
  BY <1>4 DEF HeadInterim, Budget, BodyBounded
<1>5. CASE HeadFinal
  <2>1. NextHead \in HeadUnits
    BY <1>5, ReadableHead DEF HeadFinal
  <2>2. /\ stage' = BodyStage(NextHead)
        /\ HeadError(NextHead) = "none" /\ ~Interim(NextHead.status)
        /\ remaining' = IF stage' = "ContentLengthBody" THEN Length(NextHead) ELSE 0
        /\ body' = body /\ stage = "Head"
    BY <1>5 DEF HeadFinal, HeadReadable, Running
  <2>3. stage' = "ContentLengthBody"
          => Length(NextHead) \in Nat /\ Length(NextHead) <= MaxBodyBytes
    BY <2>1, <2>2, AcceptedHead
  <2>4. stage' # "Head"
    BY <2>2 DEF BodyStage
  <2> QED  BY <2>2, <2>3, <2>4 DEF Budget, BodyBounded
<1>6. CASE ContentLengthBody
  <2>1. /\ stage' \in {"ContentLengthBody", "Complete"}
        /\ stage' = "Complete" => remaining' = 0
    BY <1>6 DEF ContentLengthBody, Running, TypeOK
  <2> QED  BY <1>6, <2>1, ContentMoves DEF Budget, BodyBounded
<1>7. CASE CloseDelimitedBody
  <2>1. /\ stage = "CloseDelimitedBody" /\ UNCHANGED <<stage, remaining>>
        /\ body' = body \/ (RestError = "none" /\ body' = body \o buffer)
    BY <1>7 DEF CloseDelimitedBody, Running, Fails
  <2> QED  BY <2>1, RestErrors DEF Budget, BodyBounded
<1>8. CASE ChunkedBody
  <2>1. stage = "ChunkedBody" /\ remaining' = remaining
    BY <1>8 DEF ChunkedBody, Running
  <2>2. stage' \in {"ChunkedBody", "Complete"}
    BY <1>8, <2>1, ChunksMove
  <2>3. body' = body \/ Len(body') <= MaxBodyBytes
    BY <1>8, ChunksMove
  <2> QED  BY <2>1, <2>2, <2>3, ChunksMove DEF Budget, BodyBounded, TypeOK
<1>9. CASE FinishEof
  <2>1. /\ remaining' = remaining
        /\ \/ UNCHANGED <<stage, body>>
           \/ /\ stage = "CloseDelimitedBody" /\ stage' = "Complete"
              /\ RestError = "none" /\ body' = body \o buffer
    BY <1>9 DEF FinishEof
  <2> QED  BY <2>1, RestErrors DEF Budget, BodyBounded
<1>10. CASE \E segment \in Segments : Feed(segment)
  BY <1>10 DEF Feed, Budget, BodyBounded
<1>11. CASE UNCHANGED vars
  BY <1>11 DEF vars, Budget, BodyBounded
<1> QED  BY <1>1, <1>2, <1>3, <1>4, <1>5, <1>6, <1>7, <1>8, <1>9, <1>10, <1>11
         DEF Next, Loop

\* The body of a response never exceeds max_body_bytes, whatever its framing.
THEOREM BodyIsBounded == Spec => []BodyBounded
<1>1. Init => Budget
  BY LimitAssumption DEF Init, Budget, BodyBounded
<1>2. Spec => []Budget
  BY <1>1, BudgetStep, TypeCorrect, PTL DEF Spec
<1>3. Budget => BodyBounded
  BY DEF Budget
<1> QED  BY <1>2, <1>3, PTL

BodyStages == {"ContentLengthBody", "CloseDelimitedBody", "ChunkedBody"}

\* A stage that reads content was entered for a response that may have content,
\* except for a 205, whose content body_forbidden_ keeps out.
Permitted ==
  /\ stage \in BodyStages =>
       ~head_request /\ status_code \notin {101, 204, 304}
  /\ stage \in {"CloseDelimitedBody", "ChunkedBody"} /\ status_code = 205
       => flags.forbidden
  /\ stage = "ContentLengthBody" => status_code # 205 /\ ~flags.forbidden
  /\ stage \in BodyStages /\ flags.forbidden /\ outcome \in {"running", "NeedMore"}
       => body = <<>>
  /\ outcome = "Complete" => stage = "Complete"
  /\ NoForbiddenContent

\* The rules about content hold after every step.
LEMMA PermittedStep == TypeOK /\ Budget /\ Permitted /\ [Next]_vars => Permitted'
<1> SUFFICES ASSUME TypeOK, Budget, Permitted, [Next]_vars PROVE Permitted'
  OBVIOUS
<1> USE DEF BodyStages
<1>1. CASE HeadUnfinished
  BY <1>1 DEF HeadUnfinished, Running, Fails, Permitted, NoForbiddenContent
<1>2. CASE HeadUnreadable
  <2>1. stage = "Head" /\ body = <<>> /\ UNCHANGED <<stage, body>>
    BY <1>2 DEF HeadUnreadable, Running, Fails, Budget
  <2>2. NextHead \in HeadUnits
    BY <1>2, HeadFound, HeadAssumption DEF HeadUnreadable, NextHead, TypeOK
  <2>3. outcome' \in Errors
    BY <1>2, <2>2 DEF HeadUnreadable, Fails, SyntaxError, NextHead, HeadUnits, Errors
  <2> QED  BY <2>1, <2>3 DEF Permitted, NoForbiddenContent, Errors
<1>3. CASE HeadRefused
  <2>1. stage = "Head" /\ UNCHANGED <<stage, body>> /\ outcome' \in Errors
    BY <1>3, HeadErrors DEF HeadRefused, HeadReadable, Running
  <2> QED  BY <2>1 DEF Permitted, NoForbiddenContent, Errors
<1>4. CASE HeadInterim
  BY <1>4 DEF HeadInterim, HeadReadable, Running, Permitted, NoForbiddenContent
<1>5. CASE HeadFinal
  <2>1. NextHead \in HeadUnits
    BY <1>5, ReadableHead DEF HeadFinal
  <2>2. /\ HeadError(NextHead) = "none" /\ ~Interim(NextHead.status)
        /\ stage' = BodyStage(NextHead)
        /\ status_code' = NextHead.status
        /\ flags'.forbidden = (NextHead.status = 205 /\ ~HeaderTerminated(NextHead))
        /\ outcome' = IF stage' = "Complete" THEN "Complete" ELSE "running"
        /\ UNCHANGED <<head_request, body>> /\ body = <<>>
    BY <1>5 DEF HeadFinal, HeadReadable, Running, Budget
  <2>3. stage' # "Complete" => ~HeaderTerminated(NextHead)
    BY <2>2 DEF BodyStage
  <2>4. stage' = "ContentLengthBody" => NextHead.status # 205
    BY <2>1, <2>2, AcceptedHead
  <2>5. stage' \in BodyStages =>
          /\ ~head_request' /\ status_code' \notin {101, 204, 304}
          /\ status_code' = 205 => flags'.forbidden /\ stage' # "ContentLengthBody"
          /\ flags'.forbidden => status_code' = 205
    <3> SUFFICES ASSUME stage' \in BodyStages
                 PROVE  /\ ~head_request' /\ status_code' \notin {101, 204, 304}
                        /\ flags'.forbidden = (status_code' = 205)
                        /\ stage' = "ContentLengthBody" => status_code' # 205
      OBVIOUS
    <3>1. ~HeaderTerminated(NextHead)
      BY <2>3
    <3>2. head_request' = head_request /\ status_code' = NextHead.status
          /\ flags'.forbidden = (status_code' = 205)
      BY <2>2, <3>1
    <3> QED  BY <2>4, <3>1, <3>2 DEF HeaderTerminated
  <2>6. /\ stage' \in BodyStages \cup {"Complete"} /\ body' = <<>>
        /\ outcome' = "Complete" => stage' = "Complete"
    BY <2>2 DEF BodyStage
  <2> QED  BY <2>5, <2>6 DEF Permitted, NoForbiddenContent
<1>6. CASE ContentLengthBody
  <2>1. /\ stage = "ContentLengthBody" /\ outcome = "running"
        /\ \/ stage' = "Complete" /\ outcome' = "Complete"
           \/ stage' = stage /\ outcome' = "NeedMore" /\ remaining' # 0
        /\ UNCHANGED <<head_request, status_code, flags>>
    BY <1>6 DEF ContentLengthBody, Running, TypeOK
  <2> QED  BY <2>1 DEF Permitted, NoForbiddenContent
<1>7. CASE CloseDelimitedBody
  <2>1. /\ stage = "CloseDelimitedBody" /\ outcome = "running"
        /\ UNCHANGED <<head_request, stage, status_code, flags>>
        /\ \/ body' = body /\ outcome' = RestError /\ RestError # "none"
           \/ RestError = "none" /\ body' = body \o buffer /\ outcome' = "NeedMore"
    BY <1>7 DEF CloseDelimitedBody, Running, Fails
  <2> QED  BY <2>1, RestErrors DEF Permitted, NoForbiddenContent
<1>8. CASE ChunkedBody
  <2>1. /\ stage = "ChunkedBody" /\ outcome = "running"
        /\ UNCHANGED <<head_request, status_code, flags>>
    BY <1>8 DEF ChunkedBody, Running
  <2>2. outcome' = "Complete" => stage' = "Complete"
    BY <1>8 DEF ChunkedBody
  <2> QED  BY <1>8, <2>1, <2>2, ChunksMove DEF Permitted, NoForbiddenContent
<1>9. CASE FinishEof
  <2>1. /\ UNCHANGED <<head_request, status_code, flags>>
        /\ outcome = "NeedMore"
        /\ \/ UNCHANGED <<stage, body>> /\ outcome' \in {"UnexpectedEof", RestError}
              /\ outcome' # "none"
           \/ /\ stage = "CloseDelimitedBody" /\ stage' = "Complete"
              /\ RestError = "none" /\ body' = body \o buffer /\ outcome' = "Complete"
    BY <1>9, RestErrors DEF FinishEof
  <2> QED  BY <2>1, RestErrors DEF Permitted, NoForbiddenContent
<1>10. CASE \E segment \in Segments : Feed(segment)
  BY <1>10 DEF Feed, Permitted, NoForbiddenContent
<1>11. CASE UNCHANGED vars
  BY <1>11 DEF vars, Permitted, NoForbiddenContent
<1> QED  BY <1>1, <1>2, <1>3, <1>4, <1>5, <1>6, <1>7, <1>8, <1>9, <1>10, <1>11
         DEF Next, Loop

\* A response that may not have content is delivered without any.
THEOREM ForbiddenContentIsRefused == Spec => []NoForbiddenContent
<1>1. Init => Budget /\ Permitted
  BY LimitAssumption DEF Init, Budget, BodyBounded, Permitted, NoForbiddenContent, BodyStages
<1>2. Spec => [](Budget /\ Permitted)
  BY <1>1, BudgetStep, PermittedStep, TypeCorrect, PTL DEF Spec
<1>3. Permitted => NoForbiddenContent
  BY DEF Permitted
<1> QED  BY <1>2, <1>3, PTL

-------------------------------------------------------------------------------
(* The head that a response in progress came from.                         *)

Alive == outcome \in {"running", "NeedMore"}

\* While heads are read the buffer is the end of what was fed, and no final head
\* lies before it.
Before == Len(fed) - Len(buffer)
Unread ==
  stage = "Head" /\ Alive =>
    /\ Len(buffer) <= Len(fed)
    /\ \A i \in 1..Len(buffer) : buffer[i] = fed[Before + i]
    /\ \A j \in 1..Before : fed[j].kind = "head" => Interim(fed[j].status)

\* What the parser keeps of the final head.
Describes(h) ==
  /\ flags.close = (Closes(h) \/ h.status = 101)
  /\ flags.delimited = (~HeaderTerminated(h) /\ ~Framed(h))
  /\ stage = "CloseDelimitedBody" => flags.delimited
Origin ==
  stage # "Head" => \E f \in 1..Len(fed) : IsFinal(fed, f) /\ Describes(fed[f])

\* Only a response without framing is complete at the end of the connection.
Ends ==
  /\ outcome = "Complete" => stage = "Complete"
  /\ eof => ~Alive
  /\ eof /\ outcome = "Complete" => flags.delimited

Provenance == Unread /\ Origin /\ Ends

\* The unit at HeadEnd is the first that completes a head.
LEMMA HeadFirst ==
  ASSUME NEW s \in Seq(Units), HasHead(s)
  PROVE  /\ s[HeadEnd(s)].kind = "head"
         /\ \A j \in 1..(HeadEnd(s) - 1) : s[j].kind # "head"
<1> DEFINE T == {i \in 1..Len(s) : s[i].kind = "head"}
           First(i) == s[i].kind = "head" /\ \A j \in 1..(i - 1) : s[j].kind # "head"
<1>1. T \in SUBSET Nat /\ T # {}
  BY DEF HasHead
<1>2. PICK i \in T : \A k \in T : i <= k
  BY <1>1, LeastNatural
<1>3. i \in 1..Len(s) /\ First(i)
  BY <1>2
<1>4. HeadEnd(s) = CHOOSE k \in 1..Len(s) : First(k)
  BY DEF HeadEnd
<1> QED  BY <1>3, <1>4

\* There is at most one final head.
LEMMA FinalIsUnique ==
  ASSUME NEW s \in Seq(Units), NEW f \in 1..Len(s), IsFinal(s, f)
  PROVE  FinalHead(s) = f
<1>1. \A g \in 1..Len(s) : IsFinal(s, g) => g = f
  <2> SUFFICES ASSUME NEW g \in 1..Len(s), IsFinal(s, g) PROVE g = f
    OBVIOUS
  <2>1. ~(g < f)
    BY DEF IsFinal
  <2>2. ~(f < g)
    BY DEF IsFinal
  <2> QED  BY <2>1, <2>2
<1> QED  BY <1>1 DEF FinalHead

\* The head at the front of the buffer is the next one of the stream.
LEMMA NextHeadInStream ==
  ASSUME TypeOK, Unread, HeadReadable
  PROVE  LET f == Before + HeadEnd(buffer)
         IN /\ f \in 1..Len(fed) /\ fed[f] = NextHead /\ fed[f].kind = "head"
            /\ \A j \in 1..(f - 1) : fed[j].kind = "head" => Interim(fed[j].status)
            /\ Len(BehindHead) = Len(buffer) - HeadEnd(buffer)
            /\ \A i \in 1..Len(BehindHead) : BehindHead[i] = fed[f + i]
<1> DEFINE k == HeadEnd(buffer)
           f == Before + k
<1>1. /\ k \in 1..Len(buffer) /\ buffer[k].kind = "head"
      /\ \A j \in 1..(k - 1) : buffer[j].kind # "head"
  BY HeadFound, HeadFirst DEF TypeOK, HeadReadable
<1>2. /\ Len(buffer) \in Nat /\ Len(fed) \in Nat /\ Len(buffer) <= Len(fed)
      /\ Before \in Nat /\ Before + Len(buffer) = Len(fed)
      /\ \A i \in 1..Len(buffer) : buffer[i] = fed[Before + i]
      /\ \A j \in 1..Before : fed[j].kind = "head" => Interim(fed[j].status)
  BY DEF TypeOK, Unread, Alive, HeadReadable, Running, Before
<1>3. BehindHead = SubSeq(buffer, k + 1, Len(buffer))
  BY DEF BehindHead
<1>4. NextHead = buffer[k]
  BY DEF NextHead
<1> HIDE DEF k
<1>5. f \in 1..Len(fed) /\ fed[f] = buffer[k]
  BY <1>1, <1>2
<1>6. ASSUME NEW j \in 1..(f - 1), fed[j].kind = "head"
      PROVE  Interim(fed[j].status)
  <2>1. CASE j <= Before
    BY <1>2, <1>6, <2>1
  <2>2. CASE j > Before
    <3>1. j - Before \in 1..(k - 1) /\ j - Before \in 1..Len(buffer)
      BY <1>1, <1>2, <2>2
    <3>2. fed[Before + (j - Before)] = buffer[j - Before] /\ Before + (j - Before) = j
      BY <1>2, <3>1
    <3> QED  BY <1>1, <1>6, <3>1, <3>2
  <2> QED  BY <1>2, <2>1, <2>2
<1>7. /\ Len(BehindHead) = Len(buffer) - k
      /\ \A i \in 1..Len(BehindHead) : BehindHead[i] = buffer[k + i]
  BY <1>1, <1>2, <1>3 DEF TypeOK
<1>8. ASSUME NEW i \in 1..Len(BehindHead)
      PROVE  BehindHead[i] = fed[f + i]
  <2>1. k + i \in 1..Len(buffer) /\ Before + (k + i) = f + i
    BY <1>1, <1>2, <1>7
  <2> QED  BY <1>2, <1>7, <2>1
<1> QED  BY <1>1, <1>4, <1>5, <1>6, <1>7, <1>8 DEF k

\* What was kept of a head stays when nothing is kept anew.
LEMMA OriginStays ==
  ASSUME TypeOK, Origin, stage # "Head", flags' = flags, head_request' = head_request,
         fed' = fed, stage' \in {stage, "Complete"}
  PROVE  Origin'
<1>1. PICK f \in 1..Len(fed) : IsFinal(fed, f) /\ Describes(fed[f])
  BY DEF Origin
<1>2. IsFinal(fed, f)' /\ Describes(fed[f])'
  BY <1>1 DEF IsFinal, Describes, HeaderTerminated
<1> QED  BY <1>1, <1>2 DEF Origin

\* The parser remembers where its head came from in every step.
LEMMA ProvenanceStep == TypeOK /\ Provenance /\ [Next]_vars => Provenance'
<1> SUFFICES ASSUME TypeOK, Provenance, [Next]_vars PROVE Provenance'
  OBVIOUS
<1> USE DEF Provenance
<1>1. CASE HeadUnfinished
  <2>1. /\ stage = "Head" /\ outcome = "running"
        /\ UNCHANGED <<head_request, stage, buffer, flags, fed, eof>>
        /\ outcome' \in {"NeedMore", "ResponseLimitExceeded"}
    BY <1>1 DEF HeadUnfinished, Running, Fails
  <2> QED  BY <2>1 DEF Unread, Origin, Ends, Before, Alive
<1>2. CASE HeadUnreadable
  <2>1. NextHead \in HeadUnits
    BY <1>2, HeadFound, HeadAssumption DEF HeadUnreadable, NextHead, TypeOK
  <2>2. outcome' \in Errors
    BY <1>2, <2>1 DEF HeadUnreadable, Fails, SyntaxError, NextHead, HeadUnits, Errors
  <2>3. stage = "Head" /\ stage' = stage
    BY <1>2, Zenon DEF HeadUnreadable, Running, Fails
  <2> QED  BY <2>2, <2>3 DEF Unread, Origin, Ends, Alive, Errors
<1>3. CASE HeadRefused
  <2>1. stage = "Head" /\ stage' = stage /\ outcome' \in Errors
    BY <1>3, HeadErrors DEF HeadRefused, HeadReadable, Running
  <2> QED  BY <2>1 DEF Unread, Origin, Ends, Alive, Errors
<1>4. CASE HeadInterim
  <2> DEFINE f == Before + HeadEnd(buffer)
  <2>1. /\ f \in 1..Len(fed) /\ fed[f] = NextHead /\ fed[f].kind = "head"
        /\ \A j \in 1..(f - 1) : fed[j].kind = "head" => Interim(fed[j].status)
        /\ Len(BehindHead) = Len(buffer) - HeadEnd(buffer)
        /\ \A i \in 1..Len(BehindHead) : BehindHead[i] = fed[f + i]
    BY <1>4, NextHeadInStream DEF HeadInterim
  <2>2. /\ Interim(NextHead.status) /\ buffer' = BehindHead /\ outcome = "running"
        /\ stage = "Head" /\ UNCHANGED <<stage, flags, outcome, fed, eof>>
    BY <1>4 DEF HeadInterim, HeadReadable, Running
  <2>3. /\ HeadEnd(buffer) \in 1..Len(buffer) /\ Len(buffer) \in Nat /\ Len(fed) \in Nat
    BY <1>4, HeadFound DEF HeadInterim, HeadReadable, TypeOK
  <2>4. Before' = f /\ Len(buffer') <= Len(fed')
    BY <2>1, <2>2, <2>3 DEF Before
  <2> HIDE DEF f
  <2>5. \A j \in 1..f : fed[j].kind = "head" => Interim(fed[j].status)
    <3> SUFFICES ASSUME NEW j \in 1..f, fed[j].kind = "head" PROVE Interim(fed[j].status)
      OBVIOUS
    <3>1. j = f \/ j \in 1..(f - 1)
      BY <2>1
    <3> QED  BY <2>1, <2>2, <3>1
  <2>6. Unread'
    BY <2>1, <2>2, <2>4, <2>5 DEF Unread
  <2> QED  BY <2>2, <2>6 DEF Origin, Ends, Alive
<1>5. CASE HeadFinal
  <2>1. PICK f \in 1..Len(fed) :
          /\ fed[f] = NextHead /\ fed[f].kind = "head"
          /\ \A j \in 1..(f - 1) : fed[j].kind = "head" => Interim(fed[j].status)
    BY <1>5, NextHeadInStream DEF HeadFinal
  <2>2. /\ ~Interim(NextHead.status) /\ stage' = BodyStage(NextHead)
        /\ flags' = [close     |-> Closes(NextHead) \/ NextHead.status = 101,
                     delimited |-> stage' = "CloseDelimitedBody",
                     forbidden |-> NextHead.status = 205 /\ ~HeaderTerminated(NextHead)]
        /\ outcome' = IF stage' = "Complete" THEN "Complete" ELSE "running"
        /\ outcome = "running"
        /\ UNCHANGED <<head_request, fed, eof>>
    BY <1>5 DEF HeadFinal, HeadReadable, Running
  <2>3. stage' # "Head"
        /\ (stage' = "CloseDelimitedBody") = (~HeaderTerminated(fed[f]) /\ ~Framed(fed[f]))
    BY <2>1, <2>2 DEF BodyStage, Framed
  <2>4. IsFinal(fed, f)'
    BY <2>1, <2>2 DEF IsFinal
  <2>5. Describes(fed[f])'
    <3>1. flags'.close = (Closes(fed[f]) \/ fed[f].status = 101)
      BY <2>1, <2>2
    <3>2. flags'.delimited = (stage' = "CloseDelimitedBody")
      BY <2>2
    <3>3. HeaderTerminated(fed[f])' = HeaderTerminated(fed[f])
      BY <2>2 DEF HeaderTerminated
    <3> QED  BY <2>2, <2>3, <3>1, <3>2, <3>3 DEF Describes
  <2>6. Origin'
    BY <2>2, <2>4, <2>5 DEF Origin
  <2>7. ~eof'
    BY <2>2 DEF Ends, Alive
  <2> QED  BY <2>2, <2>3, <2>6, <2>7 DEF Unread, Ends
<1>6. CASE ContentLengthBody
  <2>1. /\ UNCHANGED <<head_request, flags, fed, eof>>
        /\ stage = "ContentLengthBody" /\ outcome = "running"
        /\ \/ stage' = "Complete" /\ outcome' = "Complete"
           \/ stage' = stage /\ outcome' = "NeedMore"
    BY <1>6 DEF ContentLengthBody, Running
  <2> QED  BY <2>1, OriginStays DEF Unread, Ends, Alive
<1>7. CASE CloseDelimitedBody
  <2>1. /\ UNCHANGED <<head_request, stage, flags, fed, eof>>
        /\ stage = "CloseDelimitedBody" /\ outcome = "running"
        /\ outcome' = "NeedMore" \/ (outcome' = RestError /\ RestError # "none")
    BY <1>7 DEF CloseDelimitedBody, Running, Fails
  <2>2. outcome' \in {"NeedMore", "MalformedResponse", "ResponseLimitExceeded"}
    BY <2>1, RestErrors
  <2> QED  BY <2>1, <2>2, OriginStays DEF Unread, Ends, Alive
<1>8. CASE ChunkedBody
  <2>1. /\ UNCHANGED <<head_request, flags, fed, eof>>
        /\ stage = "ChunkedBody" /\ outcome = "running"
    BY <1>8 DEF ChunkedBody, Running
  <2>2. outcome' = "Complete" => stage' = "Complete"
    BY <1>8 DEF ChunkedBody
  <2>3. stage' \in {stage, "Complete"}
    BY <1>8, ChunksMove
  <2> QED  BY <2>1, <2>2, <2>3, OriginStays DEF Unread, Ends, Alive
<1>9. CASE FinishEof
  <2>1. UNCHANGED <<head_request, flags, fed>> /\ outcome = "NeedMore"
    BY <1>9 DEF FinishEof
  <2>2. CASE stage' = "Complete" /\ stage = "CloseDelimitedBody" /\ outcome' = "Complete"
    <3>1. Origin'
      BY <2>1, <2>2, OriginStays
    <3>2. flags.delimited
      BY <2>2 DEF Origin, Describes
    <3> QED  BY <2>1, <2>2, <3>1, <3>2 DEF Unread, Ends, Alive
  <2>3. CASE /\ stage' = stage
             /\ outcome' = "UnexpectedEof" \/ (outcome' = RestError /\ RestError # "none")
    <3>1. outcome' \in {"UnexpectedEof", "MalformedResponse", "ResponseLimitExceeded"}
      BY <2>3, RestErrors
    <3>2. Origin'
      BY <2>1, <2>3, OriginStays DEF Origin
    <3> QED  BY <3>1, <3>2 DEF Unread, Ends, Alive
  <2> QED  BY <1>9, <2>2, <2>3 DEF FinishEof
<1>10. CASE \E segment \in Segments : Feed(segment)
  <2>1. PICK segment \in Segments : Feed(segment)
    BY <1>10
  <2>2. /\ segment \in Seq(Units) /\ buffer \in Seq(Units) /\ fed \in Seq(Units)
        /\ Len(segment) \in Nat /\ Len(buffer) \in Nat /\ Len(fed) \in Nat
    BY SegmentAssumption DEF TypeOK
  <2>3. /\ buffer' = buffer \o segment /\ fed' = fed \o segment
        /\ outcome = "NeedMore" /\ outcome' = "running" /\ ~eof
        /\ UNCHANGED <<head_request, stage, flags, eof>>
    BY <2>1 DEF Feed
  <2>4. /\ Len(buffer') = Len(buffer) + Len(segment)
        /\ Len(fed') = Len(fed) + Len(segment)
        /\ Before' = Before
        /\ \A i \in 1..Len(fed) : fed'[i] = fed[i]
    BY <2>2, <2>3 DEF Before
  <2>5. Unread'
    <3> SUFFICES ASSUME stage = "Head" PROVE Unread'
      BY <2>3 DEF Unread
    <3>1. /\ Len(buffer) <= Len(fed) /\ Before \in Nat /\ Before + Len(buffer) = Len(fed)
          /\ \A i \in 1..Len(buffer) : buffer[i] = fed[Before + i]
          /\ \A j \in 1..Before : fed[j].kind = "head" => Interim(fed[j].status)
      BY <2>2, <2>3 DEF Unread, Alive, Before
    <3>2. ASSUME NEW i \in 1..Len(buffer') PROVE buffer'[i] = fed'[Before + i]
      <4>1. CASE i <= Len(buffer)
        <5>1. buffer'[i] = buffer[i] /\ Before + i \in 1..Len(fed)
          BY <2>2, <2>3, <3>1, <4>1
        <5> QED  BY <2>2, <2>4, <3>1, <4>1, <5>1
      <4>2. CASE i > Len(buffer)
        <5>1. buffer'[i] = segment[i - Len(buffer)]
          BY <2>2, <2>3, <2>4, <4>2
        <5>2. /\ i \in Nat /\ Len(buffer) < i /\ i <= Len(buffer) + Len(segment)
          BY <2>2, <2>4, <4>2
        <5>3. /\ Before + i > Len(fed) /\ Before + i <= Len(fed) + Len(segment)
              /\ i - Len(buffer) = (Before + i) - Len(fed) /\ Before + i \in Nat
          <6>1. Len(segment) \in Nat /\ Len(buffer) \in Nat /\ Len(fed) \in Nat
            BY <2>2
          <6>2. Before \in Nat /\ Before + Len(buffer) = Len(fed)
            BY <3>1
          <6> QED  BY <5>2, <6>1, <6>2
        <5>4. \A k \in Nat : k > Len(fed) /\ k <= Len(fed) + Len(segment)
                => (fed \o segment)[k] = segment[k - Len(fed)]
          BY <2>2
        <5> QED  BY <2>3, <5>1, <5>3, <5>4
      <4> QED  BY <2>2, <2>4, <4>1, <4>2
    <3>3. Len(buffer') <= Len(fed')
      BY <2>2, <2>4, <3>1
    <3>4. \A j \in 1..Before : fed'[j].kind = "head" => Interim(fed'[j].status)
      <4>1. \A j \in 1..Before : j \in 1..Len(fed)
        BY <2>2, <3>1
      <4> QED  BY <2>4, <3>1, <4>1
    <3> QED  BY <2>4, <3>2, <3>3, <3>4 DEF Unread
  <2>6. Origin'
    <3> SUFFICES ASSUME stage # "Head" PROVE Origin'
      BY <2>3 DEF Origin
    <3>1. PICK f \in 1..Len(fed) : IsFinal(fed, f) /\ Describes(fed[f])
      BY DEF Origin
    <3>2. f \in 1..Len(fed') /\ fed'[f] = fed[f] /\ \A j \in 1..(f - 1) : fed'[j] = fed[j]
      BY <2>2, <2>4
    <3>3. IsFinal(fed, f)'
      BY <3>1, <3>2 DEF IsFinal
    <3>4. Describes(fed[f])'
      BY <2>3, <3>1, <3>2 DEF Describes, HeaderTerminated
    <3> QED  BY <3>2, <3>3, <3>4 DEF Origin
  <2> QED  BY <2>3, <2>5, <2>6 DEF Ends
<1>11. CASE UNCHANGED vars
  <2>1. UNCHANGED <<head_request, stage, buffer, flags, outcome, fed, eof>>
    BY <1>11 DEF vars
  <2>2. Unread' /\ Ends'
    BY <2>1 DEF Unread, Ends, Alive, Before
  <2>3. Origin'
    BY <2>1, OriginStays DEF Origin
  <2> QED  BY <2>2, <2>3
<1> QED  BY <1>1, <1>2, <1>3, <1>4, <1>5, <1>6, <1>7, <1>8, <1>9, <1>10, <1>11
         DEF Next, Loop

\* A complete response is described by the final head of the stream.
LEMMA CompleteOrigin ==
  ASSUME TypeOK, Provenance, outcome = "Complete"
  PROVE  Describes(fed[FinalHead(fed)])
<1>1. PICK f \in 1..Len(fed) : IsFinal(fed, f) /\ Describes(fed[f])
  BY DEF Provenance, Origin, Ends
<1>2. FinalHead(fed) = f
  BY <1>1, FinalIsUnique DEF TypeOK
<1> QED  BY <1>1, <1>2

\* The origin of the response is known in all reachable states.
LEMMA ProvenanceHolds == Spec => [](TypeOK /\ Provenance)
<1>1. Init => Provenance
  <2> SUFFICES ASSUME Init PROVE Provenance
    OBVIOUS
  <2>1. /\ stage = "Head" /\ buffer = <<>> /\ fed = <<>> /\ ~eof
        /\ outcome = "NeedMore"
    BY DEF Init
  <2> QED  BY <2>1 DEF Provenance, Unread, Origin, Ends, Before
<1> QED  BY <1>1, ProvenanceStep, TypeCorrect, PTL DEF Spec

\* A connection that may be reused ended its response by itself, and the server
\* did not announce that it will close.
THEOREM ReusableConnectionsAreInStep == Spec => []ReusableIsSelfDelimiting
<1>1. TypeOK /\ Provenance => ReusableIsSelfDelimiting
  BY CompleteOrigin DEF ReusableIsSelfDelimiting, ConnectionReusable, Provenance, Ends, Describes
<1> QED  BY <1>1, ProvenanceHolds, PTL

\* The end of the connection never turns a truncated response into a complete one.
THEOREM TruncationIsNoticed == Spec => []EofNeverTruncates
<1>1. TypeOK /\ Provenance => EofNeverTruncates
  BY CompleteOrigin DEF EofNeverTruncates, Provenance, Ends, Describes
<1> QED  BY <1>1, ProvenanceHolds, PTL

-------------------------------------------------------------------------------
(* The whole message.                                                      *)

HeadsOnly(s, n) == \A j \in 1..n : s[j].kind \in {"head", "headbyte"}
Chunks(b)       == \A i \in 1..Len(b) : b[i].kind = "chunk"

\* The body b is what follows unit f of the stream s, the buffer r is its end.
Parts(s, b, r, f) ==
  /\ f + Len(b) + Len(r) <= Len(s)
  /\ \A i \in 1..Len(b) : b[i] = s[f + i]
  /\ \A i \in 1..Len(r) : r[i] = s[Len(s) - Len(r) + i]

\* How much of its content a response with head h at f has got in each stage.
Content(h, f) ==
  \/ /\ HeaderTerminated(h) /\ stage = "Complete"
     /\ body = <<>> /\ Before = f
  \/ /\ ~HeaderTerminated(h) /\ Coded(h) /\ Chunks(body)
     /\ \/ stage = "ChunkedBody" /\ Before = f + Len(body)
        \/ /\ stage = "Complete" /\ Before = f + Len(body) + 1
           /\ fed[Before].kind = "last"
  \/ /\ ~HeaderTerminated(h) /\ ~Coded(h) /\ Lengthed(h) /\ Before = f + Len(body)
     /\ \/ stage = "ContentLengthBody" /\ Length(h) = Len(body) + remaining
        \/ stage = "Complete" /\ Length(h) = Len(body)
  \/ /\ ~HeaderTerminated(h) /\ ~Framed(h) /\ Before = f + Len(body)
     /\ stage = "CloseDelimitedBody" \/ (stage = "Complete" /\ buffer = <<>>)

\* The stream is heads, the body as far as it was read, and the buffer.
Holds(f) == /\ IsFinal(fed, f) /\ HeadsOnly(fed, f) /\ status_code = fed[f].status
            /\ Parts(fed, body, buffer, f) /\ Content(fed[f], f)
Whole ==
  /\ Alive /\ stage = "Head" => body = <<>> /\ HeadsOnly(fed, Before)
  /\ (Alive \/ outcome = "Complete") /\ stage # "Head" => \E f \in 1..Len(fed) : Holds(f)
  /\ stage = "Complete" => outcome = "Complete"

\* Where the units of a buffer are in the stream when n have gone to the body and t
\* out of the buffer: lb, lr and ls are the lengths of body, buffer and stream.
Positioned(lb, lr, ls, n, t, f) ==
  /\ f + (lb + n) + (lr - t) <= ls
  /\ \A i \in (lb + 1)..(lb + n) :
       i - lb \in 1..lr /\ i - lb \in 1..n /\ ls - lr + (i - lb) = f + i
  /\ \A i \in 1..(lr - t) :
       t + i \in 1..lr /\ ls - lr + (t + i) = ls - (lr - t) + i

\* The arithmetic of it.
LEMMA Positions ==
  ASSUME NEW lb \in Nat, NEW lr \in Nat, NEW ls \in Nat, NEW n \in Nat, NEW t \in Nat,
         NEW f \in Nat, n <= t, t <= lr, f + lb + lr <= ls, n > 0 => f + lb + lr = ls
  PROVE  Positioned(lb, lr, ls, n, t, f)
BY DEF Positioned

\* n units of the buffer r have gone to the body, and t have been taken out of it.
Moved(s, b, r, f, n, t, c, q) ==
  /\ c \in Seq(Units) /\ Len(c) = Len(b) + n /\ Len(q) = Len(r) - t
  /\ Parts(s, c, q, f)
  /\ \A i \in 1..Len(b) : c[i] = b[i]
  /\ \A i \in Len(b) + 1..Len(c) : c[i] = r[i - Len(b)]

\* The stream is still the body and the buffer then.
LEMMA PartsMove ==
  ASSUME NEW s \in Seq(Units), NEW b \in Seq(Units), NEW r \in Seq(Units), NEW f \in Nat,
         Parts(s, b, r, f), NEW n \in 0..Len(r), NEW t \in n..Len(r),
         n > 0 => f + Len(b) + Len(r) = Len(s),
         NEW c, c = b \o SubSeq(r, 1, n), NEW q, q = SubSeq(r, t + 1, Len(r))
  PROVE  Moved(s, b, r, f, n, t, c, q)
<1> DEFINE p == SubSeq(r, 1, n)
<1>1. /\ Len(b) \in Nat /\ Len(r) \in Nat /\ Len(s) \in Nat /\ n \in Nat /\ t \in Nat
      /\ n <= t /\ t <= Len(r)
  OBVIOUS
<1>2. p \in Seq(Units) /\ Len(p) = n /\ \A i \in 1..n : p[i] = r[i]
  BY <1>1
<1>3. /\ Len(q) = Len(r) - t
      /\ \A i \in 1..Len(q) : q[i] = r[t + i]
  BY <1>1
<1>4. c = b \o p
  OBVIOUS
<1> HIDE DEF p
<1>5. /\ c \in Seq(Units) /\ Len(c) = Len(b) + n
      /\ \A i \in 1..Len(b) : c[i] = b[i]
      /\ \A i \in Len(b) + 1..Len(c) : c[i] = p[i - Len(b)]
  BY <1>1, <1>2, <1>4
<1>6. /\ f + (Len(b) + n) + (Len(r) - t) <= Len(s)
      /\ \A i \in (Len(b) + 1)..(Len(b) + n) :
           /\ i - Len(b) \in 1..Len(r) /\ i - Len(b) \in 1..n
           /\ Len(s) - Len(r) + (i - Len(b)) = f + i
      /\ \A i \in 1..(Len(r) - t) :
           t + i \in 1..Len(r) /\ Len(s) - Len(r) + (t + i) = Len(s) - (Len(r) - t) + i
  <2>1. f + Len(b) + Len(r) <= Len(s)
    BY DEF Parts
  <2>2. n > 0 => f + Len(b) + Len(r) = Len(s)
    OBVIOUS
  <2>3. Positioned(Len(b), Len(r), Len(s), n, t, f)
    BY ONLY <1>1, <2>1, <2>2, f \in Nat, Positions
  <2> QED  BY ONLY <2>3 DEF Positioned
<1>7. ASSUME NEW i \in Len(b) + 1..Len(c) PROVE c[i] = r[i - Len(b)]
  <2>1. i - Len(b) \in 1..n
    BY <1>5, <1>6
  <2> QED  BY <1>2, <1>5, <2>1
<1>8. f + Len(c) + Len(q) <= Len(s)
  BY <1>3, <1>5, <1>6
<1>9. ASSUME NEW i \in 1..Len(c) PROVE c[i] = s[f + i]
  <2>1. CASE i \in 1..Len(b)
    BY <1>5, <2>1 DEF Parts
  <2>2. CASE i \notin 1..Len(b)
    <3>1. i \in (Len(b) + 1)..(Len(b) + n)
      BY <1>1, <1>5, <2>2
    <3>2. i - Len(b) \in 1..Len(r) /\ Len(s) - Len(r) + (i - Len(b)) = f + i
      BY <1>6, <3>1
    <3> QED  BY <1>5, <1>7, <3>1, <3>2 DEF Parts
  <2> QED  BY <2>1, <2>2
<1>10. ASSUME NEW i \in 1..Len(q) PROVE q[i] = s[Len(s) - Len(q) + i]
  <2>1. t + i \in 1..Len(r) /\ Len(s) - Len(r) + (t + i) = Len(s) - Len(q) + i
    BY <1>3, <1>6
  <2> QED  BY <1>3, <2>1 DEF Parts
<1> QED  BY <1>3, <1>5, <1>7, <1>8, <1>9, <1>10 DEF Parts, Moved

\* A segment is added at the end of the stream and of the buffer.
LEMMA PartsFeed ==
  ASSUME NEW s \in Seq(Units), NEW b \in Seq(Units), NEW r \in Seq(Units), NEW f \in Nat,
         Parts(s, b, r, f), NEW g \in Seq(Units)
  PROVE  Parts(s \o g, b, r \o g, f)
<1>1. /\ Len(b) \in Nat /\ Len(r) \in Nat /\ Len(s) \in Nat /\ Len(g) \in Nat
      /\ f + Len(b) + Len(r) <= Len(s)
  BY DEF Parts
<1>2. /\ Len(s \o g) = Len(s) + Len(g) /\ Len(r \o g) = Len(r) + Len(g)
      /\ \A i \in 1..Len(s) : (s \o g)[i] = s[i]
      /\ \A i \in 1..Len(r) : (r \o g)[i] = r[i]
      /\ \A i \in Len(s) + 1..Len(s) + Len(g) : (s \o g)[i] = g[i - Len(s)]
      /\ \A i \in Len(r) + 1..Len(r) + Len(g) : (r \o g)[i] = g[i - Len(r)]
  OBVIOUS
<1> DEFINE sg == s \o g
           rg == r \o g
<1>3. /\ Len(sg) = Len(s) + Len(g) /\ Len(rg) = Len(r) + Len(g)
      /\ \A i \in 1..Len(s) : sg[i] = s[i]
      /\ \A i \in 1..Len(r) : rg[i] = r[i]
      /\ \A i \in Len(s) + 1..Len(s) + Len(g) : sg[i] = g[i - Len(s)]
      /\ \A i \in Len(r) + 1..Len(r) + Len(g) : rg[i] = g[i - Len(r)]
  BY <1>2
<1> HIDE DEF sg, rg
<1>4. f + Len(b) + Len(rg) <= Len(sg)
  BY <1>1, <1>3
<1>5. ASSUME NEW i \in 1..Len(b) PROVE b[i] = sg[f + i]
  <2>1. f + i \in 1..Len(s)
    BY <1>1
  <2> QED  BY <1>3, <2>1 DEF Parts
<1>6. ASSUME NEW i \in 1..Len(rg) PROVE rg[i] = sg[Len(sg) - Len(rg) + i]
  <2> DEFINE k == Len(s) - Len(r) + i
  <2>1. Len(sg) - Len(rg) + i = k
    BY <1>1, <1>3
  <2>2. CASE i <= Len(r)
    <3>1. k \in 1..Len(s) /\ i \in 1..Len(r)
      BY <1>1, <2>2
    <3> QED  BY <1>3, <2>1, <3>1 DEF Parts
  <2>3. CASE i > Len(r)
    <3>1. /\ k \in Len(s) + 1..Len(s) + Len(g) /\ k - Len(s) = i - Len(r)
          /\ i \in Len(r) + 1..Len(r) + Len(g)
      BY <1>1, <1>3, <2>3
    <3> QED  BY <1>3, <2>1, <3>1
  <2> QED  BY <1>1, <2>2, <2>3
<1> QED  BY <1>4, <1>5, <1>6 DEF Parts, sg, rg

\* A final head says what its content is.
LEMMA FinalStages ==
  ASSUME NEW h
  PROVE  \/ HeaderTerminated(h) /\ BodyStage(h) = "Complete"
         \/ ~HeaderTerminated(h) /\ Coded(h) /\ BodyStage(h) = "ChunkedBody"
         \/ /\ ~HeaderTerminated(h) /\ ~Coded(h) /\ Lengthed(h)
            /\ \/ Length(h) = 0 /\ BodyStage(h) = "Complete"
               \/ Length(h) # 0 /\ BodyStage(h) = "ContentLengthBody"
         \/ ~HeaderTerminated(h) /\ ~Framed(h) /\ BodyStage(h) = "CloseDelimitedBody"
BY DEF BodyStage, Framed

\* What is left of a sequence behind its first k elements.
LEMMA Rest ==
  ASSUME NEW s \in Seq(Units), NEW k \in 0..Len(s)
  PROVE  /\ SubSeq(s, k + 1, Len(s)) \in Seq(Units)
         /\ Len(SubSeq(s, k + 1, Len(s))) = Len(s) - k
         /\ \A i \in 1..(Len(s) - k) : SubSeq(s, k + 1, Len(s))[i] = s[k + i]
OBVIOUS

\* A complete response is the whole message.
LEMMA MessageIsWhole ==
  ASSUME TypeOK, Ends, Whole
  PROVE  WholeMessage
<1> SUFFICES ASSUME outcome = "Complete" PROVE WholeMessage
  BY DEF WholeMessage
<1>1. stage = "Complete"
  BY DEF Ends
<1>2. PICK f \in 1..Len(fed) : Holds(f)
  BY <1>1 DEF Whole
<1>3. HasFinal(fed) /\ FinalHead(fed) = f
  BY <1>2, FinalIsUnique DEF Holds, HasFinal, TypeOK
<1> DEFINE h == fed[f]
           tail == SubSeq(fed, f + 1, Len(fed))
           n == ContentLength(h, tail)
           used == IF Coded(h) /\ ~HeaderTerminated(h) THEN n + 1 ELSE n
<1>4. /\ fed \in Seq(Units) /\ body \in Seq(Units) /\ buffer \in Seq(Units)
      /\ Len(fed) \in Nat /\ Len(body) \in Nat /\ Len(buffer) \in Nat /\ f \in Nat
      /\ f <= Len(fed)
  BY DEF TypeOK
<1>5. /\ tail \in Seq(Units) /\ Len(tail) = Len(fed) - f
      /\ \A i \in 1..Len(tail) : tail[i] = fed[f + i]
  <2>1. f \in 0..Len(fed)
    BY <1>4
  <2> QED  BY <1>4, <2>1, Rest
<1>6. /\ f + Len(body) + Len(buffer) <= Len(fed)
      /\ \A i \in 1..Len(body) : body[i] = fed[f + i]
      /\ \A i \in 1..Len(buffer) : buffer[i] = fed[Before + i]
  BY <1>2 DEF Holds, Parts, Before
<1>7. Before \in Nat /\ Before + Len(buffer) = Len(fed)
  BY <1>4, <1>6 DEF Before
<1>8. Content(h, f)
  BY <1>2 DEF Holds
<1> HIDE DEF tail
<1>9. \A i \in 1..Len(body) : i \in 1..Len(tail) /\ tail[i] = body[i]
  BY <1>4, <1>5, <1>6
<1>10. n = Len(body) /\ Before = f + used
  <2>1. CASE HeaderTerminated(h)
    BY <1>1, <1>4, <1>8, <2>1 DEF Content, ContentLength
  <2>2. CASE ~HeaderTerminated(h) /\ Coded(h)
    <3>1. Chunks(body) /\ Before = f + Len(body) + 1 /\ fed[Before].kind = "last"
      BY <1>1, <1>8, <2>2 DEF Content, Framed
    <3>2. Len(body) \in 0..(Len(tail) - 1) /\ Len(body) + 1 \in 1..Len(tail)
          /\ f + (Len(body) + 1) = Before
      BY <1>4, <1>5, <1>7, <3>1
    <3>3. tail[Len(body) + 1].kind = "last"
      BY <1>5, <3>1, <3>2
    <3>4. \A i \in 1..Len(body) : tail[i].kind = "chunk"
      BY <1>9, <3>1 DEF Chunks
    <3>5. EndsAtLast(tail, Len(body))
      BY <3>3, <3>4 DEF EndsAtLast
    <3>6. ASSUME NEW m \in 0..(Len(tail) - 1), EndsAtLast(tail, m)
          PROVE  m = Len(body)
      <4>1. ~(m < Len(body))
        <5> SUFFICES ASSUME m < Len(body) PROVE FALSE
          OBVIOUS
        <5>1. m + 1 \in 1..Len(body)
          BY <1>4
        <5>2. tail[m + 1].kind = "chunk" /\ tail[m + 1].kind = "last"
          BY <3>4, <3>6, <5>1 DEF EndsAtLast
        <5> QED  BY <5>2
      <4>2. ~(Len(body) < m)
        <5> SUFFICES ASSUME Len(body) < m PROVE FALSE
          OBVIOUS
        <5>1. Len(body) + 1 \in 1..m
          BY <1>4
        <5>2. tail[Len(body) + 1].kind = "chunk"
          BY <3>6, <5>1 DEF EndsAtLast
        <5> QED  BY <3>3, <5>2
      <4> QED  BY <1>4, <3>2, <4>1, <4>2
    <3>7. n = CHOOSE m \in 0..(Len(tail) - 1) : EndsAtLast(tail, m)
      BY <2>2 DEF ContentLength
    <3>8. n = Len(body)
      BY <3>2, <3>5, <3>6, <3>7
    <3> QED  BY <1>4, <2>2, <3>1, <3>8
  <2>3. CASE ~HeaderTerminated(h) /\ ~Coded(h) /\ Lengthed(h)
    <3>1. Before = f + Len(body) /\ Length(h) = Len(body)
      BY <1>1, <1>8, <2>3 DEF Content, Framed
    <3> QED  BY <2>3, <3>1 DEF ContentLength
  <2>4. CASE ~HeaderTerminated(h) /\ ~Coded(h) /\ ~Lengthed(h)
    <3>1. Before = f + Len(body) /\ buffer = <<>>
      BY <1>1, <1>8, <2>4 DEF Content, Framed
    <3>2. n = Len(tail)
      BY <2>4 DEF ContentLength
    <3>3. Len(tail) = Len(body)
      BY <1>4, <1>5, <1>7, <3>1
    <3> QED  BY <2>4, <3>1, <3>2, <3>3
  <2> QED  BY <2>1, <2>2, <2>3, <2>4
<1> HIDE DEF n, used
<1>11. used \in Nat /\ used <= Len(tail) /\ Len(tail) - used = Len(buffer)
  <2>1. used = Len(body) \/ used = Len(body) + 1
    BY <1>10 DEF used
  <2>2. used \in Nat
    BY <1>4, <2>1
  <2>3. Before = f + used /\ Before + Len(buffer) = Len(fed) /\ Len(tail) = Len(fed) - f
    BY <1>5, <1>7, <1>10
  <2>4. used + Len(buffer) = Len(tail)
    BY <1>4, <2>2, <2>3
  <2>5. Len(tail) \in Nat /\ Len(buffer) \in Nat
    BY <1>4, <1>5
  <2> QED  BY ONLY <2>2, <2>4, <2>5
<1>12. body = SubSeq(tail, 1, n)
  <2> DEFINE front == SubSeq(tail, 1, Len(body))
  <2>1. Len(body) <= Len(tail)
    BY <1>4, <1>5, <1>6
  <2>2. /\ front \in Seq(Units) /\ Len(front) = Len(body)
        /\ \A i \in 1..Len(front) : front[i] = tail[i]
    BY <1>4, <1>5, <2>1
  <2> HIDE DEF front
  <2>3. body = front
    BY <1>4, <1>9, <2>2, SeqEqual
  <2> QED  BY <1>10, <2>3 DEF front
<1>13. buffer = SubSeq(tail, used + 1, Len(tail))
  <2> DEFINE rest == SubSeq(tail, used + 1, Len(tail))
  <2>1. /\ rest \in Seq(Units) /\ Len(rest) = Len(buffer)
        /\ \A i \in 1..Len(rest) : rest[i] = tail[used + i]
    <3>1. used \in 0..Len(tail) /\ Len(tail) \in Nat
      BY <1>5, <1>11
    <3> QED  BY <1>5, <1>11, <3>1, Rest
  <2>2. ASSUME NEW i \in 1..Len(buffer) PROVE buffer[i] = tail[used + i]
    <3>1. used + i \in 1..Len(tail) /\ f + (used + i) = Before + i
      BY <1>4, <1>10, <1>11
    <3> QED  BY <1>5, <1>6, <3>1
  <2> HIDE DEF rest
  <2>3. buffer = rest
    BY <1>4, <2>1, <2>2, SeqEqual
  <2> QED  BY <2>3 DEF rest
<1>14. \A j \in 1..f : fed[j].kind \in {"head", "headbyte"}
  BY <1>2 DEF Holds, HeadsOnly
<1>15. status_code = h.status
  BY <1>2 DEF Holds
<1> QED  BY <1>3, <1>11, <1>12, <1>13, <1>14, <1>15 DEF WholeMessage, n, used, tail

\* n units of the buffer are read into the body, and t are consumed.
LEMMA Reads ==
  ASSUME TypeOK, NEW f \in 1..Len(fed), Holds(f), UNCHANGED <<head_request, status_code, fed>>,
         NEW n \in 0..Len(buffer), NEW t \in n..Len(buffer),
         n > 0 => Before = f + Len(body),
         body' = body \o SubSeq(buffer, 1, n),
         buffer' = SubSeq(buffer, t + 1, Len(buffer))
  PROVE  /\ Len(body') = Len(body) + n /\ Before' = Before + t /\ Before \in Nat
         /\ \A i \in 1..Len(body) : body'[i] = body[i]
         /\ \A i \in Len(body) + 1..Len(body') : body'[i] = buffer[i - Len(body)]
         /\ \A i \in 1..Len(buffer) : buffer[i] = fed[Before + i]
         /\ Content(fed[f], f)' => Holds(f)'
<1>1. /\ fed \in Seq(Units) /\ body \in Seq(Units) /\ buffer \in Seq(Units)
      /\ Len(fed) \in Nat /\ Len(body) \in Nat /\ Len(buffer) \in Nat /\ f \in Nat
      /\ n \in Nat /\ t \in Nat
  BY DEF TypeOK
<1>2. /\ Parts(fed, body, buffer, f) /\ IsFinal(fed, f) /\ HeadsOnly(fed, f)
      /\ status_code = fed[f].status
  BY DEF Holds
<1>3. n > 0 => f + Len(body) + Len(buffer) = Len(fed)
  BY <1>1 DEF Before
<1>4. /\ Len(body') = Len(body) + n /\ Len(buffer') = Len(buffer) - t
      /\ Parts(fed, body', buffer', f)
      /\ \A i \in 1..Len(body) : body'[i] = body[i]
      /\ \A i \in Len(body) + 1..Len(body') : body'[i] = buffer[i - Len(body)]
  <2>1. PICK c : c = body' /\ c = body \o SubSeq(buffer, 1, n)
    OBVIOUS
  <2>2. PICK q : q = buffer' /\ q = SubSeq(buffer, t + 1, Len(buffer))
    OBVIOUS
  <2>3. /\ Len(c) = Len(body) + n /\ Len(q) = Len(buffer) - t
        /\ Parts(fed, c, q, f)
        /\ \A i \in 1..Len(body) : c[i] = body[i]
        /\ \A i \in Len(body) + 1..Len(c) : c[i] = buffer[i - Len(body)]
    <3>1. Parts(fed, body, buffer, f)
      BY <1>2
    <3>2. c = body \o SubSeq(buffer, 1, n) /\ q = SubSeq(buffer, t + 1, Len(buffer))
      BY <2>1, <2>2
    <3>3. t \in n..Len(buffer) /\ n \in 0..Len(buffer)
      OBVIOUS
    <3>4. Moved(fed, body, buffer, f, n, t, c, q)
      BY ONLY <1>1, <1>3, <3>1, <3>2, <3>3, PartsMove
    <3> QED  BY <3>4 DEF Moved
  <2> QED  BY <2>1, <2>2, <2>3
<1>5. Before' = Before + t
  <2>1. Len(fed') = Len(fed) /\ Len(buffer') = Len(buffer) - t
    BY <1>4
  <2>2. Before' = Len(fed) - (Len(buffer) - t) /\ Before = Len(fed) - Len(buffer)
    BY <2>1 DEF Before
  <2> QED  BY ONLY <1>1, <2>2
<1>6. Before \in Nat /\ \A i \in 1..Len(buffer) : buffer[i] = fed[Before + i]
  BY <1>1, <1>2 DEF Parts, Before
<1>7. ASSUME Content(fed[f], f)' PROVE Holds(f)'
  BY <1>2, <1>4, <1>7 DEF Holds, IsFinal, HeadsOnly, Parts
<1> QED  BY <1>4, <1>5, <1>6, <1>7

\* All that comes up to a head that can be read are the bytes of heads.
LEMMA OnlyHeads ==
  ASSUME TypeOK, Unread, HeadReadable, HeadsOnly(fed, Before)
  PROVE  HeadsOnly(fed, Before + HeadEnd(buffer))
<1> DEFINE k == HeadEnd(buffer)
<1>1. k \in 1..Len(buffer) /\ buffer[k].kind = "head"
  BY HeadFound, HeadFirst DEF TypeOK, HeadReadable
<1>2. \A j \in 1..(k - 1) : buffer[j].kind = "headbyte"
  <2>1. SyntaxError(buffer) = "none"
    BY DEF HeadReadable
  <2> QED  BY <2>1 DEF SyntaxError
<1>3. /\ Len(buffer) \in Nat /\ Len(fed) \in Nat /\ Len(buffer) <= Len(fed)
      /\ Before \in Nat /\ Before + Len(buffer) = Len(fed)
      /\ \A i \in 1..Len(buffer) : buffer[i] = fed[Before + i]
  BY DEF TypeOK, Unread, Alive, HeadReadable, Running, Before
<1> HIDE DEF k
<1>4. SUFFICES ASSUME NEW j \in 1..(Before + k) PROVE fed[j].kind \in {"head", "headbyte"}
  BY DEF HeadsOnly, k
<1>5. CASE j <= Before
  BY <1>3, <1>5 DEF HeadsOnly
<1>6. CASE j > Before
  <2> DEFINE i == j - Before
  <2>1. i \in 1..k /\ Before + i = j /\ i \in 1..Len(buffer)
    BY <1>1, <1>3, <1>6
  <2> HIDE DEF i
  <2>2. buffer[i] = fed[j]
    BY <1>3, <2>1
  <2>3. i = k \/ i \in 1..(k - 1)
    BY <1>1, <2>1
  <2> QED  BY <1>1, <1>2, <2>2, <2>3
<1> QED  BY <1>3, <1>5, <1>6

\* The final head: nothing of its content is read yet.
LEMMA FinalHolds == TypeOK /\ Provenance /\ Whole /\ HeadFinal => Whole'
<1> SUFFICES ASSUME TypeOK, Provenance, Whole, HeadFinal PROVE Whole'
  OBVIOUS
<1> DEFINE f == Before + HeadEnd(buffer)
           h == NextHead
<1>1. /\ HeadReadable /\ Alive /\ stage = "Head" /\ Unread
      /\ HeadError(h) = "none" /\ ~Interim(h.status)
  BY DEF HeadFinal, HeadReadable, Running, Alive, Provenance
<1>2. /\ buffer' = BehindHead /\ status_code' = h.status /\ stage' = BodyStage(h)
      /\ remaining' = IF stage' = "ContentLengthBody" THEN Length(h) ELSE 0
      /\ outcome' = IF stage' = "Complete" THEN "Complete" ELSE "running"
      /\ UNCHANGED <<head_request, body, fed, eof>>
  BY DEF HeadFinal
<1>3. body = <<>> /\ HeadsOnly(fed, Before)
  BY <1>1 DEF Whole
<1>4. /\ f \in 1..Len(fed) /\ fed[f] = h /\ fed[f].kind = "head"
      /\ \A j \in 1..(f - 1) : fed[j].kind = "head" => Interim(fed[j].status)
      /\ Len(BehindHead) = Len(buffer) - HeadEnd(buffer)
      /\ \A i \in 1..Len(BehindHead) : BehindHead[i] = fed[f + i]
  BY <1>1, NextHeadInStream
<1>5. HeadsOnly(fed, f)
  BY <1>1, <1>3, OnlyHeads
<1>6. /\ HeadEnd(buffer) \in 1..Len(buffer) /\ Len(buffer) \in Nat /\ Len(fed) \in Nat
      /\ h \in HeadUnits
  BY <1>1, HeadFound, ReadableHead DEF HeadReadable, TypeOK
<1>7. Before' = f /\ Len(fed) - Len(buffer') = f /\ Len(buffer') \in Nat
  BY <1>2, <1>4, <1>6 DEF Before
<1>8. stage' # "Head"
  BY <1>2 DEF BodyStage
<1>9. PICK m \in 1..Len(fed) : m = f
  BY <1>4
<1>10. PICK g : g = h
  OBVIOUS
<1> HIDE DEF f, h
<1>11. Parts(fed, <<>>, buffer', m)
  <2>1. m + Len(buffer') = Len(fed) /\ Len(fed) - Len(buffer') = m
    BY <1>6, <1>7, <1>9
  <2>2. \A i \in 1..Len(buffer') : buffer'[i] = fed[m + i]
    BY <1>2, <1>4, <1>9
  <2>3. Len(<<>>) = 0 /\ m + Len(<<>>) + Len(buffer') <= Len(fed)
    BY <1>6, <1>7, <2>1
  <2>4. \A i \in 1..Len(<<>>) : FALSE
    BY <2>3
  <2> QED  BY <2>1, <2>2, <2>3, <2>4 DEF Parts
<1>12. HeaderTerminated(g)' = HeaderTerminated(g)
  BY <1>2 DEF HeaderTerminated
<1>13. /\ body' = <<>> /\ Len(body') = 0 /\ Chunks(body')
       /\ Before' = m /\ Before' = m + Len(body')
  BY <1>2, <1>3, <1>7, <1>9 DEF Chunks
<1>14. Content(g, m)'
  <2>1. CASE HeaderTerminated(g) /\ BodyStage(g) = "Complete"
    BY <1>2, <1>10, <1>12, <1>13, <2>1 DEF Content
  <2>2. CASE ~HeaderTerminated(g) /\ Coded(g) /\ BodyStage(g) = "ChunkedBody"
    BY <1>2, <1>10, <1>12, <1>13, <2>2 DEF Content
  <2>3. CASE /\ ~HeaderTerminated(g) /\ ~Coded(g) /\ Lengthed(g)
             /\ Length(g) = 0 /\ BodyStage(g) = "Complete"
    BY <1>2, <1>10, <1>12, <1>13, <2>3 DEF Content
  <2>4. CASE /\ ~HeaderTerminated(g) /\ ~Coded(g) /\ Lengthed(g)
             /\ BodyStage(g) = "ContentLengthBody"
    <3>1. Length(g) \in Nat
      BY <1>1, <1>6, <1>10, <2>4, AcceptedHead
    <3>2. Length(g) = Len(body') + remaining'
      BY <1>2, <1>10, <1>13, <2>4, <3>1
    <3> QED  BY <1>2, <1>10, <1>12, <1>13, <2>4, <3>2 DEF Content
  <2>5. CASE ~HeaderTerminated(g) /\ ~Framed(g) /\ BodyStage(g) = "CloseDelimitedBody"
    BY <1>2, <1>10, <1>12, <1>13, <2>5 DEF Content
  <2> QED  BY <2>1, <2>2, <2>3, <2>4, <2>5, FinalStages
<1>15. IsFinal(fed, m)
  BY <1>1, <1>4, <1>9 DEF IsFinal
<1>16. fed' = fed /\ fed[m] = g /\ status_code' = fed[m].status
  BY <1>2, <1>4, <1>9, <1>10
<1>17. Holds(m)'
  <2>1. IsFinal(fed, m)'
    BY <1>15, <1>16 DEF IsFinal
  <2>2. HeadsOnly(fed, m)'
    BY <1>5, <1>9, <1>16 DEF HeadsOnly
  <2>3. Parts(fed, body, buffer, m)'
    BY <1>11, <1>13, <1>16 DEF Parts
  <2>4. Content(fed[m], m)'
    BY <1>14, <1>16 DEF Content, HeaderTerminated
  <2> QED  BY <1>16, <2>1, <2>2, <2>3, <2>4 DEF Holds
<1> QED  BY <1>2, <1>8, <1>16, <1>17 DEF Whole

\* All of the buffer is read into a close-delimited body.
LEMMA RestRead ==
  ASSUME TypeOK, stage = "CloseDelimitedBody", stage' \in {stage, "Complete"},
         NEW f \in 1..Len(fed), Holds(f), UNCHANGED <<head_request, status_code, fed>>,
         body' = body \o buffer, buffer' = <<>>
  PROVE  Holds(f)'
<1> DEFINE n == Len(buffer)
<1>1. /\ body \in Seq(Units) /\ buffer \in Seq(Units) /\ n \in Nat
      /\ Len(body) \in Nat /\ f \in Nat
  BY DEF TypeOK
<1>2. PICK h : h = fed[f]
  OBVIOUS
<1>3. ~HeaderTerminated(h) /\ ~Framed(h) /\ Before = f + Len(body)
  BY <1>2 DEF Holds, Content
<1>4. body' = body \o SubSeq(buffer, 1, n) /\ buffer' = SubSeq(buffer, n + 1, Len(buffer))
  BY <1>1
<1>5. n \in 0..Len(buffer) /\ n \in n..Len(buffer)
  BY <1>1
<1> HIDE DEF n
<1>6. /\ Len(body') = Len(body) + n /\ Before' = Before + n
      /\ Content(fed[f], f)' => Holds(f)'
  BY <1>3, <1>4, <1>5, Reads
<1>7. Before' = f + Len(body')
  BY <1>1, <1>3, <1>6
<1>8. ~HeaderTerminated(h)' /\ h = fed[f]'
  BY <1>2, <1>3 DEF HeaderTerminated
<1>9. Content(fed[f], f)'
  BY <1>3, <1>7, <1>8 DEF Content
<1> QED  BY <1>6, <1>9

\* The parts of the stream stay where they are in every step.
LEMMA WholeStep == TypeOK /\ Provenance /\ Whole /\ [Next]_vars => Whole'
<1> SUFFICES ASSUME TypeOK, Provenance, Whole, [Next]_vars PROVE Whole'
  OBVIOUS
<1>0. /\ fed \in Seq(Units) /\ body \in Seq(Units) /\ buffer \in Seq(Units)
      /\ Len(fed) \in Nat /\ Len(body) \in Nat /\ Len(buffer) \in Nat
      /\ remaining \in Nat
  BY DEF TypeOK
<1>1. CASE HeadUnfinished
  <2>1. /\ stage = "Head" /\ outcome = "running"
        /\ UNCHANGED <<head_request, stage, buffer, body, fed>>
    BY <1>1 DEF HeadUnfinished, Running, Fails
  <2> QED  BY <2>1 DEF Whole, Before, Alive, HeadsOnly
<1>2. CASE HeadUnreadable
  <2>1. NextHead \in HeadUnits
    BY <1>2, HeadFound, HeadAssumption DEF HeadUnreadable, NextHead, TypeOK
  <2>2. outcome' \in Errors
    BY <1>2, <2>1 DEF HeadUnreadable, Fails, SyntaxError, NextHead, HeadUnits, Errors
  <2>3. stage = "Head" /\ stage' = stage
    BY <1>2, Zenon DEF HeadUnreadable, Running, Fails
  <2> QED  BY <2>2, <2>3 DEF Whole, Alive, Errors
<1>3. CASE HeadRefused
  <2>1. stage = "Head" /\ stage' = stage /\ outcome' \in Errors
    BY <1>3, HeadErrors DEF HeadRefused, HeadReadable, Running
  <2> QED  BY <2>1 DEF Whole, Alive, Errors
<1>4. CASE HeadInterim
  <2> DEFINE f == Before + HeadEnd(buffer)
  <2>1. /\ HeadReadable /\ Alive /\ stage = "Head" /\ Unread
        /\ buffer' = BehindHead /\ UNCHANGED <<stage, body, outcome, fed>>
    BY <1>4 DEF HeadInterim, HeadReadable, Running, Alive, Provenance
  <2>2. body = <<>> /\ HeadsOnly(fed, Before)
    BY <2>1 DEF Whole
  <2>3. HeadsOnly(fed, f)
    BY <2>1, <2>2, OnlyHeads
  <2>4. Len(BehindHead) = Len(buffer) - HeadEnd(buffer)
    BY <2>1, NextHeadInStream
  <2>5. HeadEnd(buffer) \in 1..Len(buffer)
    BY <2>1, HeadFound DEF HeadReadable, TypeOK
  <2>6. Before' = f
    BY <1>0, <2>1, <2>4, <2>5 DEF Before
  <2> HIDE DEF f
  <2>7. HeadsOnly(fed, Before)'
    BY <2>1, <2>3, <2>6 DEF HeadsOnly
  <2> QED  BY <2>1, <2>2, <2>7 DEF Whole
<1>5. CASE HeadFinal
  BY <1>5, FinalHolds
<1>6. CASE ContentLengthBody
  <2> DEFINE n == IF remaining <= Len(buffer) THEN remaining ELSE Len(buffer)
  <2>1. /\ stage = "ContentLengthBody" /\ outcome = "running"
        /\ body' = body \o SubSeq(buffer, 1, n)
        /\ buffer' = SubSeq(buffer, n + 1, Len(buffer))
        /\ remaining' = remaining - n
        /\ \/ n = remaining /\ stage' = "Complete" /\ outcome' = "Complete"
           \/ n # remaining /\ outcome' = "NeedMore" /\ UNCHANGED stage
        /\ UNCHANGED <<head_request, status_code, fed>>
    BY <1>6 DEF ContentLengthBody, Running
  <2>2. n \in 0..Len(buffer) /\ n \in Nat /\ n <= remaining
    BY <1>0
  <2>3. PICK f \in 1..Len(fed) : Holds(f)
    BY <2>1 DEF Whole, Alive
  <2>4. PICK h : h = fed[f]
    OBVIOUS
  <2>5. /\ ~HeaderTerminated(h) /\ ~Coded(h) /\ Lengthed(h)
        /\ Length(h) = Len(body) + remaining /\ Before = f + Len(body)
    BY <2>1, <2>3, <2>4 DEF Holds, Content
  <2> HIDE DEF n
  <2>6. /\ Len(body') = Len(body) + n /\ Before' = Before + n
        /\ Content(fed[f], f)' => Holds(f)'
    <3>1. n \in n..Len(buffer)
      BY <1>0, <2>2
    <3> QED  BY <2>1, <2>2, <2>3, <2>5, <3>1, Reads
  <2>7. Before' = f + Len(body') /\ Length(h) = Len(body') + remaining'
    <3>1. f \in Nat /\ Len(body) \in Nat /\ remaining \in Nat /\ n \in Nat
      BY <1>0, <2>2
    <3>2. Len(body') = Len(body) + n /\ Before' = Before + n /\ remaining' = remaining - n
          /\ Length(h) = Len(body) + remaining /\ Before = f + Len(body)
      BY <2>1, <2>5, <2>6
    <3> QED  BY ONLY <3>1, <3>2
  <2>8. n = remaining => Length(h) = Len(body')
    BY <1>0, <2>2, <2>5, <2>6
  <2>9. ~HeaderTerminated(h)' /\ h = fed[f]'
    BY <2>1, <2>4, <2>5 DEF HeaderTerminated
  <2>10. Content(fed[f], f)'
    BY <2>1, <2>5, <2>7, <2>8, <2>9 DEF Content
  <2> QED  BY <2>1, <2>6, <2>10 DEF Whole, Alive
<1>7. CASE CloseDelimitedBody
  <2>1. /\ stage = "CloseDelimitedBody" /\ outcome = "running"
        /\ UNCHANGED <<head_request, stage, status_code, fed>>
        /\ \/ outcome' = RestError /\ RestError # "none"
           \/ body' = body \o buffer /\ buffer' = <<>> /\ outcome' = "NeedMore"
    BY <1>7 DEF CloseDelimitedBody, Running, Fails
  <2>2. CASE outcome' = RestError /\ RestError # "none"
    <3>1. outcome' \in {"MalformedResponse", "ResponseLimitExceeded"}
      BY <2>2, RestErrors
    <3> QED  BY <2>1, <3>1 DEF Whole, Alive
  <2>3. CASE body' = body \o buffer /\ buffer' = <<>> /\ outcome' = "NeedMore"
    <3>1. PICK f \in 1..Len(fed) : Holds(f)
      BY <2>1 DEF Whole, Alive
    <3>2. Holds(f)'
      BY <2>1, <2>3, <3>1, RestRead
    <3> QED  BY <2>1, <2>3, <3>2 DEF Whole
  <2> QED  BY <2>1, <2>2, <2>3
<1>8. CASE ChunkedBody
  <2>1. PICK n \in Accepted :
          LET report == DecoderReport(n)
              taken  == IF report = "Complete" THEN n + 1 ELSE n
          IN /\ body'   = body \o SubSeq(buffer, 1, n)
             /\ buffer' = IF report \in {"NeedMore", "Complete"}
                            THEN SubSeq(buffer, taken + 1, Len(buffer)) ELSE buffer
             /\ outcome' = IF /\ report \in {"NeedMore", "Complete"}
                              /\ flags.forbidden /\ body' # <<>>
                             THEN "MalformedResponse" ELSE report
             /\ stage' = IF outcome' = "Complete" THEN "Complete" ELSE stage
    BY <1>8 DEF ChunkedBody
  <2>2. /\ stage = "ChunkedBody" /\ outcome = "running"
        /\ UNCHANGED <<head_request, status_code, fed>>
    BY <1>8 DEF ChunkedBody, Running
  <2>3. /\ n \in 0..Len(buffer) /\ n \in Nat /\ \A i \in 1..n : buffer[i].kind = "chunk"
    BY <1>0, <2>1 DEF Accepted
  <2>4. PICK f \in 1..Len(fed) : Holds(f)
    BY <2>2 DEF Whole, Alive
  <2>5. PICK h : h = fed[f]
    OBVIOUS
  <2>6. ~HeaderTerminated(h) /\ Coded(h) /\ Chunks(body) /\ Before = f + Len(body)
    BY <2>2, <2>4, <2>5 DEF Holds, Content, Framed
  <2>7. ~HeaderTerminated(h)' /\ h = fed[f]'
    BY <2>2, <2>5, <2>6 DEF HeaderTerminated
  <2>8. PICK t \in n..n + 1 :
          /\ t = IF DecoderReport(n) = "Complete" THEN n + 1 ELSE n
    BY <2>3
  <2>9. CASE outcome' \notin {"NeedMore", "Complete"}
    <3>1. stage' = stage /\ outcome' # "running"
      BY <2>1, <2>9 DEF DecoderReport
    <3> QED  BY <2>2, <2>9, <3>1 DEF Whole, Alive
  <2>10. CASE outcome' \in {"NeedMore", "Complete"}
    <3>1. /\ outcome' = DecoderReport(n)
          /\ buffer' = SubSeq(buffer, t + 1, Len(buffer))
          /\ body' = body \o SubSeq(buffer, 1, n)
          /\ stage' = IF outcome' = "Complete" THEN "Complete" ELSE stage
      BY <2>1, <2>8, <2>10
    <3>2. t \in n..Len(buffer) /\ (outcome' = "Complete" => buffer[t].kind = "last")
      BY <1>0, <2>3, <2>8, <3>1 DEF DecoderReport
    <3>3. /\ Len(body') = Len(body) + n /\ Before' = Before + t /\ Before \in Nat
          /\ \A i \in 1..Len(body) : body'[i] = body[i]
          /\ \A i \in Len(body) + 1..Len(body') : body'[i] = buffer[i - Len(body)]
          /\ \A i \in 1..Len(buffer) : buffer[i] = fed[Before + i]
          /\ Content(fed[f], f)' => Holds(f)'
      BY <2>2, <2>3, <2>4, <2>6, <3>1, <3>2, Reads
    <3>4. Chunks(body')
      <4> SUFFICES ASSUME NEW i \in 1..Len(body') PROVE body'[i].kind = "chunk"
        BY DEF Chunks
      <4>1. CASE i <= Len(body)
        <5>1. i \in 1..Len(body)
          BY <1>0, <4>1
        <5> QED  BY <2>6, <3>3, <5>1 DEF Chunks
      <4>2. CASE i > Len(body)
        <5>1. i \in Len(body) + 1..Len(body') /\ i - Len(body) \in 1..n
          BY <1>0, <2>3, <3>3, <4>2
        <5> QED  BY <2>3, <3>3, <5>1
      <4> QED  BY <1>0, <4>1, <4>2
    <3>5. CASE outcome' = "Complete"
      <4>1. t = n + 1 /\ t \in 1..Len(buffer) /\ buffer[t].kind = "last"
        BY <1>0, <2>3, <2>8, <3>1, <3>2, <3>5
      <4>2. Before' = f + Len(body') + 1 /\ fed[Before + t].kind = "last"
        BY <1>0, <2>3, <2>6, <3>3, <4>1
      <4>3. fed[Before]'.kind = "last"
        BY <2>2, <3>3, <4>2
      <4>4. Content(fed[f], f)'
        BY <2>6, <2>7, <3>1, <3>4, <3>5, <4>2, <4>3 DEF Content
      <4> QED  BY <2>2, <3>1, <3>3, <3>5, <4>4 DEF Whole
    <3>6. CASE outcome' = "NeedMore"
      <4>1. t = n
        BY <2>8, <3>1, <3>6
      <4>2. Before' = f + Len(body')
        BY <1>0, <2>3, <2>6, <3>3, <4>1
      <4>3. Content(fed[f], f)'
        BY <2>2, <2>6, <2>7, <3>1, <3>4, <3>6, <4>2 DEF Content
      <4> QED  BY <2>2, <3>1, <3>3, <3>6, <4>3 DEF Whole
    <3> QED  BY <2>10, <3>5, <3>6
  <2> QED  BY <2>9, <2>10
<1>9. CASE FinishEof
  <2>1. UNCHANGED <<head_request, status_code, fed>> /\ outcome = "NeedMore"
    BY <1>9 DEF FinishEof
  <2>2. CASE /\ stage = "CloseDelimitedBody" /\ stage' = "Complete" /\ outcome' = "Complete"
             /\ body' = body \o buffer /\ buffer' = <<>>
    <3>1. PICK f \in 1..Len(fed) : Holds(f)
      BY <2>1, <2>2 DEF Whole, Alive
    <3>2. Holds(f)'
      BY <2>1, <2>2, <3>1, RestRead
    <3> QED  BY <2>1, <2>2, <3>2 DEF Whole
  <2>3. CASE /\ stage' = stage
             /\ outcome' = "UnexpectedEof" \/ (outcome' = RestError /\ RestError # "none")
    <3>1. outcome' \in {"UnexpectedEof", "MalformedResponse", "ResponseLimitExceeded"}
      BY <2>3, RestErrors
    <3> QED  BY <2>1, <2>3, <3>1 DEF Whole, Alive
  <2> QED  BY <1>9, <2>2, <2>3 DEF FinishEof
<1>10. CASE \E segment \in Segments : Feed(segment)
  <2>1. PICK segment \in Segments : Feed(segment)
    BY <1>10
  <2>2. segment \in Seq(Units) /\ Len(segment) \in Nat
    BY SegmentAssumption
  <2>3. /\ buffer' = buffer \o segment /\ fed' = fed \o segment
        /\ outcome = "NeedMore" /\ outcome' = "running"
        /\ UNCHANGED <<head_request, stage, status_code, body, remaining>>
    BY <2>1 DEF Feed
  <2>4. /\ Len(buffer') = Len(buffer) + Len(segment)
        /\ Len(fed') = Len(fed) + Len(segment)
        /\ \A i \in 1..Len(fed) : fed'[i] = fed[i]
    BY <1>0, <2>2, <2>3
  <2>5. Before' = Before
    BY <1>0, <2>2, <2>4 DEF Before
  <2>6. stage # "Complete"
    BY <2>3 DEF Whole
  <2>7. ASSUME stage = "Head" PROVE HeadsOnly(fed', Before)
    <3>1. HeadsOnly(fed, Before) /\ Before <= Len(fed)
      BY <1>0, <2>3, <2>7 DEF Whole, Alive, Before
    <3>2. \A j \in 1..Before : j \in 1..Len(fed)
      BY <1>0, <3>1 DEF Before
    <3> QED  BY <2>4, <3>1, <3>2 DEF HeadsOnly
  <2>8. ASSUME stage # "Head" PROVE \E f \in 1..Len(fed') : Holds(f)'
    <3>1. PICK f \in 1..Len(fed) : Holds(f)
      BY <2>3, <2>8 DEF Whole, Alive
    <3>2. f \in 1..Len(fed') /\ fed'[f] = fed[f] /\ \A j \in 1..f : fed'[j] = fed[j]
      BY <1>0, <2>2, <2>4
    <3>3. IsFinal(fed, f)' /\ HeadsOnly(fed, f)' /\ status_code' = fed'[f].status
      <4>1. IsFinal(fed, f) /\ HeadsOnly(fed, f) /\ status_code = fed[f].status
        BY <3>1 DEF Holds
      <4>2. \A j \in 1..(f - 1) : j \in 1..f
        OBVIOUS
      <4> QED  BY <2>3, <3>2, <4>1, <4>2 DEF IsFinal, HeadsOnly
    <3>4. Parts(fed, body, buffer, f)'
      <4>1. Parts(fed \o segment, body, buffer \o segment, f)
        BY <1>0, <2>2, <3>1, PartsFeed DEF Holds
      <4> QED  BY <2>3, <4>1 DEF Parts
    <3>5. PICK h : h = fed[f] /\ h = fed'[f]
      BY <3>2
    <3>6. HeaderTerminated(h)' = HeaderTerminated(h)
      BY <2>3 DEF HeaderTerminated
    <3>7. Content(fed[f], f)'
      <4>1. Content(h, f)
        BY <3>1, <3>5 DEF Holds
      <4> QED  BY <2>3, <2>5, <2>6, <3>5, <3>6, <4>1 DEF Content, Chunks
    <3> QED  BY <3>2, <3>3, <3>4, <3>7 DEF Holds
  <2>9. stage = "Head" => body' = <<>>
    BY <2>3 DEF Whole, Alive
  <2> QED  BY <2>3, <2>5, <2>6, <2>7, <2>8, <2>9 DEF Whole
<1>11. CASE UNCHANGED vars
  BY <1>11 DEF vars, Whole, Alive, Before, Holds, IsFinal, HeadsOnly, Parts, Content, Chunks,
               HeaderTerminated
<1> QED  BY <1>1, <1>2, <1>3, <1>4, <1>5, <1>6, <1>7, <1>8, <1>9, <1>10, <1>11
         DEF Next, Loop

\* A complete response is the first final one of the stream, whole, and what is
\* left in the buffer is what follows it, for all segmentations (process_buffer,
\* finish_eof).
THEOREM MessagesAreWhole == Spec => []WholeMessage
<1>1. Init => Whole
  <2> SUFFICES ASSUME Init PROVE Whole
    OBVIOUS
  <2>1. stage = "Head" /\ buffer = <<>> /\ fed = <<>> /\ body = <<>>
    BY DEF Init
  <2>2. Before = 0
    BY <2>1 DEF Before
  <2> QED  BY <2>1, <2>2 DEF Whole, HeadsOnly
<1>2. TypeOK /\ Provenance /\ Whole => WholeMessage
  BY MessageIsWhole DEF Provenance
<1> QED  BY <1>1, <1>2, WholeStep, ProvenanceHolds, PTL DEF Spec
===============================================================================
