----------------------------- MODULE ResponseParser -----------------------------
(***************************************************************************)
(* ResponseParser (src/src/http/response_parser.cpp): one response is      *)
(* parsed as its bytes arrive.  feed appends a segment and runs            *)
(* process_buffer, whose loop is one step per iteration; finish_eof is     *)
(* called when the connection has ended.                                   *)
(*                                                                         *)
(* The stream is a sequence of units: a byte inside a head, the byte that  *)
(* completes a head (it carries what the head says), a whole chunk of one  *)
(* byte, the end of the chunked coding, any other byte.  A unit that the   *)
(* stage does not expect stands for bytes that mean nothing there.  The    *)
(* bytes of the chunked coding are the subject of module ChunkedDecoder.   *)
(***************************************************************************)
EXTENDS Integers, Sequences, SequencesExt

CONSTANTS Heads,         \* the heads servers send
          Segments,      \* what one feed may add to the buffer
          MaxFed,        \* bound on the units fed, for model checking
          MaxHeadBytes,  \* ResponseLimits::max_head_bytes
          MaxBodyBytes   \* ResponseLimits::max_body_bytes

\* A field by what analyze_framing does with it; length is -1 when
\* parse_content_length fails, codings are the tokens of Transfer-Encoding.
Fields == [name: {"close", "other"}]
          \cup [name: {"Content-Length"}, length: Nat \cup {-1}]
          \cup [name: {"Transfer-Encoding"},
                codings: Seq({"chunked", "other", "empty"})]

\* syntax is the error parse_head ends with, if any.
HeadUnits == [kind: {"head"}, syntax: {"none", "InvalidStatusLine", "InvalidHeader"},
              status: 100..999, fields: Seq(Fields)]
Units     == [kind: {"headbyte", "byte", "chunk", "last"}] \cup Heads

ASSUME HeadAssumption    == Heads \subseteq HeadUnits
ASSUME SegmentAssumption == Segments \subseteq Seq(Units)
ASSUME LimitAssumption   == MaxHeadBytes \in Nat /\ MaxBodyBytes \in Nat /\ MaxFed \in Nat

VARIABLES
  head_request,  \* request_method_ == Method::Head
  stage,         \* stage_
  buffer,        \* buffer_
  status_code,   \* response_.status_code_, 0 until there is one
  body,          \* response_.body_
  remaining,     \* content_length_remaining_
  flags,         \* connection_close_requested_, close_delimited_, body_forbidden_
  outcome,       \* "running" inside process_buffer, else what was returned last
  fed,           \* history: every unit fed
  eof            \* history: finish_eof was called

vars == <<head_request, stage, buffer, status_code, body, remaining, flags,
          outcome, fed, eof>>

Stages   == {"Head", "ContentLengthBody", "CloseDelimitedBody", "ChunkedBody",
             "Complete"}
Errors   == {"InvalidStatusLine", "InvalidHeader", "ResponseLimitExceeded",
             "InvalidContentLength", "MalformedResponse",
             "ConflictingMessageFraming", "InvalidChunkFraming", "UnexpectedEof"}
Outcomes == {"running", "NeedMore", "Complete"} \cup Errors

TypeOK ==
  /\ head_request \in BOOLEAN
  /\ stage \in Stages
  /\ buffer \in Seq(Units) /\ body \in Seq(Units) /\ fed \in Seq(Units)
  /\ status_code \in {0} \cup 100..999
  /\ remaining \in Nat
  /\ flags \in [close: BOOLEAN, delimited: BOOLEAN, forbidden: BOOLEAN]
  /\ outcome \in Outcomes
  /\ eof \in BOOLEAN

Init ==
  /\ head_request \in BOOLEAN
  /\ stage = "Head" /\ status_code = 0 /\ remaining = 0
  /\ buffer = <<>> /\ body = <<>> /\ fed = <<>>
  /\ flags = [close |-> FALSE, delimited |-> FALSE, forbidden |-> FALSE]
  /\ outcome = "NeedMore" /\ eof = FALSE

-------------------------------------------------------------------------------
(* Heads.                                                                  *)

HasHead(s) == \E i \in 1..Len(s) : s[i].kind = "head"
HeadEnd(s) == CHOOSE i \in 1..Len(s) :
                s[i].kind = "head" /\ \A j \in 1..(i - 1) : s[j].kind # "head"

\* parse_head: a block that is not the bytes of a head has no status line.
SyntaxError(s) ==
  IF \A j \in 1..(HeadEnd(s) - 1) : s[j].kind = "headbyte"
    THEN s[HeadEnd(s)].syntax ELSE "InvalidStatusLine"

Indices(h, name) == {i \in 1..Len(h.fields) : h.fields[i].name = name}
Lengthed(h) == Indices(h, "Content-Length") # {}
Coded(h)    == Indices(h, "Transfer-Encoding") # {}
Framed(h)   == Lengthed(h) \/ Coded(h)
Closes(h)   == Indices(h, "close") # {}
\* The value of the only Content-Length field.
Length(h)   == h.fields[CHOOSE i \in Indices(h, "Content-Length") : TRUE].length
\* One token in all Transfer-Encoding fields together, and it is "chunked".
Chunked(h)  ==
  \E i \in Indices(h, "Transfer-Encoding") :
    /\ h.fields[i].codings = <<"chunked">>
    /\ Indices(h, "Transfer-Encoding") = {i}

\* analyze_framing stops at the first field it cannot read.
FieldError(f) ==
  IF f.name = "Content-Length" /\ f.length < 0 THEN "InvalidContentLength"
  ELSE IF f.name = "Transfer-Encoding" /\ \E k \in 1..Len(f.codings) : f.codings[k] = "empty"
    THEN "MalformedResponse"
  ELSE "none"

FramingError(h) ==
  LET wrong == {i \in 1..Len(h.fields) : FieldError(h.fields[i]) # "none"}
  IN IF wrong # {}
       THEN FieldError(h.fields[CHOOSE i \in wrong : \A j \in wrong : i <= j])
     ELSE IF \E i, j \in Indices(h, "Content-Length") : i # j
       THEN "InvalidContentLength"
     ELSE "none"

\* is_interim_status
Interim(status) == status \in 100..199 /\ status # 101

\* is_header_terminated_response
HeaderTerminated(h) == head_request \/ h.status \in {101, 204, 304}

\* What makes process_buffer reject a head that parse_head accepted, in the order
\* of its checks.
HeadError(h) ==
  IF FramingError(h) # "none" THEN FramingError(h)
  ELSE IF Interim(h.status)
    THEN (IF Framed(h) THEN "MalformedResponse" ELSE "none")
  ELSE IF Coded(h) /\ Lengthed(h) THEN "ConflictingMessageFraming"
  ELSE IF h.status \in {101, 204} /\ Framed(h) THEN "MalformedResponse"
  ELSE IF HeaderTerminated(h) THEN "none"
  ELSE IF Coded(h)
    THEN (IF Chunked(h) THEN "none" ELSE "MalformedResponse")
  ELSE IF ~Lengthed(h) THEN "none"
  ELSE IF h.status = 205 /\ Length(h) # 0 THEN "InvalidContentLength"
  ELSE IF Length(h) > MaxBodyBytes THEN "ResponseLimitExceeded"
  ELSE "none"

BodyStage(h) ==
  IF HeaderTerminated(h) THEN "Complete"
  ELSE IF Coded(h) THEN "ChunkedBody"
  ELSE IF ~Lengthed(h) THEN "CloseDelimitedBody"
  ELSE IF Length(h) = 0 THEN "Complete"
  ELSE "ContentLengthBody"

\* would_exceed
WouldExceed(current, addition, limit) ==
  current > limit \/ addition > limit - current

-------------------------------------------------------------------------------
(* process_buffer.                                                         *)

Feed(segment) ==
  /\ outcome = "NeedMore" /\ ~eof
  /\ Len(fed) + Len(segment) <= MaxFed
  /\ buffer' = buffer \o segment
  /\ fed'    = fed \o segment
  /\ outcome' = "running"
  /\ UNCHANGED <<head_request, stage, status_code, body, remaining, flags, eof>>

Running(where) == outcome = "running" /\ stage = where

Fails(e) ==
  /\ outcome' = e
  /\ UNCHANGED <<head_request, stage, buffer, status_code, body, remaining, flags,
                 fed, eof>>

HeadUnfinished ==
  /\ Running("Head") /\ ~HasHead(buffer)
  /\ Fails(IF Len(buffer) > MaxHeadBytes THEN "ResponseLimitExceeded" ELSE "NeedMore")

NextHead     == buffer[HeadEnd(buffer)]
BehindHead   == SubSeq(buffer, HeadEnd(buffer) + 1, Len(buffer))
HeadReadable == /\ Running("Head") /\ HasHead(buffer)
                /\ HeadEnd(buffer) <= MaxHeadBytes
                /\ SyntaxError(buffer) = "none"

\* Before the head is taken out of the buffer.
HeadUnreadable ==
  /\ Running("Head") /\ HasHead(buffer)
  /\ IF HeadEnd(buffer) > MaxHeadBytes
       THEN Fails("ResponseLimitExceeded")
       ELSE SyntaxError(buffer) # "none" /\ Fails(SyntaxError(buffer))

\* After it: the fields of a final head are in the response even when its framing
\* is refused.
HeadRefused ==
  /\ HeadReadable /\ HeadError(NextHead) # "none"
  /\ outcome' = HeadError(NextHead)
  /\ buffer'  = BehindHead
  /\ IF FramingError(NextHead) # "none" \/ Interim(NextHead.status)
       THEN UNCHANGED <<status_code, flags>>
       ELSE /\ status_code' = NextHead.status
            /\ flags' = [close     |-> Closes(NextHead) \/ NextHead.status = 101,
                         delimited |-> flags.delimited,
                         forbidden |-> /\ NextHead.status = 205
                                       /\ ~HeaderTerminated(NextHead)
                                       /\ ~(Coded(NextHead) /\ Lengthed(NextHead))]
  /\ UNCHANGED <<head_request, stage, body, remaining, fed, eof>>

\* Fault: what is behind an interim head in the buffer goes with it.
InterimDropsBuffer ==
  /\ HeadReadable /\ HeadError(NextHead) = "none" /\ Interim(NextHead.status)
  /\ buffer' = <<>>
  /\ UNCHANGED <<head_request, stage, status_code, body, remaining, flags, outcome,
                 fed, eof>>

\* An interim response is consumed and the loop goes on with the next head.
HeadInterim ==
  /\ HeadReadable /\ HeadError(NextHead) = "none" /\ Interim(NextHead.status)
  /\ buffer' = BehindHead
  /\ UNCHANGED <<head_request, stage, status_code, body, remaining, flags, outcome,
                 fed, eof>>

\* Fault: the content of a 205 is accepted.
HeadFinalAllows205 ==
  /\ HeadReadable /\ HeadError(NextHead) = "none" /\ ~Interim(NextHead.status)
  /\ buffer'      = BehindHead
  /\ status_code' = NextHead.status
  /\ stage'       = BodyStage(NextHead)
  /\ flags' = [close     |-> Closes(NextHead) \/ NextHead.status = 101,
               delimited |-> stage' = "CloseDelimitedBody",
               forbidden |-> FALSE]
  /\ remaining' = IF stage' = "ContentLengthBody" THEN Length(NextHead) ELSE 0
  /\ outcome'   = IF stage' = "Complete" THEN "Complete" ELSE "running"
  /\ UNCHANGED <<head_request, body, fed, eof>>

HeadFinal ==
  /\ HeadReadable /\ HeadError(NextHead) = "none" /\ ~Interim(NextHead.status)
  /\ buffer'      = BehindHead
  /\ status_code' = NextHead.status
  /\ stage'       = BodyStage(NextHead)
  /\ flags' = [close     |-> Closes(NextHead) \/ NextHead.status = 101,
               delimited |-> stage' = "CloseDelimitedBody",
               forbidden |-> NextHead.status = 205 /\ ~HeaderTerminated(NextHead)]
  /\ remaining' = IF stage' = "ContentLengthBody" THEN Length(NextHead) ELSE 0
  /\ outcome'   = IF stage' = "Complete" THEN "Complete" ELSE "running"
  /\ UNCHANGED <<head_request, body, fed, eof>>

ContentLengthBody ==
  /\ Running("ContentLengthBody")
  /\ LET amount == IF remaining <= Len(buffer) THEN remaining ELSE Len(buffer)
     IN /\ body'      = body \o SubSeq(buffer, 1, amount)
        /\ buffer'    = SubSeq(buffer, amount + 1, Len(buffer))
        /\ remaining' = remaining - amount
        /\ \/ amount = remaining /\ stage' = "Complete" /\ outcome' = "Complete"
           \/ amount # remaining /\ outcome' = "NeedMore" /\ UNCHANGED stage
  /\ UNCHANGED <<head_request, status_code, flags, fed, eof>>

\* Fault: each segment is held to the limit by itself.
RestErrorAlone ==
  IF buffer = <<>> THEN "none"
  ELSE IF flags.forbidden THEN "MalformedResponse"
  ELSE IF Len(buffer) > MaxBodyBytes THEN "ResponseLimitExceeded"
  ELSE "none"

\* The checks on close-delimited content.
RestError ==
  IF buffer = <<>> THEN "none"
  ELSE IF flags.forbidden THEN "MalformedResponse"
  ELSE IF WouldExceed(Len(body), Len(buffer), MaxBodyBytes) THEN "ResponseLimitExceeded"
  ELSE "none"

\* Fault: the loop goes round instead of returning.
CloseDelimitedSpins ==
  /\ Running("CloseDelimitedBody")
  /\ IF RestError # "none" THEN Fails(RestError)
     ELSE /\ body' = body \o buffer /\ buffer' = <<>>
          /\ UNCHANGED <<head_request, stage, status_code, remaining, flags, outcome,
                         fed, eof>>

CloseDelimitedBody ==
  /\ Running("CloseDelimitedBody")
  /\ IF RestError # "none" THEN Fails(RestError)
     ELSE /\ body' = body \o buffer /\ buffer' = <<>>
          /\ outcome' = "NeedMore"
          /\ UNCHANGED <<head_request, stage, status_code, remaining, flags, fed, eof>>

\* The chunks at the front of the buffer that the decoder accepts: those that fit
\* the limit.
Accepted ==
  {n \in 0..Len(buffer) : /\ \A i \in 1..n : buffer[i].kind = "chunk"
                          /\ n > 0 => Len(body) + n <= MaxBodyBytes}
\* What the decoder reports behind n chunks.
DecoderReport(n) ==
  IF n = Len(buffer) THEN "NeedMore"
  ELSE IF buffer[n + 1].kind = "last" THEN "Complete"
  ELSE IF buffer[n + 1].kind = "chunk" THEN "ResponseLimitExceeded"
  ELSE "InvalidChunkFraming"

\* chunked_decoder_.process and what is made of its result.  It appends to the
\* body before it fails and leaves the input as it was then.
ChunkedBody ==
  /\ Running("ChunkedBody")
  /\ \E n \in Accepted :
       n + 1 \notin Accepted /\
       LET report == DecoderReport(n)
           taken  == IF report = "Complete" THEN n + 1 ELSE n
       IN /\ body'   = body \o SubSeq(buffer, 1, n)
          /\ buffer' = IF report \in {"NeedMore", "Complete"}
                         THEN SubSeq(buffer, taken + 1, Len(buffer)) ELSE buffer
          /\ outcome' = IF /\ report \in {"NeedMore", "Complete"}
                           /\ flags.forbidden /\ body' # <<>>
                          THEN "MalformedResponse" ELSE report
          /\ stage' = IF outcome' = "Complete" THEN "Complete" ELSE stage
  /\ UNCHANGED <<head_request, status_code, remaining, flags, fed, eof>>

-------------------------------------------------------------------------------
(* The end of the connection.                                              *)

\* Fault: a body that is not finished is finished by the end.
FinishEofAnyBody ==
  /\ outcome = "NeedMore" /\ ~eof
  /\ eof' = TRUE
  /\ IF stage = "Head" \/ RestError # "none"
       THEN outcome' = "UnexpectedEof" /\ UNCHANGED <<stage, body, buffer>>
       ELSE /\ stage' = "Complete" /\ outcome' = "Complete"
            /\ body' = body \o buffer /\ buffer' = <<>>
  /\ UNCHANGED <<head_request, status_code, remaining, flags, fed>>

\* Client::execute_once calls finish_eof only while the response is incomplete.
FinishEof ==
  /\ outcome = "NeedMore" /\ ~eof
  /\ eof' = TRUE
  /\ IF stage # "CloseDelimitedBody"
       THEN outcome' = "UnexpectedEof" /\ UNCHANGED <<stage, body, buffer>>
     ELSE IF RestError # "none"
       THEN outcome' = RestError /\ UNCHANGED <<stage, body, buffer>>
     ELSE /\ stage' = "Complete" /\ outcome' = "Complete"
          /\ body' = body \o buffer /\ buffer' = <<>>
  /\ UNCHANGED <<head_request, status_code, remaining, flags, fed>>

Loop ==
  \/ HeadUnfinished \/ HeadUnreadable \/ HeadRefused \/ HeadInterim \/ HeadFinal
  \/ ContentLengthBody \/ CloseDelimitedBody \/ ChunkedBody

Next == Loop \/ FinishEof \/ \E segment \in Segments : Feed(segment)

Spec == Init /\ [][Next]_vars
\* process_buffer is sequential code: its loop goes on until it returns.
FairSpec == Spec /\ WF_vars(Loop)

\* Fault: a response that only the end of the connection ends is reusable too.
ReusableUnlessClosed == stage = "Complete" /\ ~flags.close

\* connection_reusable
ConnectionReusable == stage = "Complete" /\ ~flags.close /\ ~flags.delimited

-------------------------------------------------------------------------------
(* Properties.  The reference reads all that was fed at once.              *)

\* The final head: the first that is not interim.
IsFinal(s, i) == /\ s[i].kind = "head" /\ ~Interim(s[i].status)
                 /\ \A j \in 1..(i - 1) : s[j].kind = "head" => Interim(s[j].status)
HasFinal(s)   == \E i \in 1..Len(s) : IsFinal(s, i)
FinalHead(s)  == CHOOSE i \in 1..Len(s) : IsFinal(s, i)

\* What of tail is the content of a response with this head.
EndsAtLast(tail, n) == /\ tail[n + 1].kind = "last"
                       /\ \A i \in 1..n : tail[i].kind = "chunk"
ContentLength(h, tail) ==
  IF HeaderTerminated(h) THEN 0
  ELSE IF Coded(h) THEN CHOOSE n \in 0..(Len(tail) - 1) : EndsAtLast(tail, n)
  ELSE IF Lengthed(h) THEN Length(h)
  ELSE Len(tail)

\* A complete response is the first final one in the stream, whole: its status,
\* exactly its content, nothing but interim heads before it; and what is left in
\* the buffer is exactly what follows it, however the stream was cut.
WholeMessage ==
  outcome = "Complete" =>
    /\ HasFinal(fed)
    /\ LET f    == FinalHead(fed)
           h    == fed[f]
           tail == SubSeq(fed, f + 1, Len(fed))
           n    == ContentLength(h, tail)
           used == IF Coded(h) /\ ~HeaderTerminated(h) THEN n + 1 ELSE n
       IN /\ \A j \in 1..f : fed[j].kind \in {"head", "headbyte"}
          /\ status_code = h.status
          /\ used <= Len(tail)
          /\ body = SubSeq(tail, 1, n)
          /\ buffer = SubSeq(tail, used + 1, Len(tail))

\* A connection that may be reused ended its response by itself, with a length,
\* a last chunk or a head, and the server did not announce that it will close:
\* the next byte on it is the first byte of the next response.
ReusableIsSelfDelimiting ==
  outcome = "Complete" /\ ConnectionReusable =>
    LET h == fed[FinalHead(fed)]
    IN /\ ~eof
       /\ HeaderTerminated(h) \/ Framed(h)
       /\ ~Closes(h) /\ h.status # 101

\* The end of the connection never turns a truncated response into a complete
\* one (docs/architecture/http.md: "incomplete Content-Length or chunked response
\* at EOF is UnexpectedEof").
EofNeverTruncates ==
  eof /\ outcome = "Complete" =>
    LET h == fed[FinalHead(fed)] IN ~Framed(h) /\ ~HeaderTerminated(h)

\* A response to HEAD, and one of status 101, 204, 205 or 304, is delivered
\* without content, however it was framed.
NoForbiddenContent ==
  outcome = "Complete" /\ (head_request \/ status_code \in {101, 204, 205, 304})
    => body = <<>>

\* What is stored of a body, with what its Content-Length still promises, never
\* exceeds max_body_bytes.
BodyBounded == Len(body) + remaining <= MaxBodyBytes

\* feed always returns.
FeedReturns == outcome = "running" ~> outcome # "running"
===============================================================================
