----------------------------- MODULE ChunkedDecoder -----------------------------
(***************************************************************************)
(* ChunkedDecoder (src/src/http/chunked_decoder.cpp): the transfer coding  *)
(* is decoded as its bytes arrive, in segments of any size.  Each call of  *)
(* process runs its loop until it needs more bytes, is complete or fails;  *)
(* one iteration of the loop is one step.                                  *)
(*                                                                         *)
(* A byte is one of a few representatives of the classes the code tells    *)
(* apart.  input is what process has not consumed: the std::string from    *)
(* its cursor on.                                                          *)
(***************************************************************************)
EXTENDS Integers, Sequences, SequencesExt

CONSTANTS Segments,             \* what one feed may add to the buffer
          MaxFed,               \* bound on the bytes fed, for model checking
          MaxChunkLineBytes,    \* ResponseLimits::max_chunk_line_bytes
          MaxTrailerBytes,      \* ResponseLimits::max_trailer_bytes
          MaxBodyBytes,         \* ResponseLimits::max_body_bytes
          SizeMax               \* largest std::size_t

ASSUME LimitAssumption ==
  /\ MaxChunkLineBytes \in Nat /\ MaxTrailerBytes \in Nat
  /\ MaxBodyBytes \in Nat /\ SizeMax \in Nat /\ MaxFed \in Nat

\* Representatives: CR, LF, hexadecimal digits, another token character, a
\* field name that valid_trailer_line refuses (Content-Length, in one byte),
\* white space, the separators of chunk extensions and fields, a control byte.
HexDigits  == {"0", "1", "2", "f"}
HexValue   == [d \in HexDigits |->
                 CASE d = "0" -> 0 [] d = "1" -> 1 [] d = "2" -> 2 [] d = "f" -> 15]
TokenBytes == HexDigits \cup {"x", "Content-Length"}
Bytes      == TokenBytes \cup {"CR", "LF", " ", ";", "=", "quote", "\\", ":", "ctl"}

ASSUME SegmentAssumption == Segments \subseteq Seq(Bytes)

VARIABLES
  stage,      \* stage_
  remaining,  \* chunk_remaining_
  trailer,    \* trailer_bytes_seen_
  input,      \* the parser's buffer, from the cursor of process
  output,     \* the body decoded so far
  status,     \* "running" inside process, else what the last call returned
  fed         \* history: every byte fed

vars == <<stage, remaining, trailer, input, output, status, fed>>

Stages   == {"SizeLine", "Data", "DataCrlf", "Trailers", "Complete"}
Errors   == {"ResponseLimitExceeded", "InvalidChunkSize", "InvalidChunkFraming",
             "InvalidHeader"}
Statuses == {"running", "NeedMore", "Complete"} \cup Errors

TypeOK ==
  /\ stage \in Stages
  /\ remaining \in Nat /\ trailer \in Nat
  /\ input \in Seq(Bytes) /\ output \in Seq(Bytes) /\ fed \in Seq(Bytes)
  /\ status \in Statuses

Init ==
  /\ stage = "SizeLine" /\ remaining = 0 /\ trailer = 0
  /\ input = <<>> /\ output = <<>> /\ fed = <<>>
  /\ status = "NeedMore"

-------------------------------------------------------------------------------
(* Lines.                                                                  *)

CrlfAt(s, i) == s[i] = "CR" /\ s[i + 1] = "LF"
HasCrlf(s)   == \E i \in 1..(Len(s) - 1) : CrlfAt(s, i)
\* Length of the line before the first CRLF.
LineLength(s) ==
  (CHOOSE i \in 1..(Len(s) - 1) :
      CrlfAt(s, i) /\ \A j \in 1..(i - 1) : ~CrlfAt(s, j)) - 1
Line(s)      == SubSeq(s, 1, LineLength(s))
AfterLine(s) == SubSeq(s, LineLength(s) + 3, Len(s))

\* would_exceed: no sum is formed that could wrap.
WouldExceed(current, addition, limit) ==
  current > limit \/ addition > limit - current

\* valid_chunk_extensions: ";"-separated names with an optional "=" and a token
\* or quoted string; white space around names, "=" and values.
ExtensionStep(q, b) ==
  CASE q = "name?"    /\ b = " "                -> "name?"
    [] q = "name?"    /\ b \in TokenBytes       -> "name"
    [] q = "name"     /\ b \in TokenBytes       -> "name"
    [] q \in {"name", "name."}   /\ b = " "     -> "name."
    [] q \in {"name", "name."}   /\ b = "="     -> "value?"
    [] q = "value?"   /\ b = " "                -> "value?"
    [] q = "value?"   /\ b \in TokenBytes       -> "value"
    [] q = "value"    /\ b \in TokenBytes       -> "value"
    [] q = "value?"   /\ b = "quote"            -> "quoted"
    [] q = "quoted"   /\ b = "quote"            -> "value."
    [] q = "quoted"   /\ b = "\\"               -> "escaped"
    [] q = "quoted"   /\ b \notin {"CR", "LF", "ctl", "quote", "\\"} -> "quoted"
    [] q = "escaped"  /\ b \notin {"CR", "LF", "ctl"}                -> "quoted"
    [] q \in {"value", "value."} /\ b = " "     -> "value."
    [] q \in {"name", "name.", "value", "value."} /\ b = ";" -> "name?"
    [] OTHER                                    -> "invalid"

ValidExtensions(s) ==
  FoldLeft(ExtensionStep, "name?", s) \in {"name", "name.", "value", "value."}

\* The text before the first ";", without trailing white space.
SizeText(s) ==
  LET ends == {i \in 0..Len(s) : /\ \A j \in 1..i : s[j] # ";"
                                 /\ i > 0 => s[i] # " "
                                 /\ \A j \in (i + 1)..Len(s) :
                                      s[j] # " " => \E k \in (i + 1)..j : s[k] = ";"}
  IN SubSeq(s, 1, CHOOSE i \in ends : TRUE)

Extensions(s) ==
  LET first == CHOOSE i \in 1..Len(s) : s[i] = ";" /\ \A j \in 1..(i - 1) : s[j] # ";"
  IN SubSeq(s, first + 1, Len(s))

HexNumber(s) == FoldLeft(LAMBDA v, d : 16 * v + HexValue[d], 0, s)

\* parse_chunk_size
SizeError(s) ==
  IF SizeText(s) = <<>> THEN "InvalidChunkSize"
  ELSE IF (\E i \in 1..Len(s) : s[i] = ";") /\ ~ValidExtensions(Extensions(s))
    THEN "InvalidChunkFraming"
  ELSE IF \E i \in 1..Len(SizeText(s)) : SizeText(s)[i] \notin HexDigits
    THEN "InvalidChunkSize"
  ELSE IF HexNumber(SizeText(s)) \notin 0..SizeMax THEN "InvalidChunkSize"
  ELSE "none"

\* valid_trailer_line
ValidTrailerLine(s) ==
  /\ s # <<>> /\ s[1] # " "
  /\ \E colon \in 2..Len(s) :
       /\ s[colon] = ":"
       /\ \A i \in 1..(colon - 1) : s[i] \in TokenBytes
       /\ \A i \in (colon + 1)..Len(s) : s[i] \notin {"CR", "LF", "ctl"}
       /\ SubSeq(s, 1, colon - 1) # <<"Content-Length">>

-------------------------------------------------------------------------------
(* The caller and the loop of process.                                     *)

\* ResponseParser::feed appends what was read and calls process again.
Feed(segment) ==
  /\ status = "NeedMore"
  /\ Len(fed) + Len(segment) <= MaxFed
  /\ input'  = input \o segment
  /\ fed'    = fed \o segment
  /\ status' = "running"
  /\ UNCHANGED <<stage, remaining, trailer, output>>

Running(where) == status = "running" /\ stage = where

Fails(e) ==
  /\ status' = e
  /\ UNCHANGED <<stage, remaining, trailer, input, output, fed>>

\* Fault: an unfinished size line is not limited.
SizeLinePatient ==
  /\ Running("SizeLine") /\ ~HasCrlf(input)
  /\ status' = "NeedMore"
  /\ UNCHANGED <<stage, remaining, trailer, input, output, fed>>

\* What is there of the line, a CR at its end included, is held to the limit.
SizeLineUnfinished ==
  /\ Running("SizeLine") /\ ~HasCrlf(input)
  /\ status' = IF Len(input) > MaxChunkLineBytes THEN "ResponseLimitExceeded"
                                                 ELSE "NeedMore"
  /\ UNCHANGED <<stage, remaining, trailer, input, output, fed>>

SizeLineRejected ==
  /\ Running("SizeLine") /\ HasCrlf(input)
  /\ LET line == Line(input) IN
       IF Len(line) > MaxChunkLineBytes THEN Fails("ResponseLimitExceeded")
       ELSE IF SizeError(line) # "none" THEN Fails(SizeError(line))
       ELSE /\ WouldExceed(Len(output), HexNumber(SizeText(line)), MaxBodyBytes)
            /\ HexNumber(SizeText(line)) # 0
            /\ Fails("ResponseLimitExceeded")

\* Fault: the sum that is held to the body limit wraps.
SizeLineAcceptedWraps ==
  /\ Running("SizeLine") /\ HasCrlf(input)
  /\ LET line == Line(input)
         size == HexNumber(SizeText(line))
     IN /\ Len(line) <= MaxChunkLineBytes /\ SizeError(line) = "none"
        /\ (Len(output) + size) % (SizeMax + 1) <= MaxBodyBytes
        /\ remaining' = size
        /\ stage' = IF size = 0 THEN "Trailers" ELSE "Data"
  /\ input' = AfterLine(input)
  /\ UNCHANGED <<trailer, output, status, fed>>

SizeLineAccepted ==
  /\ Running("SizeLine") /\ HasCrlf(input)
  /\ LET line == Line(input)
         size == HexNumber(SizeText(line))
     IN /\ Len(line) <= MaxChunkLineBytes /\ SizeError(line) = "none"
        /\ size # 0 => ~WouldExceed(Len(output), size, MaxBodyBytes)
        /\ remaining' = size
        /\ stage' = IF size = 0 THEN "Trailers" ELSE "Data"
  /\ input' = AfterLine(input)
  /\ UNCHANGED <<trailer, output, status, fed>>

Data ==
  /\ Running("Data")
  /\ LET amount == IF remaining <= Len(input) THEN remaining ELSE Len(input)
     IN /\ output'    = output \o SubSeq(input, 1, amount)
        /\ input'     = SubSeq(input, amount + 1, Len(input))
        /\ remaining' = remaining - amount
        /\ IF amount = remaining
             THEN stage' = "DataCrlf" /\ UNCHANGED status
             ELSE status' = "NeedMore" /\ UNCHANGED stage
  /\ UNCHANGED <<trailer, fed>>

\* Fault: a lone CR at the end of a segment is taken for the CRLF.
DataCrlfEager ==
  /\ Running("DataCrlf")
  /\ \/ /\ input = <<>>
        /\ status' = "NeedMore" /\ UNCHANGED <<stage, input>>
     \/ /\ input # <<>> /\ input[1] # "CR"
        /\ status' = "InvalidChunkFraming" /\ UNCHANGED <<stage, input>>
     \/ /\ input # <<>> /\ input[1] = "CR"
        /\ stage' = "SizeLine" /\ UNCHANGED status
        /\ input' = SubSeq(input, IF Len(input) > 1 THEN 3 ELSE 2, Len(input))
  /\ UNCHANGED <<remaining, trailer, output, fed>>

\* Fault: the loop waits for the second byte without returning.
DataCrlfSpins ==
  /\ Running("DataCrlf") /\ Len(input) >= 2
  /\ IF CrlfAt(input, 1)
       THEN /\ stage' = "SizeLine"
            /\ input' = SubSeq(input, 3, Len(input))
            /\ UNCHANGED status
       ELSE status' = "InvalidChunkFraming" /\ UNCHANGED <<stage, input>>
  /\ UNCHANGED <<remaining, trailer, output, fed>>

DataCrlf ==
  /\ Running("DataCrlf")
  /\ \/ /\ Len(input) < 2
        /\ status' = "NeedMore" /\ UNCHANGED <<stage, input>>
     \/ /\ Len(input) >= 2 /\ ~CrlfAt(input, 1)
        /\ status' = "InvalidChunkFraming" /\ UNCHANGED <<stage, input>>
     \/ /\ Len(input) >= 2 /\ CrlfAt(input, 1)
        /\ stage' = "SizeLine" /\ UNCHANGED status
        /\ input' = SubSeq(input, 3, Len(input))
  /\ UNCHANGED <<remaining, trailer, output, fed>>

TrailersUnfinished ==
  /\ Running("Trailers") /\ ~HasCrlf(input)
  /\ status' = IF WouldExceed(trailer, Len(input), MaxTrailerBytes)
                 THEN "ResponseLimitExceeded" ELSE "NeedMore"
  /\ UNCHANGED <<stage, remaining, trailer, input, output, fed>>

\* Fault: a line is checked alone, the bytes of earlier lines are not added.
TrailerLineAlone ==
  /\ Running("Trailers") /\ HasCrlf(input)
  /\ LET line  == Line(input)
         bytes == LineLength(input) + 2
     IN IF bytes > MaxTrailerBytes THEN Fails("ResponseLimitExceeded")
        ELSE /\ trailer' = trailer
             /\ input'   = AfterLine(input)
             /\ \/ line = <<>> /\ stage' = "Complete" /\ status' = "Complete"
                \/ line # <<>> /\ ~ValidTrailerLine(line)
                     /\ status' = "InvalidHeader" /\ UNCHANGED stage
                \/ line # <<>> /\ ValidTrailerLine(line) /\ UNCHANGED <<stage, status>>
             /\ UNCHANGED <<remaining, output, fed>>

TrailerLine ==
  /\ Running("Trailers") /\ HasCrlf(input)
  /\ LET line  == Line(input)
         bytes == LineLength(input) + 2
     IN IF WouldExceed(trailer, bytes, MaxTrailerBytes) THEN Fails("ResponseLimitExceeded")
        ELSE /\ trailer' = trailer + bytes
             /\ input'   = AfterLine(input)
             /\ \/ line = <<>> /\ stage' = "Complete" /\ status' = "Complete"
                \/ line # <<>> /\ ~ValidTrailerLine(line)
                     /\ status' = "InvalidHeader" /\ UNCHANGED stage
                \/ line # <<>> /\ ValidTrailerLine(line) /\ UNCHANGED <<stage, status>>
             /\ UNCHANGED <<remaining, output, fed>>

Loop ==
  \/ SizeLineUnfinished \/ SizeLineRejected \/ SizeLineAccepted
  \/ Data \/ DataCrlf
  \/ TrailersUnfinished \/ TrailerLine

Next == Loop \/ \E segment \in Segments : Feed(segment)

Spec == Init /\ [][Next]_vars
\* process is sequential code: its loop goes on until it returns.
FairSpec == Spec /\ WF_vars(Loop)

-------------------------------------------------------------------------------
(* Properties.                                                             *)

\* The decoded body never exceeds max_body_bytes, over any number of chunks and
\* before any of the excess is stored: bytes of an announced chunk included.
BodyBounded == Len(output) + remaining <= MaxBodyBytes

\* What the decoder keeps of a server that never finishes a line is bounded by
\* the limit of the stage it is in, however the bytes were cut.
BufferBounded ==
  status = "NeedMore" =>
    /\ stage = "SizeLine" => Len(input) <= MaxChunkLineBytes
    /\ stage = "Data"     => input = <<>>
    /\ stage = "DataCrlf" => Len(input) <= 1
    /\ stage = "Trailers" => trailer + Len(input) <= MaxTrailerBytes

\* The reference: the same bytes in one piece, a whole chunk or trailer line at a
\* time.  A reader is where it stands ("SizeLine", "Trailers" or the outcome it
\* ended with), the body so far, the bytes of trailer lines and the rest.
Reader(at, body, seen, rest) ==
  [at |-> at, body |-> body, seen |-> seen, rest |-> rest]

ReadChunk(r) ==
  IF ~HasCrlf(r.rest)
    THEN [r EXCEPT !.at = IF Len(r.rest) > MaxChunkLineBytes THEN "ResponseLimitExceeded"
                                                             ELSE "NeedMore"]
  ELSE LET line == Line(r.rest)
           size == HexNumber(SizeText(line))
           data == AfterLine(r.rest)
           body == r.body \o SubSeq(data, 1, size)
           tail == SubSeq(data, size + 1, Len(data))
       IN IF Len(line) > MaxChunkLineBytes THEN [r EXCEPT !.at = "ResponseLimitExceeded"]
          ELSE IF SizeError(line) # "none" THEN [r EXCEPT !.at = SizeError(line)]
          ELSE IF size = 0 THEN Reader("Trailers", r.body, r.seen, data)
          ELSE IF Len(r.body) + size > MaxBodyBytes
            THEN [r EXCEPT !.at = "ResponseLimitExceeded"]
          ELSE IF Len(data) < size THEN Reader("NeedMore", r.body \o data, r.seen, <<>>)
          ELSE IF Len(tail) < 2 THEN Reader("NeedMore", body, r.seen, tail)
          ELSE IF ~CrlfAt(tail, 1) THEN Reader("InvalidChunkFraming", body, r.seen, tail)
          ELSE Reader("SizeLine", body, r.seen, SubSeq(tail, 3, Len(tail)))

ReadTrailer(r) ==
  IF ~HasCrlf(r.rest)
    THEN [r EXCEPT !.at = IF r.seen + Len(r.rest) > MaxTrailerBytes
                            THEN "ResponseLimitExceeded" ELSE "NeedMore"]
  ELSE LET line  == Line(r.rest)
           bytes == LineLength(r.rest) + 2
       IN IF r.seen + bytes > MaxTrailerBytes THEN [r EXCEPT !.at = "ResponseLimitExceeded"]
          ELSE Reader(IF line = <<>> THEN "Complete"
                      ELSE IF ValidTrailerLine(line) THEN "Trailers" ELSE "InvalidHeader",
                      r.body, r.seen + bytes, AfterLine(r.rest))

ReadOn(r) ==
  IF r.at = "SizeLine" THEN ReadChunk(r)
  ELSE IF r.at = "Trailers" THEN ReadTrailer(r)
  ELSE r

\* A chunk and a trailer line take two bytes at least: s ends the reader in time.
InOnePiece(s) ==
  LET read[i \in 0..Len(s) + 1] ==
        IF i = 0 THEN Reader("SizeLine", <<>>, 0, s) ELSE ReadOn(read[i - 1])
  IN read[Len(s) + 1]

\* However the bytes were cut, a call of process returns what decoding all of
\* them at once returns, with the same body, and leaves the same bytes behind:
\* the bytes after the message are exactly the ones it did not own, on which
\* Client::execute_once decides about reuse (client.cpp:387-390).
SameAsInOnePiece ==
  status # "running" =>
    LET r == InOnePiece(fed) IN status = r.at /\ output = r.body /\ input = r.rest

\* process always returns: no state of the loop goes round without consuming.
ProcessReturns == status = "running" ~> status # "running"

===============================================================================
