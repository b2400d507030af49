---------------------------- MODULE MCChunkedDecoder ----------------------------
(***************************************************************************)
(* ChunkedDecoder on all streams put together from a few segments, against *)
(* the decoding of the same bytes in one piece.                            *)
(***************************************************************************)
EXTENDS ChunkedDecoder

\* All streams of these bytes, cut between any two of them.
ShortSegments == {<<b>> : b \in {"CR", "LF", "0", "1", "2", "x", ";", ":"}}

\* Pieces of longer streams: several chunks, trailers, bytes after the end, with
\* cuts inside CRLF, inside data and between a chunk and the next size.
LongSegments ==
  {<<"1", "CR", "LF", "x">>, <<"CR">>, <<"LF">>, <<"CR", "LF">>, <<"x", ":">>,
   <<"2", " ", "CR", "LF">>, <<"x">>, <<"x", "CR">>, <<"LF", "0", "CR", "LF">>,
   <<"0", ";">>, <<"LF", "1", "CR", "LF">>}

\* docs/api/response-limits.md limits "One chunk-size line, excluding CRLF": when
\* a size line is refused for its length, it is not its own CRLF that made it
\* too long, so that the LF that completes it would not make it acceptable.
LineLimitExcludesCrlf ==
  stage = "SizeLine" /\ status = "ResponseLimitExceeded" =>
    InOnePiece(fed \o <<"LF">>).at = "ResponseLimitExceeded"
===============================================================================
