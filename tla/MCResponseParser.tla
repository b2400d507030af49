---------------------------- MODULE MCResponseParser ----------------------------
(***************************************************************************)
(* ResponseParser on streams of heads with every kind of framing, content, *)
(* chunks and surplus, cut between any two units or not at all.            *)
(***************************************************************************)
EXTENDS ResponseParser

HeadOf(status, fields) ==
  [kind |-> "head", syntax |-> "none", status |-> status, fields |-> fields]

close         == [name |-> "close"]
length(n)     == [name |-> "Content-Length", length |-> n]
coding(codes) == [name |-> "Transfer-Encoding", codings |-> codes]
chunked       == coding(<<"chunked">>)

FinalHeads ==
  {HeadOf(200, f) : f \in {<<>>, <<close>>, <<length(1)>>, <<length(2), close>>, <<chunked>>}}
  \cup {HeadOf(205, f) : f \in {<<>>, <<length(0)>>, <<length(1)>>, <<chunked>>}}
  \cup {HeadOf(204, <<>>), HeadOf(101, <<>>), HeadOf(304, <<length(2)>>)}

RefusedHeads ==
  {HeadOf(200, f) : f \in {<<length(1), length(1)>>, <<length(-1), coding(<<"empty">>)>>,
                           <<length(3)>>, <<chunked, length(1)>>,
                           <<coding(<<"other", "chunked">>)>>, <<chunked, chunked>>}}
  \cup {HeadOf(100, <<length(0)>>), HeadOf(204, <<chunked>>)}
  \cup {[HeadOf(200, <<>>) EXCEPT !.syntax = "InvalidHeader"]}

MCHeads == {HeadOf(100, <<>>)} \cup FinalHeads \cup RefusedHeads

Single(kind) == <<[kind |-> kind]>>
Contents == {Single(k) : k \in {"headbyte", "byte", "chunk", "last"}}

\* One unit, or a segment that a cut between its units would not explore: an
\* interim response with what follows it, content with the next response.
MCSegments ==
  {<<h>> : h \in MCHeads} \cup Contents
  \cup {<<HeadOf(100, <<>>), h>> : h \in FinalHeads}
  \cup {<<h>> \o Single("chunk") \o Single("last") \o Single("byte") : h \in FinalHeads}
  \cup {Single("byte") \o <<HeadOf(200, <<>>)>>, Single("chunk") \o Single("chunk")}

===============================================================================
