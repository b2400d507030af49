--------------------------- MODULE MCRequestSerializer ---------------------------
(* URLs that end at every place a query may start or go on, the framing      *)
(* fields in two spellings, and parameters made of the characters that mean  *)
(* something in a query.                                                     *)
EXTENDS RequestSerializer

MCWords ==
  {"http", "HTTP", "ftp", "a", ".", "..", "80", "080", "%41", "%2541", "%26", "%3D", "%3F",
   "%", "0", "2", "02", "ctl "}
MCPortOf   == ("80" :> 80) @@ ("080" :> 80)
MCLiterals == {<<":", ":">>}
MCLengthOf == ("0" :> 0) @@ ("2" :> 2) @@ ("02" :> 2)

To(rest) == <<"http", ":", "/", "/">> \o rest
MCUrls ==
  {To(<<"a">>), To(<<"a", "?">>), To(<<"a", ":", "080", "/", "a", "#", "?">>),
   To(<<"a", "/", "?", "a", "=", "%26", "&">>), To(<<"a", "?", "%41", "=", "a">>),
   To(<<"[", ":", ":", "]", "/", "a", "?", "a", "#", "a">>),
   To(<<"a", "/", "?", "a", "=", "?">>), To(<<"a", "/", "%">>), <<"a", "?", "a">>}

F(name, word) == [name |-> name, value |-> <<word>>]
MCFields ==
  {F("Host", "a"), F("HOST", "a"), [name |-> "host", value |-> <<>>],
   F("Content-Length", "0"), F("content-length", "02"), F("CONTENT-LENGTH", "a"),
   F("Transfer-Encoding", "a"), F("X", "a"), F("X", "ctl "), F("X Y", "a")}
MCFolded ==
  [n \in {"Host", "HOST", "host"} |-> "host"]
  @@ [n \in {"Content-Length", "content-length", "CONTENT-LENGTH"} |-> "content-length"]
  @@ ("Transfer-Encoding" :> "transfer-encoding") @@ ("X" :> "x") @@ ("X Y" :> "x y")

MCEncodedOf ==
  ("a" :> "a") @@ ("%41" :> "%2541") @@ ("&" :> "%26") @@ ("=" :> "%3D") @@ ("?" :> "%3F")
MCParams ==
  {[name |-> <<"a">>, value |-> <<"&", "a">>], [name |-> <<"=", "?">>, value |-> <<"%41">>],
   [name |-> <<>>, value |-> <<>>]}
===============================================================================
