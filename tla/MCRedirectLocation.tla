--------------------------- MODULE MCRedirectLocation ---------------------------
(* Redirects of a request that is all URL, or URL and one parameter, to       *)
(* texts of every shape that are put together from a few words.               *)
EXTENDS RequestSerializer

\* Words of letters and digits, one with a scheme that is not followed, the dot
\* segments, ports with and without a leading zero and above the range, an
\* escape, half an escape, a space, and an address.
MCWords ==
  {"http", "HTTP", "ftp", "a", ".", "..", "80", "080", "65536", "%41", "%2F", "%", "sp ", "1", "0"}
MCPortOf   == ("80" :> 80) @@ ("080" :> 80) @@ ("1" :> 1)
MCLiterals == {<<":", ":">>, <<":", ":", "1">>}

\* A word is a longest run: no two are next to each other.
WellFormed(t) == \A i \in 1..(Len(t) - 1) : t[i] \in Delimiters \/ t[i + 1] \in Delimiters

\* The texts of up to n tokens of S.
RECURSIVE TextsOf(_, _)
TextsOf(S, n) ==
  IF n = 0 THEN {<<>>}
  ELSE LET shorter == TextsOf(S, n - 1)
       IN shorter \cup {t \in {Append(s, tok) : s \in shorter, tok \in S} : WellFormed(t)}

Paths    == {<<"/">> \o t : t \in TextsOf({"/", ".", "..", "a"}, 4)}
Endings == {<<>>, <<"?">>, <<"?", "a">>, <<"?", "/", "..">>, <<"#", "a">>}

Authorities ==
  TextsOf({"a", "80", "080", "65536", ":", "@", "[", "]", "1", "%41"}, 3)
  \cup {<<"[">> \o l \o <<"]">> \o t : l \in MCLiterals \cup {<<>>}, t \in TextsOf({"80", ":", "a"}, 2)}

HttpTo(w, rest) == <<w>> \o Separator \o rest

MCUrls ==
  {HttpTo("http", <<"a">>), HttpTo("HTTP", <<"a", "?", "a">>), HttpTo("http", <<"a", "/", "a">>),
   HttpTo("http", <<"a", ":", "080", "/", "a", "/", "/", "80", "?", "/">>),
   HttpTo("http", <<"[", ":", ":", "1", "]", "/", "..", "/", "a", "/", "#", "?">>),
   HttpTo("http", <<"[", ":", ":", "1", "]", ":", "1", "?">>)}

MCLocations ==
  TextsOf({"/", "?", "#", ":", "a", "http", "ftp", "%"}, 4)
  \cup {Tail(p) \o s : p \in Paths, s \in Endings}
  \cup {p \o s : p \in Paths, s \in Endings}
  \cup {HttpTo("http", a \o s) : a \in Authorities, s \in {<<>>, <<"?", "a">>, <<"/", "%41">>}}
  \cup {prefix \o <<"a">> \o s :
          prefix \in {<<"/", "/">>, HttpTo("HTTP", <<>>), HttpTo("ftp", <<>>), HttpTo("a", <<>>)},
          s \in Endings \cup {<<"/", "%">>, <<"/", "sp ">>, <<":", "a">>}}
MCSchemeWords == {"http", "HTTP", "ftp", "a"}

MCFolded    == ("Host" :> "host") @@ ("Content-Length" :> "content-length")
MCLengthOf  == ("0" :> 0)
MCEncodedOf == ("/" :> "%2F") @@ ("a" :> "a")
MCParams    == {[name |-> <<"a">>, value |-> <<"/">>]}

===============================================================================
