---------------------------- MODULE RedirectLocation ----------------------------
(***************************************************************************)
(* resolve_redirect_location (src/src/http/redirect.cpp): where a redirect *)
(* from a URL leads.  The texts are those of module Url.                   *)
(***************************************************************************)
EXTENDS Url, TLC

CONSTANT SchemeWords   \* the words that may be a scheme

ASSUME SchemeAssumption ==
  /\ SchemeWords \subseteq Words
  /\ \A w \in DOMAIN PortOf : LET text == ToString(PortOf[w])
                              IN text \in DOMAIN PortOf /\ PortOf[text] = PortOf[w]

\* What comes out: an error, or the next URL.
Unresolved  == [error |-> "none", text |-> <<>>]
Failed(e)   == [error |-> e, text |-> <<>>]

\* scheme_end
HasScheme(t) == Len(t) >= 2 /\ t[1] \in SchemeWords /\ t[2] = ":"

\* The server of a URL, as append_generated_host and build_origin write it.
HostOf(u) ==
  (IF u.literal THEN <<"[">> \o u.host \o <<"]">> ELSE u.host)
  \o (IF u.port = 0 THEN <<>> ELSE <<":", ToString(u.port)>>)
Origin(u) == <<"http">> \o Separator \o HostOf(u)

\* std::string_view::rfind, with 0 for npos.
LastSlash(t) == SelectLastInSeq(t, LAMBDA tok : tok = "/")

\* Of a path that begins with a slash: its first segment, and what follows it.
Segment(path) == Before(Tail(path), FirstOf(Tail(path), {"/"}))
Rest(path)    == From(Tail(path), FirstOf(Tail(path), {"/"}))

Push(kept, segment) ==
  CASE segment = <<"..">> -> IF kept = <<>> THEN kept ELSE Front(kept)
    [] segment = <<".">>  -> kept
    [] OTHER              -> Append(kept, segment)

\* The segments that the loop over a path keeps, and the path of segments.
Kept(path) ==
  LET run[n \in 0..Len(path)] ==
        IF n = 0 THEN [rest |-> path, kept |-> <<>>]
        ELSE IF run[n - 1].rest = <<>> THEN run[n - 1]
        ELSE [rest |-> Rest(run[n - 1].rest),
              kept |-> Push(run[n - 1].kept, Segment(run[n - 1].rest))]
  IN run[Len(path)].kept
Joined(segments) ==
  LET path[n \in 0..Len(segments)] ==
        IF n = 0 THEN <<>> ELSE path[n - 1] \o <<"/">> \o segments[n]
  IN path[Len(segments)]

\* Fault: a final dot segment leaves no slash behind.
RemoveDotSegmentsBare(path) ==
  IF Kept(path) = <<>> THEN <<"/">> ELSE Joined(Kept(path))

\* remove_dot_segments
LastSegment(path) == From(path, LastSlash(path) + 1)
RemoveDotSegments(path) ==
  LET normalized == IF Kept(path) = <<>> THEN <<"/">> ELSE Joined(Kept(path))
  IN IF LastSegment(path) \in {<<>>, <<".">>, <<"..">>} /\ Last(normalized) # "/"
     THEN Append(normalized, "/") ELSE normalized

\* base_path up to its last slash.
Directory(path) == Before(path, LastSlash(path) + 1)

\* validate_redirect_url
Validate(candidate) ==
  LET text  == NoFragment(candidate)
      error == Parse(text).error
  IN CASE error = "none"              -> [error |-> "none", text |-> text]
       [] error = "UnsupportedScheme" -> Failed("UnsupportedRedirectScheme")
       [] OTHER                       -> Failed(error)

\* resolve_redirect_location
Resolve(base, loc) ==
  LET suffix   == FirstOf(loc, {"?", "#"})
      relative == Before(loc, suffix)
      merged   == IF loc[1] = "/" THEN relative ELSE Directory(Path(base)) \o relative
  IN IF loc = <<>> THEN Failed("MissingRedirectLocation")
     ELSE CASE HasScheme(loc) ->
                 IF loc[1] \in Http THEN Validate(loc) ELSE Failed("UnsupportedRedirectScheme")
            [] IsPrefix(<<"/", "/">>, loc) -> Validate(<<"http", ":">> \o loc)
            [] loc[1] = "#" -> Validate(Origin(base) \o base.target \o loc)
            [] loc[1] = "?" -> Validate(Origin(base) \o Path(base) \o loc)
            [] OTHER ->
                 Validate(Origin(base) \o RemoveDotSegments(merged) \o From(loc, suffix))

-------------------------------------------------------------------------------
(* RFC 3986, 5.2, by which Resolve is judged.                              *)

\* Remove Dot Segments, 5.2.4, of a path that begins with a slash: in is the input
\* buffer, out the output buffer.
RfcStep(r) ==
  LET segment == Segment(r.in)
      rest    == Rest(r.in)
      onward  == IF rest = <<>> THEN <<"/">> ELSE rest
  IN IF r.in = <<>> THEN r
     ELSE CASE segment = <<".">>  -> [in |-> onward, out |-> r.out]
            [] segment = <<"..">> -> [in |-> onward, out |-> Before(r.out, LastSlash(r.out))]
            [] OTHER              -> [in |-> rest, out |-> r.out \o <<"/">> \o segment]
RfcPath(path) ==
  LET run[n \in 0..Len(path) + 1] ==
        IF n = 0 THEN [in |-> path, out |-> <<>>] ELSE RfcStep(run[n - 1])
  IN run[Len(path) + 1].out

\* Where an empty segment comes before a dot segment that ends the path, the code
\* writes one slash less.
ButOneSlash(merged, path) ==
  IF /\ LastSegment(merged) \in {<<".">>, <<"..">>}
     /\ Len(path) > 1 /\ From(path, Len(path) - 1) = <<"/", "/">>
  THEN Front(path) ELSE path

\* Transform References, 5.2.2, without scheme and authority.
RfcTarget(base, ref) ==
  LET suffix == FirstOf(ref, {"?", "#"})
      path   == Before(ref, suffix)
      query  == NoFragment(From(ref, suffix))
      merged == IF path # <<>> /\ path[1] = "/" THEN path
                ELSE Before(Path(base), LastSlash(Path(base)) + 1) \o path
  IN IF path # <<>> THEN ButOneSlash(merged, RfcPath(merged)) \o query
     ELSE IF query # <<>> THEN Path(base) \o query
     ELSE base.target

\* A Location without scheme and host.
Relative(loc) == loc # <<>> /\ ~HasScheme(loc) /\ ~IsPrefix(<<"/", "/">>, loc)
===============================================================================
