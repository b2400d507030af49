----------------------------------- MODULE Url -----------------------------------
(***************************************************************************)
(* Url::parse (src/src/core/url.cpp).                                      *)
(*                                                                         *)
(* A text is a sequence of tokens: a token is a delimiter, or a word, a    *)
(* longest run of other characters.  Of a word matters whether it is a     *)
(* port number, starts like a scheme, or has control characters or percent *)
(* signs in it.                                                            *)
(***************************************************************************)
EXTENDS Integers, Sequences, SequencesExt

CONSTANTS Words,       \* the words of the texts
          Forbidden,   \* those with white space or a control character
          Escaped,     \* those with a percent sign ...
          BadEscapes,  \* ... that is not followed by two hexadecimal digits
          PortOf,      \* the value of those that are port numbers
          Literals     \* the texts inet_pton takes for IPv6 addresses

Delimiters == {"/", "?", "#", ":", "@", "[", "]", "&", "="}
Tokens     == Words \cup Delimiters
Texts      == Seq(Tokens)

ASSUME WordAssumption ==
  /\ Words \cap Delimiters = {} /\ {"http", ".", ".."} \subseteq Words \ (Forbidden \cup Escaped)
  /\ Forbidden \subseteq Words /\ BadEscapes \subseteq Escaped /\ Escaped \subseteq Words

Ports == 1..65535
ASSUME PortAssumption ==
  \A w \in DOMAIN PortOf : w \in Words \ (Forbidden \cup Escaped) /\ PortOf[w] \in Ports

\* std::string::find_first_of, with the end of the text for npos.
FirstOf(t, S) ==
  LET at == SelectInSeq(t, LAMBDA tok : tok \in S) IN IF at = 0 THEN Len(t) + 1 ELSE at
Before(t, i) == SubSeq(t, 1, i - 1)
From(t, i)   == SubSeq(t, i, Len(t))
Has(t, S)    == \E i \in DOMAIN t : t[i] \in S

ASSUME LiteralAssumption ==
  \A l \in Literals : /\ l \in Texts \ {<<>>}
                     /\ ~Has(l, {"[", "]", "/", "?", "#", "@"} \cup Escaped)

Http      == {"http", "HTTP"}
Separator == <<":", "/", "/">>

\* The first of the places where the separator is, 0 for none.
SchemeSeparator(t) ==
  LET at == {i \in 1..(Len(t) - 2) : SubSeq(t, i, i + 2) = Separator}
  IN IF at = {} THEN 0 ELSE CHOOSE i \in at : \A j \in at : i <= j

NoFragment(t) == Before(t, FirstOf(t, {"#"}))

\* What a Url has slices of: the host, the port (0 when it is not given), and the
\* target with its path and query.
UrlOf(host, literal, port, target) ==
  [host |-> host, literal |-> literal, port |-> port, target |-> target]
Path(u) == Before(u.target, FirstOf(u.target, {"?"}))

Rejected(e)  == [error |-> e, url |-> UrlOf(<<>>, FALSE, 0, <<>>)]
Accepted(u)  == [error |-> "none", url |-> u]

\* The host and what of the authority follows it.
Brackets(a)  == a[1] = "["
HostEnd(a)   == IF Brackets(a) THEN FirstOf(a, {"]"}) ELSE FirstOf(a, {":"})
Host(a)      == IF Brackets(a) THEN SubSeq(a, 2, HostEnd(a) - 1) ELSE Before(a, HostEnd(a))
Remainder(a) == From(a, HostEnd(a) + (IF Brackets(a) THEN 1 ELSE 0))
IsPort(t)    == Len(t) = 1 /\ t[1] \in DOMAIN PortOf

AuthorityError(a) ==
  IF \/ a = <<>> \/ Has(a, Escaped \cup {"@"})
     \/ Brackets(a) /\ (HostEnd(a) > Len(a) \/ Host(a) \notin Literals)
     \/ ~Brackets(a) /\ Has(From(Remainder(a), 2), {":"})
     \/ Host(a) = <<>>
     \/ Remainder(a) # <<>> /\ Remainder(a)[1] # ":"
  THEN "InvalidUrl"
  ELSE IF Remainder(a) # <<>> /\ ~IsPort(Tail(Remainder(a))) THEN "InvalidPort"
  ELSE "none"

\* Fault: a query without a path is sent as it is.
TargetAsGiven(rest) == IF rest = <<>> THEN <<"/">> ELSE rest

\* A path is put in where there is none.
Target(rest) == IF rest = <<>> \/ rest[1] # "/" THEN <<"/">> \o rest ELSE rest

Parse(t) ==
  LET separator == SchemeSeparator(t)
      text      == From(NoFragment(t), separator + 3)
      end       == FirstOf(text, {"/", "?"})
      authority == Before(text, end)
      error     == AuthorityError(authority)
      target    == Target(From(text, end))
  IN IF t = <<>> \/ Has(t, Forbidden) \/ separator <= 1 THEN Rejected("InvalidUrl")
     ELSE IF Before(t, separator) \notin {<<w>> : w \in Http} THEN Rejected("UnsupportedScheme")
     ELSE IF error # "none" THEN Rejected(error)
     ELSE IF Has(target, BadEscapes) THEN Rejected("InvalidUrl")
     ELSE Accepted(UrlOf(Host(authority), Brackets(authority),
                         IF Remainder(authority) = <<>> THEN 0
                           ELSE PortOf[Remainder(authority)[2]],
                         target))

-------------------------------------------------------------------------------
(* The grammar of http URLs, by which Parse is judged.                     *)

PortOfText(t) == IF t = <<>> THEN 0 ELSE PortOf[t[2]]
IsPortPart(t) == t = <<>> \/ (Len(t) = 2 /\ t[1] = ":" /\ t[2] \in DOMAIN PortOf)
IsLiteral(t)  == \E l \in Literals : t = <<"[">> \o l \o <<"]">>
IsName(t)     == t # <<>> /\ t[1] # "[" /\ ~Has(t, {":", "/", "?", "#", "@"} \cup Escaped)
IsTarget(t)   == (t = <<>> \/ t[1] \in {"/", "?"}) /\ ~Has(t, {"#"} \cup BadEscapes)
WithPath(t)   == IF IsPrefix(<<"/">>, t) THEN t ELSE <<"/">> \o t
IsFragment(t) == t = <<>> \/ t[1] = "#"

\* The ways to read t as http://host[:port][/path][?query][#fragment]: the host ends
\* at i, the port at j, and the query at k.
Part(t, i, j) == SubSeq(t, i + 1, j)
Cut(t, i, j, k) ==
  /\ i <= j /\ j <= k
  /\ IsLiteral(Part(t, 4, i)) \/ IsName(Part(t, 4, i))
  /\ IsPortPart(Part(t, i, j)) /\ IsTarget(Part(t, j, k)) /\ IsFragment(Part(t, k, Len(t)))
Reading(t, i, j, k) ==
  LET literal == IsLiteral(Part(t, 4, i))
  IN UrlOf(IF literal THEN Part(t, 5, i - 1) ELSE Part(t, 4, i), literal,
           PortOfText(Part(t, i, j)), WithPath(Part(t, j, k)))
Readings(t) ==
  LET places == 4..Len(t)
      cuts   == {c \in places \X places \X places : Cut(t, c[1], c[2], c[3])}
  IN IF Len(t) < 4 \/ t[1] \notin Http \/ Part(t, 1, 4) # Separator \/ Has(t, Forbidden)
     THEN {} ELSE {Reading(t, c[1], c[2], c[3]) : c \in cuts}
===============================================================================
