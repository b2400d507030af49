---------------------------- MODULE RequestSerializer ----------------------------
(***************************************************************************)
(* A Request that its owner builds call by call, the head that             *)
(* serialize_request writes for it (src/src/http/request_serializer.cpp,   *)
(* src/src/core/headers.cpp), and where a redirect of it leads.  URLs,     *)
(* field values and query parameters are texts of module Url; a body is    *)
(* its length.                                                             *)
(***************************************************************************)
EXTENDS RedirectLocation

CONSTANTS Urls,        \* the URLs of requests
          Fields,      \* what callers pass to Headers::add and Headers::set
          Folded,      \* every field name in lower case
          BadNames,    \* the names that are no tokens
          BadValues,   \* the words that a field value may not have
          LengthOf,    \* the value of the words that are numbers
          Params,      \* what callers pass to add_query_param
          EncodedOf,   \* every token, percent-encoded
          Sizes,       \* the lengths of bodies
          Locations,   \* the values of Location fields
          MaxCalls     \* bound: fields and parameters of a request

ASSUME RequestAssumption ==
  /\ Urls \cup Locations \subseteq Texts /\ MaxCalls \in Nat
  /\ "Host" \in DOMAIN Folded /\ Folded["Host"] = "host"
  /\ "Content-Length" \in DOMAIN Folded /\ Folded["Content-Length"] = "content-length"
  /\ \A f \in Fields : f.name \in DOMAIN Folded /\ f.value \in Texts
  /\ Sizes \subseteq Nat /\ 0 \in Sizes
  /\ \A n \in Sizes : LengthOf[ToString(n)] = n
  /\ Params \subseteq [name : Seq(DOMAIN EncodedOf), value : Seq(DOMAIN EncodedOf)]
  /\ \A t \in DOMAIN EncodedOf :
        /\ EncodedOf[t] \notin Delimiters \cup Forbidden \cup BadEscapes
        /\ \A u \in DOMAIN EncodedOf : EncodedOf[t] = EncodedOf[u] => t = u

VARIABLES
  url, content,           \* Request: url_, and whether method_ is POST, PUT or PATCH
  body, params, fields,   \* Request: body_, query_params_, headers_
  location, resolved      \* Client::request: the Location that was followed, and to where

request == <<url, content, body, params, fields>>
vars == <<request, location, resolved>>

Init ==
  /\ url \in Urls /\ content \in BOOLEAN
  /\ body = 0 /\ params = <<>> /\ fields = <<>>
  /\ location = <<>> /\ resolved = Unresolved

Room == Len(params) + Len(fields) < MaxCalls
Places(fs, name) == {i \in DOMAIN fs : Folded[fs[i].name] = name}

-------------------------------------------------------------------------------
(* The calls on a request, as long as it is not sent.                      *)

SetBody(size) == body' = size /\ UNCHANGED <<url, content, params, fields>>

AddQueryParam(p) ==
  /\ Room
  /\ params' = Append(params, p)
  /\ UNCHANGED <<url, content, body, fields>>

\* Headers::add
AddField(f) ==
  /\ Room
  /\ fields' = Append(fields, f)
  /\ UNCHANGED <<url, content, body, params>>

\* Headers::set: the field takes the place of the first of its name.
Replaced(f) ==
  LET same  == Places(fields, Folded[f.name])
      kept[n \in 0..Len(fields)] ==
        IF n = 0 THEN <<>>
        ELSE IF n \notin same THEN Append(kept[n - 1], fields[n])
        ELSE IF \A i \in same : n <= i THEN Append(kept[n - 1], f)
        ELSE kept[n - 1]
  IN IF same = {} THEN Append(fields, f) ELSE kept[Len(fields)]
SetField(f) ==
  /\ Room \/ Places(fields, Folded[f.name]) # {}
  /\ fields' = Replaced(f)
  /\ UNCHANGED <<url, content, body, params>>

-------------------------------------------------------------------------------
(* What is written for it.                                                 *)

Encoded(t) == [i \in DOMAIN t |-> EncodedOf[t[i]]]

\* Fault: values are sent as they are.
WrittenRaw(p) == Encoded(p.name) \o <<"=">> \o p.value

Written(p) == Encoded(p.name) \o <<"=">> \o Encoded(p.value)

\* The parameters, with an ampersand between each two.
List(ps) ==
  LET list[n \in 0..Len(ps)] ==
        IF n = 0 THEN <<>>
        ELSE (IF n = 1 THEN <<>> ELSE Append(list[n - 1], "&")) \o Written(ps[n])
  IN list[Len(ps)]

\* append_query_params
Glue(t) ==
  IF ~Has(t, {"?"}) THEN <<"?">>
  ELSE IF Last(t) \in {"?", "&"} THEN <<>> ELSE <<"&">>
AppendQueryParams(t, ps) == IF ps = <<>> THEN t ELSE t \o Glue(t) \o List(ps)

\* Fault: the fragment stays, and takes the parameters.
EffectiveUrlWhole == AppendQueryParams(url, params)

\* effective_request_url: where a redirect of this request is resolved from.
EffectiveUrl == AppendQueryParams(NoFragment(url), params)

IsNumber(t) == Len(t) = 1 /\ t[1] \in DOMAIN LengthOf
FieldError(f) ==
  CASE f.name \in BadNames \/ Has(f.value, BadValues)   -> "InvalidHeader"
    [] Folded[f.name] = "host" /\ f.value = <<>>        -> "InvalidHeader"
    [] Folded[f.name] = "content-length"
         /\ ~IsNumber(f.value)                          -> "InvalidContentLength"
    [] Folded[f.name] = "transfer-encoding"             -> "ConflictingMessageFraming"
    [] OTHER                                            -> "none"

Hosts   == Places(fields, "host")
Lengths == Places(fields, "content-length")
Several(S)  == \E i, j \in S : i # j
LengthAt(i) == LengthOf[fields[i].value[1]]

\* Fault: of several lengths the last one counts.
CountErrorLast ==
  IF Several(Hosts) THEN "InvalidHeader"
  ELSE IF \E i \in Lengths : (\A j \in Lengths : j <= i) /\ LengthAt(i) # body
  THEN "InvalidContentLength" ELSE "none"

CountError ==
  IF Several(Hosts) THEN "InvalidHeader"
  ELSE IF Several(Lengths) \/ \E i \in Lengths : LengthAt(i) # body
  THEN "InvalidContentLength" ELSE "none"

Error ==
  LET bad == SelectInSeq(fields, LAMBDA f : FieldError(f) # "none")
  IN IF Parse(url).error # "none" THEN Parse(url).error
     ELSE IF bad # 0 THEN FieldError(fields[bad]) ELSE CountError

Sent == Error = "none"

Field(name, value) == <<[name |-> name, value |-> value]>>

\* serialize_request: the head of a request without error.
RequestTarget == AppendQueryParams(Parse(url).url.target, params)
HeadFields ==
  (IF Hosts = {} THEN Field("Host", HostOf(Parse(url).url)) ELSE <<>>)
  \o fields
  \o (IF Lengths = {} /\ (body > 0 \/ content)
      THEN Field("Content-Length", <<ToString(body)>>) ELSE <<>>)

-------------------------------------------------------------------------------
(* The first round of the loop in Client::request: the request was         *)
(* answered with a redirect, and where it leads is the next request's URL. *)

Redirect(loc) ==
  /\ Sent
  /\ location' = loc
  /\ resolved' = Resolve(Parse(EffectiveUrl).url, loc)
  /\ UNCHANGED request

Call ==
  /\ \/ \E size \in Sizes : SetBody(size)
     \/ \E p \in Params : AddQueryParam(p)
     \/ \E f \in Fields : AddField(f) \/ SetField(f)
  /\ UNCHANGED <<location, resolved>>

Next ==
  /\ resolved = Unresolved
  /\ Call \/ \E loc \in Locations : Redirect(loc)

Spec == Init /\ [][Next]_vars

-------------------------------------------------------------------------------
(* Properties.                                                             *)

\* Whatever the caller added, set and set again, in whatever spelling, the server
\* finds one Host field, of the URL's server where the caller gave none, and
\* takes exactly the body for the body (the checks and the generated fields of
\* serialize_request).
ServerReadsOneMessage ==
  LET hosts   == Places(HeadFields, "host")
      lengths == Places(HeadFields, "content-length")
      To(i)   == Parse(<<"http">> \o Separator \o HeadFields[i].value).url
  IN Sent =>
       /\ hosts # {} /\ ~Several(hosts) /\ ~Several(lengths)
       /\ \A i \in hosts :
            /\ HeadFields[i].value # <<>>
            /\ Hosts = {} => [To(i) EXCEPT !.target = <<>>]
                               = [Parse(url).url EXCEPT !.target = <<>>]
       /\ Places(HeadFields, "transfer-encoding") = {}
       /\ lengths = {} => body = 0 /\ ~content
       /\ \A i \in lengths : LengthOf[HeadFields[i].value[1]] = body

\* What a server reads in a target: the pairs of its query, split at & and the
\* first =, and decoded.  Empty pieces are no pairs.
Query(target) == From(target, FirstOf(target, {"?"}) + 1)
Decoded(t) ==
  [i \in DOMAIN t |-> IF \E tok \in DOMAIN EncodedOf : EncodedOf[tok] = t[i]
                      THEN CHOOSE tok \in DOMAIN EncodedOf : EncodedOf[tok] = t[i] ELSE t[i]]
PairOf(piece) ==
  [name  |-> Decoded(Before(piece, FirstOf(piece, {"="}))),
   value |-> Decoded(From(piece, FirstOf(piece, {"="}) + 1))]
Close(r) == IF r.piece = <<>> THEN r.pairs ELSE Append(r.pairs, PairOf(r.piece))
PairsOf(query) ==
  LET run[n \in 0..Len(query)] ==
        IF n = 0 THEN [pairs |-> <<>>, piece |-> <<>>]
        ELSE IF query[n] = "&" THEN [pairs |-> Close(run[n - 1]), piece |-> <<>>]
        ELSE [run[n - 1] EXCEPT !.piece = Append(@, query[n])]
  IN Close(run[Len(query)])

\* The server finds the pairs of the URL's own query, and behind them one pair for
\* every add_query_param (docs/api/public-api.md:301-306).
ParametersAreAppended ==
  Sent => PairsOf(Query(RequestTarget)) = PairsOf(Query(Parse(url).url.target)) \o params

\* The same, but for URLs whose query ends with a question mark: append_query_params
\* takes that one for the mark in front of the query.
QueryReadsBack ==
  LET query == Query(Parse(url).url.target)
  IN ~(query # <<>> /\ Last(query) = "?") => ParametersAreAppended

\* The URL that Client::request resolves a redirect from is the one the request was
\* sent to: the same server, and the target with its parameters.
RedirectBaseIsWhatWasSent ==
  Sent => Parse(EffectiveUrl) = Accepted([Parse(url).url EXCEPT !.target = RequestTarget])

\* Url::parse takes exactly the texts that the grammar reads, and finds in them
\* the host, the port and the target that the grammar finds.
ParsesTheGrammar ==
  \A t \in {url, EffectiveUrl, location, resolved.text} :
     LET parsed == Parse(t)
     IN Readings(t) = IF parsed.error = "none" THEN {parsed.url} ELSE {}

\* A relative Location leads where RFC 3986 says from the URL the request was sent to,
\* but for one slash where the path ends in an empty segment and a dot segment: to the
\* same server, with its port and the brackets of its address, by which Client::request
\* decides what may be sent on; and it is always followed, unless a character in it is
\* not allowed (resolve_redirect_location, build_origin, remove_dot_segments).
ResolvesAsRfc3986 ==
  LET from == [Parse(url).url EXCEPT !.target = RequestTarget]
  IN Relative(location) =>
       IF resolved.error = "none"
       THEN Parse(resolved.text) = Accepted([from EXCEPT !.target = RfcTarget(from, location)])
       ELSE Has(location, Forbidden \cup BadEscapes)
===============================================================================
