------------------------------ MODULE RedirectLoop ------------------------------
(***************************************************************************)
(* Client::request (src/src/core/client.cpp): one call follows redirects   *)
(* by rewriting the request and executing it again.                        *)
(*                                                                         *)
(* execute_once is one step here: it rejects a request that does not       *)
(* serialise, or it sends it and ends with any response or transport       *)
(* error.  Module ReusableConnection models its inside.  A URL is its      *)
(* origin; a body is its length; a header list is the set of its fields,   *)
(* each with its position, so that equal fields stay distinct.             *)
(***************************************************************************)
EXTENDS Integers, Sequences

CONSTANTS Origins,    \* host and port pairs
          Lengths,    \* body lengths
          Fields,     \* the header fields callers use
          Statuses,   \* response status codes
          MaxLimit    \* bound on the values of max_redirects considered

\* Fields by what the code does with their names; "invalid" stands for a field
\* that valid_header_name or valid_header_value rejects, or an empty Host.
Names == {"Host", "Credential", "Content-Length", "Transfer-Encoding",
          "Content-Type", "Other", "invalid"}

ASSUME LengthAssumption == Lengths \subseteq Nat /\ 0 \in Lengths
\* Only the value of Content-Length matters.
ASSUME FieldAssumption  == Fields \subseteq [name: Names, value: Nat, at: Nat]
ASSUME LimitAssumption  == MaxLimit \in Nat
ASSUME StatusAssumption == Statuses \subseteq Nat

VARIABLES
  opts,      \* follow_redirects_ and max_redirects_
  pc,        \* where the call is
  current,   \* current_url, current_method, current_headers, current_body
  response,  \* the last response: its status and its Location
  followed,  \* redirects_followed
  result,    \* what the call returned
  trail      \* history: the requests handed to the transport, in order

vars == <<opts, pc, current, response, followed, result, trail>>

Methods == {"GET", "HEAD", "POST", "PUT"}   \* PATCH and DELETE go as PUT does

Requests == [origin: Origins, method: Methods, fields: SUBSET Fields, body: Lengths]

\* A Location header: absent, empty, not resolvable to a URL, of another scheme,
\* or a URL of an origin.
NoTarget  == {"absent", "empty", "malformed", "scheme"}
Locations == [kind: NoTarget \cup {"url"}, origin: Origins]
Responses == [status: Statuses, location: Locations]

Results == {"none", "response", "InvalidRequest", "Transport",
            "RedirectLimitExceeded", "MissingRedirectLocation",
            "UnsupportedRedirectScheme", "InvalidUrl"}

TypeOK ==
  /\ opts \in [follow: BOOLEAN, max: 0..MaxLimit]
  /\ pc \in {"execute", "policy", "done"}
  /\ current \in Requests
  /\ pc = "policy" \/ result = "response" => response \in Responses
  /\ followed \in 0..opts.max
  /\ result \in Results
  /\ trail \in Seq(Requests)

\* Any request the caller may build, and any configuration; response is not
\* read before the first execute_once has returned one.
Init ==
  /\ opts \in [follow: BOOLEAN, max: 0..MaxLimit]
  /\ current \in Requests
  /\ pc = "execute"
  /\ response = <<>>
  /\ followed = 0
  /\ result = "none"
  /\ trail = <<>>

-------------------------------------------------------------------------------
\* is_cross_origin_sensitive_header: Host, Authorization, Proxy-Authorization
\* and Cookie.
Sensitive == {"Host", "Credential"}

\* is_entity_header_removed_with_body
Entity == {"Content-Length", "Transfer-Encoding", "Content-Type"}

\* Fault: Content-Length survives the body it described.
HeadersKeepLength(fields, cross, drop) ==
  {f \in fields : ~(cross /\ f.name \in Sensitive) /\ ~(drop /\ f.name = "Content-Type")}

\* redirected_headers
RedirectedHeaders(fields, cross, drop) ==
  {f \in fields : ~(cross /\ f.name \in Sensitive) /\ ~(drop /\ f.name \in Entity)}

\* is_redirect_status
IsRedirect(status) == status \in {301, 302, 303, 307, 308}

\* Fault: 303 turns every method into GET.
SeeOtherIsGet(status, method) ==
  IF status = 303 \/ (status \in {301, 302} /\ method = "POST")
    THEN [method |-> "GET", preserve_body |-> FALSE]
    ELSE [method |-> method, preserve_body |-> TRUE]

\* redirect_behavior
Behavior(status, method) ==
  IF status = 303
    THEN [method |-> IF method = "HEAD" THEN "HEAD" ELSE "GET", preserve_body |-> FALSE]
  ELSE IF status \in {301, 302} /\ method = "POST"
    THEN [method |-> "GET", preserve_body |-> FALSE]
  ELSE [method |-> method, preserve_body |-> TRUE]

AtMostOne(fields, name) ==
  \A f, g \in fields : f.name = name /\ g.name = name => f = g

\* The checks of serialize_request; the one on the URL has been made.
Serializes(r) ==
  /\ \A f \in r.fields : f.name \notin {"invalid", "Transfer-Encoding"}
  /\ AtMostOne(r.fields, "Host")
  /\ AtMostOne(r.fields, "Content-Length")
  /\ \A f \in r.fields : f.name = "Content-Length" => f.value = r.body

-------------------------------------------------------------------------------
Finish(r) == pc' = "done" /\ result' = r

\* execute_once finds the request invalid and sends nothing.
ExecuteRejects ==
  /\ pc = "execute" /\ ~Serializes(current)
  /\ Finish("InvalidRequest")
  /\ UNCHANGED <<opts, current, response, followed, trail>>

\* execute_once fails on the network or on the response.
ExecuteFails ==
  /\ pc = "execute" /\ Serializes(current)
  /\ trail' = Append(trail, current)
  /\ Finish("Transport")
  /\ UNCHANGED <<opts, current, response, followed>>

\* execute_once returns a response, which is final unless it is a redirect to
\* be followed.
Executes(r) ==
  /\ pc = "execute" /\ Serializes(current)
  /\ trail' = Append(trail, current)
  /\ response' = r
  /\ IF opts.follow /\ IsRedirect(r.status)
       THEN pc' = "policy" /\ UNCHANGED result
       ELSE Finish("response")
  /\ UNCHANGED <<opts, current, followed>>

\* Fault: one redirect too many.
LimitPassed == followed > opts.max

LimitReached == followed >= opts.max

\* Fault: without a usable Location the loop goes round again.
RefuseAtLimitOnly ==
  /\ pc = "policy" /\ LimitReached
  /\ Finish("RedirectLimitExceeded")
  /\ UNCHANGED <<opts, current, response, followed, trail>>

\* The redirect cannot be followed.  The limit is looked at first.
Refuse ==
  /\ pc = "policy"
  /\ LimitReached \/ response.location.kind # "url"
  /\ Finish(CASE LimitReached                                 -> "RedirectLimitExceeded"
              [] response.location.kind \in {"absent", "empty"} -> "MissingRedirectLocation"
              [] response.location.kind = "scheme"            -> "UnsupportedRedirectScheme"
              [] OTHER                                        -> "InvalidUrl")
  /\ UNCHANGED <<opts, current, response, followed, trail>>

\* The next request, from the current one and the redirect.
Redirected(r, status, origin) ==
  LET behavior == Behavior(status, r.method)
  IN [origin |-> origin,
      method |-> behavior.method,
      fields |-> RedirectedHeaders(r.fields, origin # r.origin, ~behavior.preserve_body),
      body   |-> IF behavior.preserve_body THEN r.body ELSE 0]

\* Fault: every hop is rewritten from the request of the caller.
RestartsFromFirst ==
  /\ pc = "policy"
  /\ ~LimitReached /\ response.location.kind = "url"
  /\ current' = Redirected([trail[1] EXCEPT !.origin = current.origin],
                           response.status, response.location.origin)
  /\ followed' = followed + 1
  /\ pc' = "execute"
  /\ UNCHANGED <<opts, response, result, trail>>

Follow ==
  /\ pc = "policy"
  /\ ~LimitReached /\ response.location.kind = "url"
  /\ current' = Redirected(current, response.status, response.location.origin)
  /\ followed' = followed + 1
  /\ pc' = "execute"
  /\ UNCHANGED <<opts, response, result, trail>>

Next ==
  \/ ExecuteRejects \/ ExecuteFails
  \/ \E r \in Responses : Executes(r)
  \/ Refuse \/ Follow

\* execute_once returns (its own modules), so each step of the call is taken.
Spec     == Init /\ [][Next]_vars
FairSpec == Spec /\ WF_vars(Next)

-------------------------------------------------------------------------------
(* Properties.                                                             *)

Hops == 1..Len(trail)

\* A Host, Authorization, Proxy-Authorization or Cookie field of the caller is
\* sent to the first origin only, and never again once the chain has left it,
\* even if it comes back (docs/api/public-api.md, Redirect behavior).
CredentialsConfined ==
  \A i \in Hops :
    (\E f \in trail[i].fields : f.name \in Sensitive) =>
      \A j \in 1..i : trail[j].origin = trail[1].origin

\* Rewriting never makes a request that the client itself then rejects: what
\* is left of Content-Length always agrees with what is left of the body.
RedirectsSerialize == pc = "execute" /\ trail # <<>> => Serializes(current)

\* Nothing a redirect has taken away comes back on a later hop: fields only
\* disappear, a body is kept whole or gone for good, and the method is kept or
\* becomes GET for good, except that HEAD stays HEAD.
NothingRestored ==
  \A i, j \in Hops : i < j =>
    /\ trail[j].fields \subseteq trail[i].fields
    /\ trail[j].body \in {trail[i].body, 0}
    /\ trail[i].body = 0 => trail[j].body = 0
    /\ trail[j].method \in {trail[i].method, "GET"}
    /\ trail[i].method = "HEAD" => trail[j].method = "HEAD"

\* At most max_redirects requests beyond the first are sent, one if following
\* is off, and the limit error is reported only after all of them.
HopsBounded ==
  /\ Len(trail) <= opts.max + 1
  /\ ~opts.follow => Len(trail) <= 1
  /\ result = "RedirectLimitExceeded" => Len(trail) = opts.max + 1

\* Every call ends, however the servers redirect (REQ-REDIR-002: "Redirect
\* loops do not continue indefinitely").
Terminates == <>(pc = "done")
===============================================================================
