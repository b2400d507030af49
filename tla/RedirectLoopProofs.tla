--------------------------- MODULE RedirectLoopProofs ---------------------------
(***************************************************************************)
(* Proofs about RedirectLoop, for any origins, fields, body lengths and    *)
(* any limit.                                                              *)
(***************************************************************************)
EXTENDS RedirectLoop, TLAPS

\* What redirected_headers returns is a set of fields.
LEMMA RedirectedTyped ==
  ASSUME NEW r \in Requests, NEW status, NEW origin \in Origins
  PROVE  Redirected(r, status, origin) \in Requests
BY LengthAssumption
   DEF Redirected, Behavior, RedirectedHeaders, Requests, Methods

\* The arguments of a call are typed.
LEMMA TypeInitially == Init => TypeOK
BY LimitAssumption DEF Init, TypeOK, Results

\* Every step of the loop of Client::request keeps the types.
LEMMA TypeStep == TypeOK /\ [Next]_vars => TypeOK'
<1> SUFFICES ASSUME TypeOK, [Next]_vars PROVE TypeOK'
  OBVIOUS
<1> USE DEF TypeOK
<1>1. CASE ExecuteRejects
  BY <1>1 DEF ExecuteRejects, Finish, Results
<1>2. CASE ExecuteFails
  BY <1>2 DEF ExecuteFails, Finish, Results
<1>3. ASSUME NEW r \in Responses, Executes(r) PROVE TypeOK'
  BY <1>3 DEF Executes, Finish, Results
<1>4. CASE Refuse
  BY <1>4 DEF Refuse, Finish, Results
<1>5. CASE Follow
  <2>1. response.location.origin \in Origins
    BY <1>5 DEF Follow, Responses, Locations
  <2>2. current' \in Requests
    BY <1>5, <2>1, RedirectedTyped DEF Follow
  <2>3. followed' \in 0..opts'.max
    BY <1>5 DEF Follow, LimitReached
  <2> QED  BY <1>5, <2>2, <2>3 DEF Follow
<1>6. CASE UNCHANGED vars
  BY <1>6 DEF vars
<1> QED  BY <1>1, <1>2, <1>3, <1>4, <1>5, <1>6 DEF Next

\* The variables keep their types; in particular redirects_followed never
\* passes max_redirects (client.cpp:229-231, 280).
THEOREM TypeCorrect == Spec => []TypeOK
BY TypeInitially, TypeStep, PTL DEF Spec

(***************************************************************************)
(* What the history says about the request that is to be sent next.        *)
(***************************************************************************)

\* The chain has sent one request per redirect followed, plus the one being
\* decided about.
HopCount ==
  /\ pc = "execute" => Len(trail) = followed
  /\ pc = "policy"  => Len(trail) = followed + 1 /\ opts.follow
  /\ pc = "done"    => Len(trail) <= followed + 1
  /\ ~opts.follow   => followed = 0
  /\ result = "RedirectLimitExceeded" => followed = opts.max /\ Len(trail) = followed + 1

\* The bound on the requests one call sends (REQ-REDIR-002).
THEOREM HopsAreBounded == Spec => []HopsBounded
<1>1. Init /\ TypeOK => HopCount
  BY DEF Init, HopCount
<1>2. TypeOK /\ HopCount /\ [Next]_vars => HopCount'
  <2> SUFFICES ASSUME TypeOK, HopCount, [Next]_vars PROVE HopCount'
    OBVIOUS
  <2> USE DEF TypeOK, HopCount
  <2>1. \A r \in Requests : Len(Append(trail, r)) = Len(trail) + 1
    OBVIOUS
  <2>2. CASE ExecuteRejects
    BY <2>2 DEF ExecuteRejects, Finish
  <2>3. CASE ExecuteFails
    BY <2>1, <2>3 DEF ExecuteFails, Finish
  <2>4. ASSUME NEW r \in Responses, Executes(r) PROVE HopCount'
    BY <2>1, <2>4 DEF Executes, Finish
  <2>5. CASE Refuse
    BY <2>5 DEF Refuse, Finish, LimitReached
  <2>6. CASE Follow
    BY <2>6 DEF Follow, LimitReached
  <2>7. CASE UNCHANGED vars
    BY <2>7 DEF vars
  <2> QED  BY <2>2, <2>3, <2>4, <2>5, <2>6, <2>7 DEF Next
<1>3. TypeOK /\ HopCount => HopsBounded
  BY DEF TypeOK, HopCount, HopsBounded
<1> QED  BY <1>1, <1>2, <1>3, TypeCorrect, PTL DEF Spec

\* A request that is to be redirected is the last one sent, and serialised.
LastSent ==
  pc = "policy" => /\ trail # <<>> /\ trail[Len(trail)] = current
                   /\ Serializes(current)

\* After execute_once the last request sent is the current one, on the first
\* origin as long as it carries credentials.
LEMMA LastSentInvariant == Spec => []LastSent
<1>1. Init => LastSent
  BY DEF Init, LastSent
<1>2. TypeOK /\ LastSent /\ [Next]_vars => LastSent'
  BY DEF TypeOK, LastSent, Next, vars, ExecuteRejects, ExecuteFails, Executes,
         Refuse, Follow, Finish, Serializes, AtMostOne
<1> QED  BY <1>1, <1>2, TypeCorrect, PTL DEF Spec

\* What Append does to the history, for all the proofs below.
LEMMA TrailAppend ==
  ASSUME TypeOK, trail' = Append(trail, current)
  PROVE  /\ Len(trail') = Len(trail) + 1
         /\ trail'[Len(trail) + 1] = current
         /\ \A i \in Hops : trail'[i] = trail[i]
BY DEF TypeOK, Hops

(***************************************************************************)
(* Rewriting takes away and never restores.                                *)
(***************************************************************************)

\* What NothingRestored says of two requests of a chain.
Descends(r, s) ==
  /\ s.fields \subseteq r.fields
  /\ s.body \in {r.body, 0}
  /\ r.body = 0 => s.body = 0
  /\ s.method \in {r.method, "GET"}
  /\ r.method = "HEAD" => s.method = "HEAD"

\* One redirect (redirected_headers, redirect_behavior).
LEMMA RedirectedDescends ==
  ASSUME NEW r \in Requests, NEW status, NEW origin
  PROVE  Descends(r, Redirected(r, status, origin))
BY DEF Descends, Redirected, Behavior, RedirectedHeaders

\* Two redirects in a row take away what each takes away.
LEMMA DescendsTransitive ==
  ASSUME NEW r, NEW s, NEW t, Descends(r, s), Descends(s, t)
  PROVE  Descends(r, t)
BY DEF Descends

\* The chain as far as it was sent, and the request that is to be sent next.
Descent ==
  /\ NothingRestored
  /\ pc = "execute" => \A i \in Hops : Descends(trail[i], current)

\* Fields, body and method that a redirect removed stay removed.
THEOREM NothingIsRestored == Spec => []NothingRestored
<1>1. Init => Descent
  BY DEF Init, Descent, NothingRestored, Hops
<1>2. TypeOK /\ LastSent /\ Descent /\ [Next]_vars => Descent'
  <2> SUFFICES ASSUME TypeOK, LastSent, Descent, [Next]_vars PROVE Descent'
    OBVIOUS
  <2>1. ASSUME pc = "execute", trail' = Append(trail, current), pc' # "execute"
        PROVE  Descent'
    <3> SUFFICES ASSUME NEW i \in 1..Len(trail'), NEW j \in 1..Len(trail'), i < j
                 PROVE  Descends(trail'[i], trail'[j])
      BY <2>1 DEF Descent, NothingRestored, Descends, Hops
    <3>1. i \in Hops
      BY <2>1, TrailAppend DEF Hops, TypeOK
    <3>2. CASE j \in Hops
      BY <2>1, <3>1, <3>2, TrailAppend DEF Descent, NothingRestored, Descends
    <3>3. CASE j = Len(trail) + 1
      BY <2>1, <3>1, <3>3, TrailAppend DEF Descent
    <3> QED  BY <2>1, <3>2, <3>3, TrailAppend DEF Hops, TypeOK
  <2>2. CASE Follow
    <3>1. /\ current' = Redirected(current, response.status, response.location.origin)
          /\ trail' = trail /\ pc = "policy"
      BY <2>2 DEF Follow
    <3>2. Descends(current, current')
      BY <3>1, RedirectedDescends DEF TypeOK
    <3>3. ASSUME NEW i \in Hops PROVE Descends(trail[i], current')
      <4>1. CASE i = Len(trail)
        BY <3>1, <3>2, <4>1 DEF LastSent
      <4>2. CASE i < Len(trail)
        <5>1. Descends(trail[i], trail[Len(trail)])
          BY <4>2 DEF Descent, NothingRestored, Descends, Hops, TypeOK
        <5> QED  BY <3>1, <3>2, <5>1, DescendsTransitive DEF LastSent
      <4> QED  BY <4>1, <4>2 DEF Hops, TypeOK
    <3> QED  BY <3>1, <3>3 DEF Descent, NothingRestored, Hops
  <2>3. CASE ExecuteRejects \/ Refuse \/ UNCHANGED vars
    BY <2>3 DEF ExecuteRejects, Refuse, Finish, vars, Descent, NothingRestored, Hops
  <2> QED  BY <2>1, <2>2, <2>3 DEF Next, ExecuteFails, Executes, Finish
<1>3. Descent => NothingRestored
  BY DEF Descent
<1> QED  BY <1>1, <1>2, <1>3, TypeCorrect, LastSentInvariant, PTL DEF Spec

(***************************************************************************)
(* The client never rejects a request it made itself.                      *)
(***************************************************************************)

\* Header removal keeps a serialisable request serialisable: Content-Length
\* goes exactly when the body goes.
LEMMA RedirectedSerializes ==
  ASSUME NEW r \in Requests, NEW status, NEW origin, Serializes(r)
  PROVE  Serializes(Redirected(r, status, origin))
<1> DEFINE s == Redirected(r, status, origin)
<1>1. s.fields \subseteq r.fields
  BY RedirectedDescends DEF Descends
<1>2. ASSUME NEW f \in s.fields, f.name = "Content-Length" PROVE f.value = s.body
  BY <1>2 DEF Serializes, Redirected, RedirectedHeaders, Behavior, Entity
<1> QED  BY <1>1, <1>2 DEF Serializes, AtMostOne

\* After the first request has been sent, InvalidContentLength and
\* ConflictingMessageFraming cannot come from a redirect.
THEOREM RedirectedRequestsSerialize == Spec => []RedirectsSerialize
<1>1. Init => RedirectsSerialize
  BY DEF Init, RedirectsSerialize
<1>2. TypeOK /\ LastSent /\ RedirectsSerialize /\ [Next]_vars => RedirectsSerialize'
  <2> SUFFICES ASSUME TypeOK, LastSent, RedirectsSerialize, [Next]_vars
               PROVE  RedirectsSerialize'
    OBVIOUS
  <2>1. CASE Follow
    <3>1. Serializes(current')
      BY <2>1, RedirectedSerializes DEF Follow, LastSent, TypeOK
    <3> QED  BY <3>1 DEF RedirectsSerialize, Serializes, AtMostOne
  <2>2. CASE UNCHANGED vars
    BY <2>2 DEF vars, RedirectsSerialize, Serializes, AtMostOne
  <2>3. ASSUME pc' # "execute" PROVE RedirectsSerialize'
    BY <2>3 DEF RedirectsSerialize
  <2> QED  BY <2>1, <2>2, <2>3
           DEF Next, ExecuteRejects, ExecuteFails, Executes, Refuse, Finish
<1> QED  BY <1>1, <1>2, TypeCorrect, LastSentInvariant, PTL DEF Spec

(***************************************************************************)
(* Credentials.                                                            *)
(***************************************************************************)

HasSensitive(r) == \E f \in r.fields : f.name \in Sensitive

\* All requests up to the i-th went to the origin of the first.
StayedHome(i) == \A j \in 1..i : trail[j].origin = trail[1].origin

\* The next request carries a sensitive field only while the chain has never
\* left its first origin and does not leave it with this request.
Confinement ==
  /\ CredentialsConfined
  /\ pc = "execute" /\ trail # <<>> /\ HasSensitive(current) =>
       StayedHome(Len(trail)) /\ current.origin = trail[1].origin

\* A field that is still there after a redirect did not cross an origin.
LEMMA SensitiveStays ==
  ASSUME NEW r \in Requests, NEW status, NEW origin,
         HasSensitive(Redirected(r, status, origin))
  PROVE  HasSensitive(r) /\ Redirected(r, status, origin).origin = r.origin
BY DEF HasSensitive, Redirected, RedirectedHeaders

\* Host, Authorization, Proxy-Authorization and Cookie of the caller reach the
\* first origin only (client.cpp:95-123, 265-271).
THEOREM CredentialsAreConfined == Spec => []CredentialsConfined
<1>1. Init => Confinement
  BY DEF Init, Confinement, CredentialsConfined, Hops
<1>2. TypeOK /\ LastSent /\ Confinement /\ [Next]_vars => Confinement'
  <2> SUFFICES ASSUME TypeOK, LastSent, Confinement, [Next]_vars PROVE Confinement'
    OBVIOUS
  <2>1. ASSUME pc = "execute", trail' = Append(trail, current), pc' # "execute"
        PROVE  Confinement'
    <3> SUFFICES ASSUME NEW i \in 1..Len(trail'), HasSensitive(trail'[i]),
                        NEW j \in 1..i
                 PROVE  trail'[j].origin = trail'[1].origin
      BY <2>1 DEF Confinement, CredentialsConfined, HasSensitive, Hops
    <3>1. CASE i \in Hops
      <4>1. trail'[i] = trail[i] /\ trail'[j] = trail[j] /\ trail'[1] = trail[1]
        BY <2>1, <3>1, TrailAppend DEF Hops, TypeOK
      <4> QED  BY <3>1, <4>1 DEF Confinement, CredentialsConfined, HasSensitive
    <3>2. CASE i = Len(trail) + 1
      <4>1. CASE trail = <<>>
        BY <3>2, <4>1
      <4>2. CASE trail # <<>>
        <5>1. 1 \in Hops /\ HasSensitive(current) /\ trail'[1] = trail[1]
          BY <2>1, <3>2, <4>2, TrailAppend DEF Hops, TypeOK
        <5>2. CASE j \in Hops
          BY <2>1, <4>2, <5>1, <5>2, TrailAppend
             DEF Confinement, StayedHome, Hops
        <5>3. CASE j = Len(trail) + 1
          BY <2>1, <4>2, <5>1, <5>3, TrailAppend DEF Confinement
        <5> QED  BY <3>2, <5>2, <5>3 DEF Hops, TypeOK
      <4> QED  BY <4>1, <4>2
    <3> QED  BY <2>1, <3>1, <3>2, TrailAppend DEF Hops, TypeOK
  <2>2. CASE Follow
    <3>1. /\ current' = Redirected(current, response.status, response.location.origin)
          /\ trail' = trail /\ pc = "policy"
      BY <2>2 DEF Follow
    <3>2. ASSUME HasSensitive(current')
          PROVE  StayedHome(Len(trail)) /\ current'.origin = trail[1].origin
      <4>1. HasSensitive(current) /\ current'.origin = current.origin
        BY <3>1, <3>2, SensitiveStays DEF TypeOK
      <4>2. Len(trail) \in Hops /\ trail[Len(trail)] = current
        BY <3>1 DEF LastSent, Hops, TypeOK
      <4>3. StayedHome(Len(trail))
        BY <4>1, <4>2 DEF Confinement, CredentialsConfined, HasSensitive, StayedHome
      <4> QED  BY <4>1, <4>2, <4>3 DEF StayedHome, Hops
    <3> QED  BY <3>1, <3>2
             DEF Confinement, CredentialsConfined, StayedHome, HasSensitive, Hops
  <2>3. CASE ExecuteRejects \/ Refuse \/ UNCHANGED vars
    BY <2>3 DEF ExecuteRejects, Refuse, Finish, vars, Confinement,
                CredentialsConfined, StayedHome, HasSensitive, Hops
  <2> QED  BY <2>1, <2>2, <2>3 DEF Next, ExecuteFails, Executes, Finish
<1>3. Confinement => CredentialsConfined
  BY DEF Confinement
<1> QED  BY <1>1, <1>2, <1>3, TypeCorrect, LastSentInvariant, PTL DEF Spec
===============================================================================
