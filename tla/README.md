# TLA+ model of cpp_request

cpp_request is a synchronous HTTP/1.1 client library in C++20. This directory
holds TLA+ modules for the parts of it whose correctness depends on order,
ownership, time or segmentation; TLC configurations that check them on small
instances; and proofs of their main invariants for every value of the
constants. All paths below are relative to the repository, as `src/...`.

## The system

| Component | State | Operations | Interacts with |
|---|---|---|---|
| `Client` (`src/src/core/client.cpp`) | `reusable_socket_token_`, `has_reusable_connection_`, `reusable_host_`, `reusable_port_`; options | `request`, the verbs, `execute_once`, `close_reusable_connection`, moves, destruction | calls all below; descriptor numbers are shared with the process |
| `ResponseParser` (`src/src/http/response_parser.cpp`) | `stage_`, `buffer_`, `response_`, `content_length_remaining_`, three flags | `feed`, `finish_eof`, `connection_reusable`, `pending_bytes` | fed by `execute_once`, lends its buffer to `ChunkedDecoder` |
| `ChunkedDecoder` (`src/src/http/chunked_decoder.cpp`) | `stage_`, `chunk_remaining_`, `trailer_bytes_seen_` | `process` | consumes the parser's buffer, appends to its body |
| `TcpConnection` (`src/src/net/tcp_connection.cpp`) | one `NativeSocket`; the blocking mode of the socket | `connect`, `write_all`, `read_some`, `adopt`, `release`, `close` | `src/src/platform/*`: poll, send, recv, connect |
| `NativeSocket` (`src/src/platform/native_socket.*`) | one handle | move, `release`, `reset`, `close` | the kernel's descriptor table |
| `Request`, `Headers` (`src/include/cpp_request/request.hpp`, `src/src/core/headers.cpp`) | method, borrowed URL and body, `fields_`, `query_params_` | `set_body`, `add_query_param`, `add`, `set`, lookups | read by the serializer and by the redirect loop |
| request serializer (`src/src/http/request_serializer.cpp`) | none | `serialize_request`, `effective_request_url` | `Url`, `Headers` |
| redirect helpers (`src/src/http/redirect.cpp`) | none | `redirect_behavior`, `resolve_redirect_location` | `Client::request` |
| `Url` (`src/src/core/url.cpp`) | the text and slices of it | `parse`, accessors | serializer, redirects, `execute_once` |
| `Resolver`, `Endpoint`, `Result`, limits | values | lookup | everything |

A call runs in the thread of its caller. `Client::request` calls `execute_once`
once per hop; that serialises the request, takes the kept connection or
connects, writes head and body, reads into the parser until the response is
complete or the stream ends, and decides whether to keep the connection. There
are no callbacks, queues or background threads.

### What is hard

* *Ownership of descriptors.* The kept connection is a raw token in an object
  that is moved, assigned and destroyed, and the kernel hands out a closed
  number at once: a token kept too long closes a descriptor of somebody else.
* *Segmentation.* Parser and decoder see the stream in arbitrary pieces and
  must return the same as for one piece; what they leave in the buffer decides
  about reuse.
* *Sequences.* Redirects rewrite a request step by step; what one hop removes
  no later hop may bring back.
* *Time.* Waits, retries after interruption and several endpoints share one
  deadline, rounded to milliseconds.
* *Text.* A URL is taken apart, put together again for a redirect, and given
  parameters, in three places; the places must agree on where each part ends.
* *Failure.* Every error return, in the middle of whatever, must leave the
  client in a state from which the next request is right.

`PROJECT.json` lists these as hazards, each at its line, with the properties
that cover it or the reason why none does yet.

### What makes each component correct

* Client, connections: each descriptor has one owner, none is leaked, none of
  another owner is closed; a request is written to its own origin on a
  connection with no unfinished or surplus exchange.
* Client, redirects: bounded, terminating, credentials confined to the first
  origin, consistent body and framing fields, nothing restored.
* Parser and decoder: independent of segmentation, bounded in memory by the
  limits, no truncated response taken for a whole one, no content where none is
  permitted, and a reusable connection only at a message boundary.
* Request and URL: a server reads one message with the body that was sent, the
  parameters that were added, and a redirect starts from the URL that was asked;
  URLs are read as their grammar says, and relative Locations as RFC 3986 does.
* Transport: all or an error and a closed socket, on time, in blocking mode
  between calls.

## Modules

| Module | Models | Proofs | Run(s) |
|---|---|---|---|
| `ReusableConnection` | `execute_once` as owner of descriptors, moves, destruction, several clients | `ReusableConnectionProofs` | `reuse` |
| `RedirectLoop` | `Client::request` and the rewriting of requests | `RedirectLoopProofs` | `redirects` |
| `ChunkedDecoder` | `ChunkedDecoder::process` | `ChunkedDecoderProofs` | `chunked`, `chunked_long`, `chunk_line` |
| `ResponseParser` | `feed`, `process_buffer`, `finish_eof` | `ResponseParserProofs` | `responses` |
| `HttpExchange` | `execute_once` against a server that answers early, late or never, closes or resets | `HttpExchangeProofs` | `exchange`, `reset_as_end` |
| `RequestService` | what a client promises about sending and answering, without connections | refinement in `HttpExchangeProofs` | refined in `exchange` |
| `TcpConnection` | `connect`, `write_all`, `read_some` over POSIX calls | `TcpConnectionProofs` | `transport` |
| `Url` | `Url::parse`, as operators on texts, and the grammar of URLs | `RequestSerializerProofs` | in the three below |
| `RedirectLocation` | `resolve_redirect_location`, as operators on texts, and RFC 3986 | `RequestSerializerProofs` | in the three below |
| `RequestSerializer` | the calls that build a request, the head that is written for it, and the redirect of it | `RequestSerializerProofs` | `requests`, `locations`, `question_mark` |
| `LeastNumber` | the least member of a set of natural numbers, and from it induction on sets of numbers and the existence of what a loop goes through; used by four proof modules | itself | |

Modules named `MC...` give the constants for TLC. Definitions marked *Fault* in
a module are no part of its specification: each is a variant of the definition
it precedes with a plausible bug, and TLC finds the property listed for it
under `mutants` in `PROJECT.json` violated when the variant replaces it.

### ReusableConnection

`fd` is the kernel's descriptor table with, for a socket, the origin it is
connected to and where the exchange on it stands (`wire`). `slot[c]` holds the
four `reusable_*` members of client `c`, `call[c]` the locals of `execute_once`:
program counter, handle of the local `TcpConnection`, request, and what the
parser said. Each block of `execute_once` is an action: `Begin`, `Adopt` (the
slot is emptied before the first write), `CloseReusable`, `Resolve`,
`OpenSocket` with its outcomes, `WriteHead`, `WriteBody`, `IoFails` (the
transport closes before it reports), `ParseFails`, `ReadCompletes`,
`EofCompletes`, `Retain`, `Discard`. `Retain` includes the case that
`std::string::assign` throws after the flag is set. Clients are constructed,
moved, assigned and destroyed between their calls, as README.md asks (one
client, one thread), but in any interleaving with other clients and with the
rest of the program, which opens and closes descriptors of its own and gets any
free number.

### RedirectLoop

A request is origin, method, a set of header fields with positions, and a body
length. `execute_once` is one step: rejected by `Serializes` (the checks of
`serialize_request`), failed, or any response. `Refuse` has the checks before a
redirect in their order, `Follow` the rewriting. `trail` is a history of what
was sent. A Location is abstracted to what becomes of it: absent, empty,
malformed, another scheme, or an origin.

### ChunkedDecoder

Bytes are representatives of the classes the code tells apart. One iteration of
the loop in `process` is one step, one action per stage and outcome; the
grammar of extensions is an automaton, numbers are values checked against
`SizeMax`. `input` is the buffer from the cursor on. The
reference (`InOnePiece`) reads all that was fed at once, a whole chunk or trailer
line at a time (`ReadOn`); it is a recursive function and not a `RECURSIVE` operator,
so that it can be proved about.

### ResponseParser

The stream is made of units: a byte inside a head, the byte that completes a
head (it carries what `parse_head` and `analyze_framing` read), a chunk, the
end of the coding, any other byte. One iteration of `process_buffer` is one
step. The chunked coding is one step here, by what it accepts and reports; its
bytes are the subject of `ChunkedDecoder`. `WholeMessage` is stated against the
whole stream fed, without reference to the stages.

### HttpExchange and RequestService

`net` holds the connections with the bytes under way in both directions and the
server at the other end; `slot`, `conn`, `unsent` and `parser` are the locals and
members that decide about the exchange. The same blocks of `execute_once` as in
`ReusableConnection` are actions, now with what is written and read: a request
is written unit by unit and may stop anywhere, `recv` returns any part of what
has arrived, and `ReadEnds` is the one place where an orderly end and a reset
come out as the same error. The server reads and answers when it likes, each
request once, may end or reset a connection in the middle of a response, and may
send more than it announced. It sends no response unasked: a client of HTTP/1.1
cannot tell such a response from the answer to its next request. Before its answer it
may send interim heads (`ServerInforms`), as many as it likes: the code consumes them
without a count (`src/src/http/response_parser.cpp:370`), and each read starts its
timeout anew (`src/src/core/client.cpp:360`), so that a server that never stops keeps a
call busy for ever. `CallsEnd` is therefore not a promise against every server: it says
that a call returns if the server sends interim heads only finitely often, whatever else
it does. Without this assumption TLC finds the loop of `ServerInforms` and `ReadData`.

`RequestService` is the abstract specification: requests one after the other,
each sent at most once, then answered with its own answer or failed. The
mapping reads `sent` off what was written on all connections and `outcome` off
the results. A late answer, a hidden retry or a request behind half a request
would each be a step that `RequestService` does not have.

### TcpConnection

The clock counts ticks of a fraction of a millisecond, so that the rounding in
`remaining_timeout` and the whole milliseconds of `poll` show. It may advance
between any two steps. Every system call may have every outcome the code tells
apart. The POSIX build is modelled.

### Url and RedirectLocation

A text is a sequence of tokens: delimiters, and words between them, of which
matters only whether they are port numbers, may be schemes, or have escapes or
forbidden characters in them. `Parse` is `Url::parse`, with its errors in their
order; a `Url` is host, port, brackets and target; `Resolve` has the cases of
`resolve_redirect_location`. Neither has a state. At the end of each module stands
the reference it is judged by, written from the other side. `Readings` cuts a text at
every three places and keeps the cuts that match
`http://host[:port][/path][?query][#fragment]`; `RfcPath` is the loop of RFC 3986,
5.2.4, over an input and an output, where the code has a list of segments, and
`RfcTarget` is 5.2.2.

Nothing in the repository claims RFC 3986, and there are two differences that
are kept. An absolute or scheme-relative Location is not normalised. And of a
path that ends in an empty segment and a dot segment, as `/a//.`, the code makes
`/a/` where the RFC has `/a//`; `ButOneSlash` is that difference, exactly.

### RequestSerializer

The state is the members of `Request`; each call on it or its `Headers` is an
action (`SetField` takes the place of the first field of the name, in any
spelling, and removes the others). `serialize_request` changes nothing: `Error`
is its checks in their order, `RequestTarget` and `HeadFields` what it writes.
Percent-encoding is given as the encoded form of each token; the assumption
states what matters of it, that no delimiter is left. The properties read the
head back as a server does, and compare. `Redirect` is the first round of the loop in
`Client::request`, from the effective URL and a Location field to the next URL; with it
`Url` and `RedirectLocation` are checked on the texts that a client really parses. A
request that was redirected is not built any further.

## Runs

* `reuse`: two clients, three descriptor numbers (0 among them), two origins,
  139 152 states. Two clients and the rest of the program are the least number
  of parties for a number to be closed by one, reused by a second and closed
  again; three numbers let each client hold one while a foreign one is open.
* `redirects`: every subset of six fields, four methods, two body lengths, two
  origins, limits up to two: 450 752 states. Two redirects are needed for a
  chain that leaves an origin and comes back; one status of each class
  of `redirect_behavior` is enough.
* `chunked`: every stream of up to eight bytes over eight of the fifteen classes, cut
  at every place, with limits small enough to be reached by them. A size line may have
  two bytes, so that no extension is accepted; those that are, and the other classes,
  are covered by the proofs only. `chunked_long`: pieces that make several chunks and
  trailer lines out of up to eighteen bytes, with sizes of two bits (`SizeMax`), so that
  the sum of two chunk sizes would wrap if it were formed.
* `chunk_line`: finds the counterexample described below.
* `responses`: 22 heads of every framing, interim and refused ones, in streams
  of five units, limits of two: 308 736 states, `HEAD` and other methods.
* `transport`: timeouts of 0, 2 and 3 ms in half-millisecond ticks, a poll that
  cannot wait for more than 2 ms (for `INT_MAX`), up to two endpoints, up to two
  bytes: 74 407 states.
* `exchange`: two requests, the second meeting what the first left behind, with
  bodies of up to two units, so that either side can stop before and in a body,
  a connection that holds one unit, and up to two interim heads that wait to be read:
  397 017 states.
* `reset_as_end`: one request; finds the second counterexample below.
* `locations`: six URLs (with and without path, query, fragment, port and
  brackets), as they are and with one parameter, and 4 746 Locations: all texts of up
  to four tokens over the delimiters and words of each kind, all paths of up to five
  tokens with dot segments and empty segments, before every kind of query and fragment,
  and all authorities of up to three tokens and those with an address: 113 928 states.
  One hop is enough, since the next one parses the text again.
* `requests`: nine URLs, one for every place at which a query may begin or go on
  and two that are refused; ten fields, framing fields in two spellings and
  values that are refused among them; up to three fields and parameters:
  56 520 states. Two fields of one name and a third call are what it takes for
  `add` and `set` to disagree.
* `question_mark`: one parameter; finds the third counterexample below.

Bounds that are not in the code: `MaxRequests` and `MaxUnits` (exchanges;
`Capacity` stands for the buffers of the network), `MaxInterim` (the interim heads that
wait at one time; over a call there may be any number), `MaxFed` (streams),
`MaxLimit` (values of `max_redirects`), `MaxCalls` (fields and parameters of a request), the
one redirect of a request in `RequestSerializer`, `MaxElapsed` (the clock; it cuts no poll
short and lies beyond every deadline). All runs switch the deadlock check off,
since clients may stop asking, streams may end and a call that has returned
stays returned.

### Disagreements between code and documentation

`chunk_line` checks what `src/docs/api/response-limits.md:30` says: the limit is
for "One chunk-size line, excluding CRLF". TLC finds that a size line of exactly
the limit is refused with `ResponseLimitExceeded` if a read ends between its CR
and its LF: `src/src/http/chunked_decoder.cpp:280` counts the CR that has
arrived, while line 287 does not. The property `SameAsInOnePiece` holds
nevertheless, because the code does the same for the same unfinished bytes
however they were cut; it is the bytes that follow which are not waited for.

`reset_as_end` checks what `src/docs/api/error-model.md:97` says of `ReadFailed`:
"Response bytes could not be read for reasons other than timeout or clean peer
closure." TLC finds a server that sends the head of a close-delimited response
and resets: `src/src/net/tcp_connection.cpp:255` reports this as
`ConnectionClosed`, as it does an orderly end, and
`src/src/core/client.cpp:367` then completes the response with the part that
arrived. `WholeUnlessReset` says that this is the only way to a short body.

`question_mark` checks what `src/docs/api/public-api.md:301` and `:305` say:
"`add_query_param(name, value)` appends one parameter in insertion order." and
"an existing raw query already present in the URL is preserved". TLC finds
`http://a/?a=?`, whose query is the pair of `a` and `?`. As the text ends with a
question mark, `src/src/http/request_serializer.cpp:116` puts no `&` behind it,
and a parameter `p` with value `v` gives `/?a=?p=v`: one pair, with another
value. `QueryReadsBack` says that this is the only such case.

## Fairness

Only liveness properties use it. `RedirectLoop`, `ChunkedDecoder` and
`ResponseParser` are sequential code without waiting, so weak fairness of the
loop says that a thread that can go on does. `FeedReturns` and
`ProcessReturns` assume nothing of the server. `Terminates` takes each
`execute_once` to return. In `TcpConnection` the thread runs on, time passes,
and `poll` returns when its time is over; that it returns earlier, or that a
peer answers, is not assumed. In `HttpExchange` the thread runs on and a call
that waits fails in the end, as `CallsReturn` of `TcpConnection` gives it; the
server has no fairness. Against a server that sends interim heads for ever this is not
enough, and `CallsEnd` has the opposite as its premise (`<>[][~Informs]_vars`). `ReusableConnection` has no liveness property: its
calls return if those of the other modules do.

## Proofs

The type invariants of `ReusableConnection`, `RedirectLoop`, `ChunkedDecoder` and
`ResponseParser` are proved and for that reason in no run; those of `TcpConnection`
and `HttpExchange` are proved and checked. Seven modules hold theorems of the form
`Spec => []Inv`, for all values of the constants. Constants need no more than to be
sets of the right kind and limits that are natural numbers, but for the texts, of which
below; the assumptions are named in the modules.

* *Ownership* (`DescriptorsHaveOneOwner`, `NoDescriptorLeaks`, `OneDescriptor`,
  `ForeignDescriptorsUntouched`,
  `ClientsKeepOnlyTheirOwn`). None of the three invariants is inductive by
  itself. The invariant `Ownership` is their conjunction with where the handle
  of a call is at each program counter, and that an object that is not alive
  owns nothing. `ForeignUntouched` follows for each step from `SoleOwner`, and
  `KeepsOnlyItsOwn` from the empty slot of a client whose call is under way.
* *Peers* (`RequestsReachTheirOrigin`, `RequestsStartClean`). A slot with a
  token names the origin its descriptor was connected to, unless the assignment
  of the host failed, in which case it matches no request; a descriptor in a
  slot is idle. The proof rests on `SoleOwner`: a step of another client does
  not change a descriptor that this one owns.
* *Redirects.* `HopsAreBounded` adds the count of requests to the count of
  redirects. `NothingIsRestored` uses a preorder on requests: each redirect goes
  down, and the last request sent is the current one. `RedirectedRequestsSerialize`
  follows for one hop, since Content-Length goes exactly with the body.
  `CredentialsAreConfined` needs that a field still present implies that all
  requests so far went to the first origin.
* *Decoder and parser.* `BodyIsBounded` in both needs that what is announced
  fits beside what is stored (`would_exceed` decides this without a sum that
  wraps). `BufferIsBounded` follows from the stage in which a call returned.
  `CutsDoNotMatter` is about what has not arrived yet: `OnTrack` says that whatever
  is fed next, the reference that has all of it comes by the place where the decoder
  stands (`AtLine`), in the middle of a chunk with the part of the chunk that was read
  put back (`InChunk`). Without the quantifier the invariant would be lost in every
  feed. A decoder that has returned an error is not fed again, and only for it the
  place is the outcome of the bytes so far. The lemmas that carry it are that a line
  once there does not change (`LineStays`), and that the reference needs no more
  steps than it has bytes (`ReachedNext`, `ReachedEnd`).
  `ForbiddenContentIsRefused` needs that a status that permits no content is
  never in a stage that stores any, or has the flag set that refuses it.
  For `ReusableConnectionsAreInStep` and `TruncationIsNoticed` the flags must be
  traced to the final head in the stream: `Provenance` says that while heads are
  read the buffer is the end of what was fed, with nothing but interim heads before
  it, and afterwards that a final head exists, only one, which the flags describe.
  `MessagesAreWhole` adds to it where everything that was fed is: behind the final
  head comes the body as far as it was read, and the buffer is the end of the stream
  (`Parts`); `Content` says for each framing and stage how much of the content that
  is. Each step moves the border between the two, and at the end the length of the
  body is what the reference takes from the whole stream.
* *Exchanges.* `Inv` is `TypeOK` with three parts. `Control` ties the members of a
  call to its place: what is still to be written, the stage of the parser, which
  results are there, how many connections were opened, and that nothing comes behind
  the end of a stream. `Writing` compares what was written on
  every connection with the request under way: whole requests, then a part of
  the last one, the rest of which is in `unsent`. `Reading` compares what has arrived
  and was not read with what the parser expects: the rest of the answer to
  the request that was written, then at most bytes that are no response, or the end.
  `RequestsStayWhole` alone is not inductive, since it does not say that `unsent` is
  the missing part; `WholeUnlessReset` is not, since it says nothing of answers that
  are under way. `Parse` goes through what is read unit by unit and is a recursive
  function; that it exists and keeps what each unit keeps is shown with `LeastNumber`,
  as the first number of units for which it did not. `Refinement` then maps each
  action: the step that writes the first unit of a request is the one of
  `RequestService` that sends it, the one that returns is its answer or failure, and
  every other step changes neither. That a request is sent only once follows from
  `Writing`: on all connections together there is one unit that begins it.
* *Transport.* `Places` says which operation each program counter belongs to and
  where a socket is open; `SocketsAreBlocking` and `FailuresClose` are inductive
  with it. `SuccessesAreWhole` adds what has been moved, or tried, at the place
  from which a call can only succeed; of `connect` that is that an endpoint was tried. For the deadlines (`WaitsAreOnTime`,
  `TimeoutsAreDue`) the lemma `RemainingRight` shows that the whole milliseconds
  of `remaining_timeout`, rounded down but never to zero, are right to a
  millisecond; `Timing` carries this from where they are computed to the end of
  the poll, whatever time (`slip`) passes in between. The resolution of the clock,
  the limit of poll and all timeouts are arbitrary. For `AllEndpointsAreTried` the
  endpoints that are left are the end of the list, and `tried` is the number of
  valid ones before them.
* *Requests.* `RedirectBase` compares two texts that are written from one URL: the
  effective URL, cut and extended before it is parsed, and the target, extended after.
  A URL that parses begins with a scheme and the separator (`ParsedIsHttp`), which what
  is written behind it cannot change; the rest is parsed by `ParseText`. What is written
  has no token that Parse rejects or stops at (`Appendix`), so it goes to the target
  and leaves the server as it is (`ParseGoesOn`); and URL and target get the same
  character in front of it (`SameGlue`).
* *The head.* For `OneMessageIsRead` the lines of the head are numbered (`HeadLines`):
  a generated Host or none, the fields of the caller, a generated Content-Length or
  none. Each line with one of the three names is then one that `Error` has looked at
  or one that was generated because there was no other. The generated Host is read
  back by `Url::parse` itself (`HostReads`), brackets and port included.
* *The query.* `ParametersReadBack` follows two loops at once: the one that writes
  parameters (`IsListing`) and the one with which a server splits what it reads
  (`IsScan`). `ScanGoesOn` says that the server, at the end of the URL's own query,
  goes on through what is behind it from where it was; `ListScans`, by induction
  over the parameters, that it then has closed one pair for each parameter but the
  last, which is the piece it is reading; `PairBack` that this piece is split at the
  right `=` and decoded to the parameter. That nothing is open when the first
  parameter begins is the three cases of `append_query_params` (`ParametersBehind`),
  and fails only where the query ends with a question mark of its own.
* *The grammar.* `ParseIsGrammar` holds of every text. In one direction, a text that
  is cut as the grammar says is parsed part by part (`AuthorityOf`, `TargetBehind`,
  `ParseJoined`), so that all cuts give the one URL that `Parse` finds. In the other,
  where `Parse` stops makes a cut (`AuthoritySplits`, `ParsedHasCut`).
* *Locations.* `RemovesDotSegments` is about two loops that differ in what they keep:
  `Kept` a stack of segments, `RfcPath` two texts, where a dot segment at the end
  leaves a slash in the input that takes a step more. `Goes` says where the first is
  after n rounds, `Follows` what the second then has; the slash that it may have too
  much is the only difference (`LoopsEnd`). `OriginParses` shows that a server written by
  `build_origin` is parsed as itself, whatever path and query follow. `ResolveIs` puts
  this together for each kind of Location, and `RedirectsResolveAsRfc3986` uses
  `RedirectBase` for what the base is.

The theorems about texts take from their constants: words have no delimiters in them,
and `http`, `.` and `..` are words without white space and percent signs (`WordAssumption`);
port numbers are such words, with values from 1 to 65535 (`PortAssumption`), and the
decimal form of a port is one with the same value (`SchemeAssumption`); `inet_pton` takes
no text with brackets, slashes or percent signs (`LiteralAssumption`); the decimal form
of a length is a number of that length, and percent-encoding maps different tokens to
different ones, none of them a delimiter, white space or a bad escape
(`RequestAssumption`). URLs, Locations, fields and parameters are of any length and number.

Only model-checked is liveness under fairness, which is beyond the prover:
`Terminates`, `ProcessReturns`, `FeedReturns`, `CallsReturn` and `CallsEnd`. All other
properties that the passing runs check are proved. The loops over texts and lists are
recursive functions in the modules; induction over them goes through `UpTo` in
`LeastNumber`, on the set of rounds for which a statement holds, as the induction
theorems of the library take an operator as a parameter, which the provers cannot
instantiate.

## Plan

In this order:

1. A module in which `ResponseParser` and `ChunkedDecoder` are composed, the
   parser's one-step chunked coding shown to be what the decoder does.
2. The redirect loop of `RedirectLoop` with `Resolve` for its abstract Locations, so
   that credentials are followed through URLs and not only through origins.

## Not modelled

The resolver is one call of `getaddrinfo`. The Windows branches differ in error
codes and `select`; the POSIX build is modelled. The text of response heads
(`parse_head`) is taken by what it says, requests and URLs are tokens and not
characters, and of `Headers` the lookups are part of the modules that use them.
Native error codes and error messages and overflow of `now() + timeout` are left
out. Integers have no width, except for the sizes of chunks, which are held to
`SizeMax`: where the code compares without a sum, the model does too, and no other sum
is checked for overflow. Waits longer than `INT_MAX` milliseconds are cut to that (`MaxPoll`), as
`src/src/platform/socket_io.cpp` does, and the call then reports a timeout before
its time: `TimeoutsNotEarly` is about the others. Tests, benchmarks, examples and
packaging are no behaviour of the library.
