# A verification project for rusthttp

rusthttp is an HTTP client library in Rust: its own HTTP/2 connection, an
HTTP/1.1 fallback, CONNECT tunnels through rotating proxies, and a client that
pools connections, follows redirects and keeps cookies. This directory holds
TLA+ models of the parts that carry state, the TLC runs that check them, and
TLAPS proofs about the HTTP/2 connection, the HTTP/1.1 exchange, the client's
pool and connection set-up, its headers and cookies, HPACK, and the proxies'
rotation and blacklist.

Paths below are relative to the repository; `client`, `h2`, `proxy` and `tls`
stand for `crates/<name>/src`.

## The system

| component | where | state | operations |
|---|---|---|---|
| HTTP/2 connection, stream | `h2/connection.rs`, `h2/stream.rs` | windows of both directions, peer's frame size, last GOAWAY, next stream id | `handshake`, `send_request`, `handle_frame` |
| frame codec | `h2/frame.rs`, `h2/codec.rs` | none | `read_frame_with_max`, `write_frame` |
| HPACK | `h2/hpack.rs` | one dynamic table per direction | `encode`, `decode`, `set_max_table_size` |
| HTTP/1.1 exchange | `client/lib.rs:793-1012` | one read buffer per exchange | `execute_h1`, `read_chunked_body` |
| client | `client/lib.rs` | pool of connections by `host:port` | `send`, `execute_single_with_method`, `new_connection` |
| cookie jars | `client/cookie_jar.rs`, `client/lib.rs:739-761` | list of cookies; legacy map by host | `add_cookie_str`, `cookies`, `clear` |
| proxy pool | `proxy/rotation.rs` | index, failures and blacklist | `select`, `report_failure`, `report_success`, `reset_all` |
| CONNECT tunnel | `proxy/tunnel.rs` | none | `establish_tunnel`, URL and status parsers |
| TLS connector, profiles | `tls/` | configuration tables | `connect` |
| headers, builder, CLI | `client/header.rs`, `client/lib.rs:299-481`, `src/main.rs` | options | setters |

How they meet. `send` runs a loop of hops. A hop takes the entry of its origin
out of the pool under an async mutex, or calls `new_connection` (TCP or tunnel,
TLS, ALPN, HTTP/2 handshake). It runs one exchange, `Connection::send_request`
or `execute_h1`, puts the connection back, and then looks at the status. There
is no background task: whoever owns a connection reads it, and only while it
waits for something. A PING that arrives between two requests is answered in the
next one. Everything is cancellable at every `await`, since the caller may drop
the future.

What is hard about it:

- flow control in both directions, with updates that arrive while the upload
  waits, while the response is read, or between requests;
- frames read in one of three loops (handshake, upload, response) that treat the
  same frame differently;
- GOAWAY, resets, closes and timeouts at every point;
- concurrent calls on one pool, retries, and cancellation;
- HTTP/1.1 messages cut into arbitrary reads, on a connection that is reused;
- reports about proxies that come late, after other selections and resets;
- two compression tables per connection that must follow those at the other end;
- cookies that are read before an exchange and stored after it, by concurrent
  calls and the application;
- a proxy's answer and the TLS stream behind it on one socket.

## Modules

| module | models | instantiated by |
|---|---|---|
| `H2Connection` | one HTTP/2 connection, its requests, and the server | the H2 configurations |
| `H2ConnectionProofs` | nothing new: the theorems about flow control in `H2Connection` | |
| `H2ExchangeProofs` | nothing new: those about PING, GOAWAY, chunks, whole responses and the end of an exchange | |
| `Http1` | one kept-alive HTTP/1.1 connection and the server | the Http1 configurations |
| `Http1Proofs` | nothing new: the theorems about `Http1` | |
| `Client` | concurrent calls of `send` on one pool | `MCClient` (symmetry) |
| `ClientProofs` | nothing new: the theorems about `Client` | |
| `ClientConnect` | `Client` with connection set-up in detail: tunnel, TLS, HTTP/2 handshake | `MCConnect` |
| `ClientConnectProofs` | nothing new: the theorems about `ClientConnect` | |
| `TlsProfile` | profiles, and what a connector makes of them | through `ClientConnect` |
| `Hpack` | encoder and decoder of a connection, and the server's tables | `MCHpack` |
| `HpackProofs` | nothing new: the theorems about `Hpack`, with `HpackPeer` and `HeaderChannel` | |
| `HpackPeer` | RFC 7541 as the server follows it: the reference for `Hpack` | through `Hpack` |
| `HeaderChannel` | abstract: header lists arrive as sent, or the connection breaks | refined by `Hpack`, twice |
| `CookieJar` | the jar and the header map, as operators | through `Session` |
| `CookieStore` | abstract: one cookie for each name, domain and path | refined by `Session` |
| `Rfc6265` | what RFC 6265 makes of a Set-Cookie line and its URL: the reference for the jar | through `Session` |
| `Session` | headers and cookies of concurrent calls | `MCSession` |
| `SessionProofs` | nothing new: the theorems about `Session` and its jar | |
| `ProxyPool` | the rotating pool and its callers | `MCProxyPool` |
| `ProxyPoolProofs` | nothing new: the theorems about `ProxyPool` | |

Three abstract specifications stand behind detailed ones. `Hpack` implements
`HeaderChannel` in each direction (`RequestsArrive`, `ResponsesArrive`), the
shared jar implements `CookieStore` (`JarIsAStore`), and `ClientConnect`
implements `Client`, fairness included (`ClientImplemented`).

Every module follows one convention: an action of the client ends where the code
awaits, so what happens between two awaits is one step and everything that may
happen meanwhile is not. Operators named `...Short`, `...Unchecked` and so on,
under a comment that begins with "Mutant", are wrong versions of the operator
that follows them. No specification uses them. Each shows that one property
fails when the code has that bug.

### H2Connection

`pc` says where the task awaits: the handshake, an idle connection, the upload,
the response, the CONTINUATION loop, or a connection dropped after an error.
`conn` is `struct Connection` with the stream id allocator. `strm` is
`struct Stream` of the request in progress, `left` the part of the body not yet
written, `resp` and `block` the local variables of the response loop, `result`
what the last call returned.

The branches of `handle_frame` are the actions `AnswerPing`, `StoreGoAway`,
`GoAwayError`, `RaiseSendWindow` and `Ignore`. All three loops use them, as in
the code, and that is why a frame means something else in the upload than in the
response. `UploadChunk`, `UploadWait` and `UploadTimeout` are the three ways
through the body loop; `ReadHeaders`, `ReadContinuation`, `ReadData`,
`ReadReset`, `ReadOther` and `ResponseTimeout` those through the response loop;
`RejectFrame` is a frame the codec refuses and `IoFailure` a socket that ended.

Frames carry their kind, stream, flags and one number. A header block carries
its role (interim, final, trailers, malformed) instead of its fields. What the
client writes reaches the server's `ledger` at once and what the server writes
waits in `inbox`. Nothing is lost by the first half: the server may react as late
as it likes. The server respects its own flow control and GOAWAYs and is free
otherwise. `ledger` counts what a server knows: the credit it has granted and
used, bytes sent and read, and bytes the client dropped unread.

`srv.body` counts the bytes sent on the current stream; `OkIsWhole` compares it
with `resp.body`. `Frame` records also carry `sent` and `granted`, the server's
totals with that frame. The code has no such thing, and no action or checked
property reads them. They are history variables for the proof.

### Http1

The byte stream is a sequence of tokens: a header line, the rest of a header
section with its blank line, a chunk size line, a body byte, the text of a trailer
line, a CRLF. `Read` takes any prefix of what has arrived, up to its buffer, so a
read may end before or behind any token, also between a trailer line and its CRLF,
and may contain the end of one part and the start of the next. A read that ends
inside a token leaves what one before or behind it leaves.

`HeaderEnds` is `find_header_end`: two CRLF in a row end a header section, those
of a leftover trailer section too, with its last line or without it. `Parses` is
what httparse accepts: header lines, and blank lines in front of the status line.
A section that is a blank line alone (`Blank`) is no error to `execute_h1`, and has
status 0 and no headers. `ParseHead` decides the framing in the order of the code:
chunked, then Content-Length, then method and status. `ReadEnd` is a read of no
bytes, `ReadFails` one that returns an error; the server may close at any time, and
either may then happen.

The server answers requests in turn (`asked`, `SrvNext`), so a client that has taken
a blank line for a response may send the next request before the last is answered.
It chooses the framing, the length, `Connection: close` and trailers. `blank` is a
history: whether a blank line has passed for a header section on this connection.

### Client

`calls` holds the locals of `send` and `execute_single_with_method`, `conns` the
connections that exist and `pool` the map. `TakePooled` is the `remove` under the
lock. `new_connection` and `ConnectFails` are connection set-up. `Answered` and
`ExchangeFails` end an exchange; the second contains the retry of the HTTP/2 arm
and its absence in the others. `Store` is the `insert` and what `send` makes of
the response, because no await lies between them. `Cancel` drops the future.
`Apply` is the server acting on a request, which the properties about retries
need. A server that closes a connection appears as an exchange that fails
without `Apply`. A pooled connection may therefore be dead: `PooledIsReady` says
that it is between two exchanges, not that the server still keeps it.

An exchange here ends in a response or an error, or does not end; `Http1` and
`H2Connection` show what stands behind that.

### ClientConnect and TlsProfile

`Client` takes connection set-up for one step that succeeds or fails.
`ClientConnect` has it in stages: `Dial`, the CONNECT request (`DialProxy`),
`ReadByte` for the loop of `read_proxy_response`, `TlsDone`, and `Settings` for
the HTTP/2 handshake, whose frames are in `H2Connection`. Everything else of a
call is `Client`'s own action. `setup` holds the locals of each `new_connection`
and its stream: `rest` is what the proxy will send, `wire` what has arrived,
`buf` what was read. `ProxySends` moves any number of symbols, so the answer is
cut everywhere, and `ProxyCloses` ends it anywhere. `shown` is a history: for
which origin a tunnel was asked, and whose certificate was shown.

`TlsProfile` keeps of a profile what decides whether `build_connector` succeeds:
ciphers with a BoringSSL name, groups after `normalize_curve_name` with and
without the post-quantum ones, signature algorithms, ALPN. What the library knows
are constants. Profiles come from the presets, from JSON
(`from_tls_section`, which checks nothing) and from the checked `try_from`.

### Hpack, HpackPeer, HeaderChannel

`Hpack` translates `ChromeEncoder` and `StandardDecoder` with their loops,
including the static table with its real indices. A loop is a recursive function
of the number of turns (`Evict`, `encode`, `decode`) or, where few turns suffice,
the turns written out (`encode_int`, `decode_int`), with the body as an operator
of its own (`EvictOne`, `EncodeNext`, `DecodeNext`, `PutOctet`, `ReadMore`). A block is a sequence of
octets in which a string is one token. `HpackPeer` says the same things another
way: its table keeps the longest prefix that fits, a number is the sum of its
octets, and its encoder may choose any representation that the RFC allows. The
server uses it with a table as large as its own limit says. `handle_frame` in
`Hpack` is the drop of a header block during an upload; from then on the
abstract channel is "skewed" and may deliver anything.

The tables of the two ends can differ: the code's encoder takes no notice of
`SETTINGS_HEADER_TABLE_SIZE`. `IndicesAgree` says why that never turns one header
into another: the smaller table is a prefix of the larger, so an index either
means the same or is out of range. `RefusedOnlyWhenFull` says that the second
happens only to a server with a smaller table, after it has evicted.

### Session, CookieJar, CookieStore

A hop of a call has four steps: `Build` reads the cookies and assembles the
headers, `Answered` ends the exchange, `StoreCookie` stores one Set-Cookie line
under the mutex, and `Decide` follows the redirect. Other calls and the
application (`AddCookie`, `clear`) come between any two of them. Hosts and paths
are sequences of labels and pieces, so that suffix and prefix mean what they mean
in the code. Each Set-Cookie line has a value of its own (`stamp`). Headers are
known by name and by the source their value comes from.

`owed` and `due` are histories: the lines that earlier hops of a call have brought,
each with its URL, and which of them RFC 6265 means for the next URL. `Rfc6265`
tells that from the line and the two URLs alone, not from what `parse_set_cookie`
makes of them. The code departs from it, and the departures are named, not hidden.
`Excepted` lists where a cookie may be missing although the RFC means it:

- with a jar, a cookie set over https is taken for Secure (`cookie_jar.rs:140`) and
  not sent to a URL without TLS;
- a default path keeps its last slash (`cookie_jar.rs:138`), so the cookie is not
  sent to the directory itself;
- a Path is lowered (`cookie_jar.rs:147`), so one in capitals does not match its own
  URL, and one without a leading slash matches nothing;
- an empty Domain, which the RFC ignores, makes a cookie for no host, or for those
  with a last dot (`cookie_jar.rs:147-151, 170`);
- the legacy map knows hosts only, and drops lines of more than 4096 octets.

`Replaces` says when a cookie takes another's place. It is the RFC's rule, name,
domain and path, with two tolerances that have the same causes: paths that are one
slash apart, and paths that are empty, relative or in capitals. `HopCarriesCookies` fails in the
run as soon as any of these exceptions or tolerances is left out.

### ProxyPool

`select` is one action per outcome. `SelectProxy(k)` returns the proxy of turn k
of the loop, `SelectExhausted` is the error after `len` turns. `IndexAfter` is
the index after k turns, with the wrapping arithmetic of the code modulo
`WordSize`. The low bits of that generator do not depend on the high ones, so a
word of 4 or 8 bits, with the multiplier and increment taken modulo it, gives
exactly the low bits of the real index. For numbers of proxies that divide the
word the model computes the code's positions. `tunnels` are proxies that were
selected and not yet reported on. `streak` and `waiting` are histories for the
properties.

## Runs

Passing runs (states are distinct states):

| run | module | states | shows |
|---|---|---|---|
| `H2ConnectionCore` | H2Connection | 1.3 million | flow control, PING, GOAWAY, whole responses, over two requests |
| `H2ConnectionLive` | H2Connection | 8,500 | handshake and request return; windows agree and Ok ends the exchange with early answers, trailers and later SETTINGS |
| `ProxyRotation` | MCProxyPool | 830,000 | selection, blacklisting and reports |
| `Http1Exchange` | Http1 | 215,000 | framing under cuts between tokens, reuse, termination |
| `ClientCalls` | MCClient | 280,000 (up to symmetry) | two calls share the pool |
| `ClientConnect` | MCConnect | 405,000 | tunnel, TLS and HTTP/2 set-up under one call with two redirects; refinement of `Client` |
| `HpackTables` | MCHpack | 1.5 million | both compression tables against the RFC; two refinements of `HeaderChannel` |
| `SessionCookies` | MCSession | 3.2 million (up to symmetry) | cookies of concurrent calls against RFC 6265, sources of headers, refinement of `CookieStore` |

What each property says stands above its definition. The ones that carry most:

- `ReceiveWindowsAgree`: the client's receive window equals what the server may
  still send, plus what is in flight, plus what the client dropped. Double
  counting on either side breaks it at once.
- `NoReceiveStall`: the client never waits on an empty socket while the server
  has no credit left, on the connection or the stream. With it, the half-window
  rule of the code is safe. It is about servers that answer when the request has
  ended: DATA that an upload drops is never given back.
- `OkIsWhole`: Ok carries the response header section and as body all the bytes the
  server sent on this stream, none of an earlier one. `WholeResponse` says the same
  of HTTP/1.1, but for a body that the server's close cut short, and for
  connections on which a blank line has passed for a header section.
- `OkEndsExchange`: Ok leaves no frame of the answer behind, with early answers,
  trailers and split header blocks too, so the next request reads its own answer.
- `AppliedAtMostTwice`: a server acts on a request a second time only if the hop
  began on a pooled connection, and never a third time.
- `RequestsArrive`, `ResponsesArrive`: header lists are decoded to what was
  encoded, at both ends, or the connection breaks.
- `NothingSwallowed`: the octets behind the proxy's header stay for TLS.
- `LeadsToOrigin`: after any redirect, retry or reuse a call's connection was
  asked of the proxy, and authenticated, for the call's own origin.
- `HopCarriesCookies`: a hop carries what the hops before it were given and RFC
  6265 means for it, but for the exceptions above.
- `SuppliedWins`: the caller's headers win over the defaults and these over the
  profile's, for every name that any of them has; for the hints and the cookies it
  says what the code does instead.
- `ExhaustedMeansNoneHealthy`, `NoProxyStarves`: the rotation neither misses nor
  starves a healthy proxy.

Runs that end in a violation, each of something the repository says:

| run | what the repository says | what the code does |
|---|---|---|
| `H2EarlyResponse` | `h2/connection.rs:24,26`, the response's headers and body | frames of the stream that arrive during the upload are dropped and Ok is returned |
| `ProxyRandomMiss` | `proxy/rotation.rs:60,85`, error when all are blacklisted | the random turns repeat positions and miss a healthy proxy |
| `Http1HeadHangs` | `client/lib.rs:931`, "HEAD, 204, 304 → no body by spec." | an announced length is waited for all the same |
| `Http1TrailerCut` | `client/lib.rs:807-808`, `keep_alive` "indicates whether the connection can be returned to the pool" | the blank line of a trailer section stays on a pooled connection and is taken for the next response, with status 0; HEAD returns Ok with it |

`ProxyRandomMiss` uses an 8-bit word, in which three proxies do not divide the
word, as they do not divide 2^64. The real generator does the same: from seed 0
with three proxies its positions are 1, 1, 1, 0, 1, 0, 1, 0, 2, 0, 1, 1, ... With
0 and 1 blacklisted, a `select` that meets three turns of 0 and 1 fails although
2 is healthy.

### Bounds

- `H2ConnectionCore`: windows of 2 to 4 units, frames of at most 2, an upload of
  3 and responses of up to 5 bytes in all. So an upload needs several chunks and
  waits for credit, a response crosses the half-window mark of both levels more
  than once, and windows overflow (`MaxWindow` = 3). Two requests fit, with a
  third refused for lack of identifiers. `MaxCtl` bounds control frames on the
  connection to 2 (PINGs are not counted), `MaxInbox` the frames in flight to 2:
  enough for an update to overtake a chunk and for a GOAWAY behind a response.
  `EarlyResponse`, `Trailers` and `LaterFrameSizes` are off here, since the code
  mishandles them; the live run has them on.
- `H2ConnectionLive`: one request of 2 bytes with a window of 1, one control
  frame. Every wait and every timer is reached.
- `ProxyRotation`: `MaxIndex` stops round robin after three full rounds.
  `MaxTunnels` leaves two tunnels per proxy unreported, so that their reports may
  arrive after the blacklisting and in both orders.
- `Http1Exchange`: bodies of 0, 1 and 3 bytes with reads of 2 tokens; a header
  limit of 1 token with 4 lines, so that the limit is met and passed; three
  requests. `Http1TrailerCut` needs only two, of GET and HEAD.
- `ClientCalls`: two calls, two origins, one redirect each, four connections,
  which is as many as can exist at once. Requests are POSTs, which is the harder
  case: a GET never changes its method.
- `ClientConnect`: one call with two redirects, so that a 303 can precede a 307,
  and one configuration each: without a proxy, behind proxies with and without
  credentials, on port 80 too; with profiles that connect, that fall back from
  post-quantum groups and that fail; with and without certificate checks. Headers
  of at most 5 symbols, and answers of 2 to 6, so that the limit is met and
  passed. Calls share no state during set-up, so one suffices for it;
  `ClientCalls` has the interleavings.
- `HpackTables`: the sizes of fields are 40 and 70, ours tables 110 and the
  server's 60 to 160: two or three entries, entries that fit exactly, and one
  larger than a whole table. Two requests of three fields and three blocks of one
  field, each in every encoding. The encoder's and the decoder's table have a
  limit of 65536 in the code; what matters is that it is met. Garbage comes alone
  in the queue, so that it is its own block that breaks the connection.
- `SessionCookies`: two calls with one redirect each, two Set-Cookie lines in
  all, three URLs on two hosts of one domain, of which one is not https: a path,
  its directory, and the directory in capitals. Responses with no, one or two lines,
  with an empty Domain or Path, without a name, too long; the application's cookie
  has the name of the servers'.

Deadlock is checked everywhere. A dropped connection stutters explicitly
(`Dropped`, `Rest`).

### Fairness

- `H2Connection`: weak fairness of `ClientStep`, because the executor polls a
  task whose socket is ready; weak fairness of the read timers, because tokio
  fires an armed timer; strong fairness of the handshake timer, because its
  deadline is absolute: frames disable it for a moment and do not move it.
  Nothing is assumed of the server. `RequestReturns` needs the premise that PINGs
  stop, `HandshakeReturns` only that the socket runs empty again and again. That
  is the difference between a timer per frame and a deadline.
- `Http1`: weak fairness of the client. There is no timer at all in this code, so
  `ExchangeReturns` is about servers that have answered or closed.
- `ClientConnect`: the task is polled, and the timers of tunnel, TLS and HTTP/2
  handshake fire. The dial without a proxy has no timer in the
  code; that it ends is the system's own TCP timeout. Nothing is assumed of proxy
  or server. `ClientImplemented` shows that this is all `Client` assumes.
- `Client`: weak fairness of each call outside an exchange, which includes that
  set-up ends. The pool's mutex is fair and held across no await. An exchange need
  not end: HTTP/1.1 reads have no timeout. `SendReturns` therefore has the premise
  that the call's exchanges do (`[]<>(calls[c].pc # "exchange")`), and is about
  set-up, the redirect loop and the retry, not about a silent server.

## Proofs

`H2ConnectionProofs` proves, for all constants that satisfy the assumptions of
`H2Connection`, and so for all window sizes, servers, bodies and queue lengths:

- `TypeCorrect`: `Spec => []TypeOK`, including that the send windows stay between
  0 and 2^31-1;
- `WindowsAgree`: `Spec => []ReceiveWindowsAgree`;
- `CreditNeverExceeded`: `Spec => []UploadWithinCredit`.

The assumptions are `WindowAssumption` (the windows are numbers, the initial send
window is legal, the frame sizes are ordered), `LimitAssumption` and
`PeerAssumption` (increments are positive, sizes are numbers).

The argument. The properties speak of bytes in flight, a sum over the queue, and
a sum needs an induction the provers cannot do. So every frame carries the
server's totals up to itself, and `Linked` says that each frame picks up where
the one before stopped, the first where the client stopped reading and the last
where the server stopped sending. Removing the head and appending a frame then
change one link. Around it:

- `StreamsInOrder`: frames belong to the current stream or an earlier one, and
  the frame that ends the current stream is the last that carries bytes;
- `Quiet`: between requests nothing is in flight, which is what lets a new stream
  start with a full window on both sides;
- `Windows`: the equations of the connection's windows and the bound
  `ConnRecvMax - recv_window <= ConnRecvMax \div 2` that the top-up restores;
- `StreamWindows`: the same for the stream, as long as nothing was dropped.

`IInv` is their conjunction. `Inductive` proves `Spec => [](TypeOK /\ IInv)`, one
lemma per group of actions: types, then links, then streams, then windows.
`CreditIsLeft` derives `NoReceiveStall` from the bounds, the equations and `Linked`
on an empty queue, as long as nothing was dropped; `WaitsWithCredit` below says
when that is so. `UploadWithinCredit` follows from `send_window >= 0` and
`credit = send_window + granted - taken`.

`H2ExchangeProofs` proves of the same module, from the same assumptions and
`Inductive`:

- `NoPingSkipped`: `Spec => []PingsAnswered`;
- `GoAwayIsKept`: `Spec => NoStreamBeyondGoAway`, an action property;
- `ChunksFitFrame`: `Spec => UploadFitsFrame`, likewise, if `LaterFrameSizes` is `{}`;
- `OkStandsForAll`: `Spec => []OkIsWhole`, without `EarlyResponse` and `Trailers`:
  the body is all that the server sent on the stream;
- `OkStandsForAllButTrailed`: without `EarlyResponse`, `Spec => []OkIsWholeOrTrailed`:
  with trailers, all of `OkIsWhole` but that the headers may be the trailers;
- `NextRequestStartsClean`: `Spec => []OkEndsExchange`, for every server;
- `WaitsWithCredit`: `Spec => [](NothingDropped /\ NoReceiveStall)`, without
  `EarlyResponse`: no byte of a response is dropped, and client and server never
  wait for each other.

The premises are the runs' own and these theorems are false without them: the code
drops a second SETTINGS frame, drops a response that begins during the upload
(the run `H2EarlyResponse`), and takes trailers for a second header section. The
argument is about frames in the queue once more. `GoAwayLinked` says that the
last GOAWAY in the queue, or the stored one when there is none, is the server's
last word. `SettingsLinked` says the same of the frame size. `AnswerInOrder` lists
what may still lie in the queue at each stage of the response (one header section,
then the data, perhaps trailers, then nothing) and `OkIsLast` what Ok therefore
leaves behind.

`AnswersEnd` is what remains of that order for a server that answers early or
sends trailers, whose frames an upload may have dropped in part. `EndsLast`: the
frame with END_STREAM is the last HEADERS or DATA. `BlocksWhole`: after a frame
that closes a header block, and after DATA, CONTINUATION comes only behind new
HEADERS, and the same goes for what the server still owes. Together they say of
the frame on which the call returns that nothing follows it.

`Http1Proofs` proves, for all limits, read sizes, bodies and any number of
requests, from the assumptions of `Http1`:

- `HeadBounded`: `Spec => []TypeOK`, with the bound on a header section;
- `OkIsTheResponse`: `Spec => []WholeResponse`, if `InterimStatuses` is `{}`;
- `PooledIsAligned`: `Spec => []AlignedWhenKept`, likewise.

The premise is there because the code takes a 1xx response for the final one
(see "Not modelled"): without it the theorems are false. They are false as well
of a connection on which a blank line passes for a header section
(`Http1TrailerCut`), and both properties except those by name. So the
invariant is `Sound`: types always (`States`), and until then `Framed`,
`WholeResponse` and `Alone`, that the server has the current request and no other.
A read moves the cut between what is read and what is on its way, so the invariant
`Framed` is about the two as one stream. Every token says what must follow it
(`HeadRule`, `ChunkRule`, `LastRule`), which stays true of whatever is left when a
part is used, and `Counted` says that the DATA in the body, in the stream and
still to be sent make the announced length. At each stage of the parser
`InHead`, `InSize`, `InChunk` or `InPlain` says where in the message the stream
begins, and `Kept` that nothing but the end of a last chunk precedes the next
request.

`ClientProofs` proves, for any number of calls, origins and connections, any
redirect limit and all methods (from `ClientAssumption`: there is an origin, and
`NoConn` is not a connection):

- `TypeCorrect`: `Spec => []TypeOK`;
- `ConnectionsExclusive`: `Spec => []Exclusive`;
- `LeadsRight`: `Spec => []RightOrigin`;
- `PoolReady`: `Spec => []PooledIsReady`;
- `AppliedTwice`: `Spec => []AppliedAtMostTwice`;
- `MethodsKept`: `Spec => []MethodKept`.

The argument. These properties are about who owns a connection, and an action
does one of four things to it: the call lets go of what it has (`Release`), gets
one that nobody has (`Gain`: from the pool or new), keeps it (`Keep`), or puts it
back and drops the entry it replaces (`PutBack`). One lemma for each shows that
`IInv` survives, and a lemma per action shows which of them it is. Two parts of
`IInv` are not properties of the runs. `StoredIsReady`: the connection a call is
about to put back is ready, since `PooledIsReady` alone says nothing of it yet.
`Attempts`: how often a request may have been applied depends on whether the call
is exchanging, connecting again or starting, and `AppliedAtMostTwice` alone does
not exclude a third time.

`ClientConnectProofs` proves, for any answers of a proxy, setups, profiles and
numbers of calls, from `ClientAssumption` and `ConnectAssumption`:

- `ImplementsClient`: `ConnectSpec => Spec`, the refinement of `Client` step by
  step: set-up in stages begins nothing, ends in `new_connection` or
  `ConnectFails`, and stutters in between;
- `ConnectMethodsKept`: what the refinement is for. `MethodKept` and the exclusive
  ownership of connections, proved of `Client`, hold here;
- `SetupsTyped`: `ConnectSpec => []ConnectType`;
- `NothingLost`: `ConnectSpec => []NothingSwallowed`;
- `SetupLeadsToOrigin`: `ConnectSpec => []LeadsToOrigin`.

The invariant `CInv` adds to `Client`'s own what each set-up has read and sent
(`Setups`: up to TLS, what was read, what has arrived and what is to come make the
proxy's answer, and the end of its header has been read exactly when the loop
stops) and what each connection has shown (`Sights`: a connection that a call or
the pool holds was asked for, and authenticated, for the origin `Client` says it
leads to). The fairness half of `ClientImplemented` is only model-checked.

`SessionProofs` proves, for any number of calls, any URLs, Set-Cookie lines,
header lists and sequences of builder calls, from `SessionAssumption` (URLs, lines
and headers are records of their kind; hosts are not empty and paths begin with a
slash; the profile's names, its hints, `sec-ch-ua` and `cookie`, which the code has
as literals, are different):

- `SessionTyped`: `Spec => []TypeOK`, with the jar's keys distinct;
- `CookiesAreCarried`: `Spec => []HopCarriesCookies`, against RFC 6265 with the
  exceptions of `Excepted` and the tolerances of `Replaces`;
- `SuppliedHeadersWin`: `Spec => []SuppliedWins`, for every name;
- `JarImplementsStore`: `Spec => JarIsAStore`, the whole refinement of
  `CookieStore`, which has no fairness.

The argument has two halves. What `retain`, `filter`, `insert` and `append` make
of a list are lemmas about recursive functions (`RetainedEntries`: which entries
remain, and that distinct keys stay distinct; `BuiltHeaders`), by counting up to
the length of the list (`CountUp`, from well-foundedness). On these rest
`JarAdds`, the set of cookies after a line, and `HeadersSupplied`, where the
values of a name come from in the list a request carries. `MeantMatches` says that
what the RFC means and `Excepted` does not except, the jar's own test of domain and
path lets through, and `SameKey` that a cookie the jar replaces is replaced in the
sense of `Replaces`. The other half is the
invariant about the calls: every cookie that is owed is stored, in the jar or
among the pairs of its host (`Stored`), and a call in an exchange carries what was
built for it (`CallCarries`). An action either leaves the cookies alone
(`OneCall`) or changes them and the debts together (`CookiesChange`). `TypeOK`
alone says nothing of debts, and `HopCarriesCookies` speaks only of calls in an
exchange: neither survives a step by itself.

`HpackProofs` proves, for any fields and weights, header lists, encodings, size
updates and server limits, and any number of requests and blocks:

- `TypeCorrect`: `Spec => []TypeOK`;
- `IndicesAlwaysAgree`: `Spec => []IndicesAgree`;
- `RefusesOnlyWhenFull`: `Spec => []RefusedOnlyWhenFull`;
- `RequestsRefine`: `Spec => RequestsArrive`, and
- `ResponsesRefine`: `Spec => ResponsesArrive`, both refinements of
  `HeaderChannel`, which has no fairness.

The assumptions are those of the modules. `WeightAssumption` has every weight
positive (the code adds 32). `FieldsAssumption` lets any value come with any name.
`ListsAssumption` keeps `Garbage` apart from header lists. `SizesAssumption` bounds
the cap of our tables by 65536 and our table by the cap, `ServersAssumption` the
server's encoder by what our SETTINGS announce; the server's decoder may have any
limit. The cap is what bounds an index: three turns of `encode_int` and four
octets after the first hold one.

The argument goes from the parts to the whole:

- *Tables.* Evicting until a field fits leaves the longest prefix that fits, so
  `insert` and `set_max` make what `Kept` says (`Fit`, `SoundTables`), and a
  prefix of a table that is cut again is the prefix of a smaller limit.
- *Numbers.* `Spells` says what octets stand for a number. `encode_int` and
  `PeerInt` both write such octets, and `decode_int` and `IntValue` both read them
  as that number.
- *Fields.* Whatever a field was written as, an index or a literal with or without
  indexing (`Written`), reading it at its place in a block (`Shown`) yields the
  field and ends at the next one, if the two tables agree on the index (`Means`).
- *Blocks.* `Follows` relates the server's table to the encoder's: the one with the
  smaller limit is a prefix of the other, and a server that has evicted nothing
  has all that the encoder has. `Covers` says that the decoder's table has a limit
  no smaller than the server's encoder and begins with its entries. Both survive every field (`PeerAfter`, `After`), hence every
  block, by counting up to its length. The server may stop at an index it no
  longer has, and then its table has evicted (`PeerGaveUp`), which is
  `RefusedOnlyWhenFull`.
- *Steps.* `IInv` adds to these the blocks on their way: `ServerFollows` says what
  the one block to the server was written from, and `DecoderCovers` that the
  server had a table before and after each block to the client (`Between`), the
  first of which the decoder covers and the last of which the server now has.
  `IndicesAgree` speaks only of empty queues and does not survive a step alone.

`ProxyPoolProofs` proves, from `PoolAssumption`:

- `PoolTyped`: `Spec => []TypeOK`, for either strategy and any word;
- `BlacklistExact`: `Spec => []BlacklistedExactly`, if no URL is in the list twice
  (`Distinct`). Without that premise it is false, since a report goes to the first
  entry with the URL (`PositionFinds` is where it is used);
- `ExhaustedExact`: `Spec => []ExhaustedMeansNoneHealthy`, and
- `EveryProxyHasItsTurn`: `Spec => []NoProxyStarves`, for round robin with an index
  that does not wrap (`Counts`).

`Counted` says that the code's `failures` is the streak. For the rotation the
invariant is `InTurn`: a proxy that has been passed over for `waiting` selections
is at most `len - waiting` turns ahead of the index, so its turn comes before it
has waited a round. `Counts` leaves out the wrap of a 64-bit counter, which no
process reaches and at which a number of proxies that does not divide 2^64 would
skip once, and the random strategy. There the turns repeat positions
(`ProxyRandomMiss`) unless the number of proxies divides the word and the
generator has full period, which is number theory and left to the run.

Only model-checked:

- all liveness and the fairness half of `ClientImplemented`: the provers do not
  reason about fairness;
- the four runs that end in a violation, which are counterexamples.

## Where the code differs from its comments

Besides the four runs above, the models show three differences that no run is about:

- The comment at `client/lib.rs:595-597` has profile headers added only when nobody
  supplies the key. sec-ch-ua-mobile and -platform look at sec-ch-ua alone: without
  it, they go beside the caller's own and in place of a default one. `SuppliedWins`
  says so.
- `client/lib.rs:674` has "fallback to new on error". Only a pooled HTTP/2
  connection is replaced; `ExchangeFails` returns the error of a pooled HTTP/1.1 one,
  also if the server had closed it and never saw the request.
- `client/lib.rs:327` offers a Firefox fingerprint. Its groups include ffdhe2048 and
  ffdhe3072, which BoringSSL refuses, and the fallback of `build_connector` keeps
  them: `build_connector(firefox151)` is FALSE in `TlsProfile`, and every call of
  such a client fails in `StartTls`.

## Not modelled

- The byte layout of frames, padding, and the Huffman table: data without
  control. What the codec refuses is one kind of frame, `invalid`.
- Huffman coding and the octets of strings in HPACK: the table is data, and a
  string is one token. HEADERS larger than the peer's frame size, which the code
  sends in one frame.
- Expiry of cookies: the code reads neither Max-Age nor Expires, so a cookie that
  a server deletes stays. SameSite likewise. Hosts that are addresses, and the public suffixes.
- Decompression, and the accessors of header maps.
- GREASE, ALPS, certificate compression, TLS versions and the order of
  extensions: data for BoringSSL.
- The encoding of proxy credentials. `ClientBuilder::proxy` as modelled writes
  the URL of a proxy with credentials anew and loses port 80, and every call of
  that client is refused; a second `proxy` without credentials keeps those of
  the first.
- `ClientBuilder::default()` has a redirect limit of 0, and a browser shortcut
  sets it to 10 again after `no_redirect`: assignments, not modelled.
- A request deadline: the builder's timeout (`client/lib.rs:425`) is stored and
  never read. A peer's smaller initial stream window, which the code ignores
  (`h2/connection.rs:193`).
- Write buffering below `write_all`.
- Reads of HTTP/1.1 that end inside a CRLF or a number, apart from what the tokens
  on either side stand for; header sections with more than 128 fields.
- 1xx responses over HTTP/1.1: `InterimStatuses` is `{}` in the runs. The code
  takes one for the final response, and `WholeResponse` fails with
  `{"interim"}`.
- Two proxies with one URL in a pool, whose reports all go to the first.

`PROJECT.json` lists every hazard with its line and the properties that cover
it; those without one are the work list.

## Plan

Every safety property of the passing runs has a theorem, `OkEndsExchange` for every
server and `OkIsWhole` and `NoReceiveStall` for those that answer after the request.
What is left is a server that answers early: which frames of the answer the upload
drops, what Ok then carries, and when the dropped DATA exhausts the credit.
