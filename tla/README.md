# A TLA+ verification of netx

netx is a Go library for programs that serve, proxy and forward network
connections. Package `netx` has the connection server, listeners, tunnels, echo
handlers, the PROXY protocol and the passing of connections between processes;
package `netx/httpx` has an HTTP server built on it, a reverse proxy, content
negotiation and coding, and handlers and transports that retry. This directory
models the parts that keep state or run concurrently, checks them with TLC on
small instances, and proves with TLAPS that they are safe for every value of their
constants: every invariant that a run checks and finds to hold is a theorem.

Paths below are relative to `src/`.

## 1. Inventory

| Component | State | Operations | What is hard |
|---|---|---|---|
| `netx.Server` (`server.go`) | listener, context, channels `conns` and `errs`, WaitGroup | `Serve`, `accept`, `serve` | three kinds of goroutines that stop in any order; unbuffered sends; a listener closed under `Accept` |
| `Listen` and `MultiListener` (`listen.go`) | listeners, channels `c`, `e`, `d`, `x`, `sync.Once` | `Listen`, `Accept`, `Close` | one address of several fails; `Close` drains channels that `Accept` also reads; several callers of both |
| `httpx.Server`, responses (`httpx/server.go`) | `responseWriter`, `chunkWriter`, `bufio.Writer` | `WriteHeader`, `Write`, `Flush`, `Hijack`, `close`, `reset`, `serveHTTP`, `ServeProxy` | calls in any order, panics, reuse by the next request, full buffers |
| `httpx.Server`, requests (`httpx/server.go`, `httpx/conn.go`) | `connReader` limit, deadlines, request context | `ServeConn`, `waitReadyRead`, `readRequest`, `Read` | timeouts in the middle of a request, shutdown, clients that leave |
| Retries (`httpx/retry.go`) | attempts, bytes of the body read, buffered failure | `RetryHandler.ServeHTTP`, `RetryTransport.RoundTrip` | what may be repeated; what of a failed attempt reaches the caller |
| Tunnels and echo (`tunnel.go`, `handler.go`, `copy.go`) | two connections, two copies, two contexts | `Tunnel.ServeProxy`, `tunnelRaw`, `echo` | goroutines nobody waits for, blocked in reads and writes |
| Line protocols (`handler.go`, `tunnel.go`) | readers and their buffers | `readLine`, `echoLine`, `tunnelLine` | lines cut by the network and by a deadline |
| PROXY protocol (`proxy.go`) | header buffer, rest of what was read | `ProxyProtocol.ServeConn`, `parseProxyProto`, `proxyProtoConn.Read` | headers cut anywhere, payload behind the header |
| Reverse proxy (`httpx/proxy.go`, `httpx/conn.go`, `httpx/proto.go`) | two connections, two copies, writer of the hijacked connection; the header sent on | `ServeHTTP`, `serveCONNECT`, `serveUpgrade`, `ConnTransport.RoundTrip`, `deleteHopFields`, `translateXForwarded` | failure of one of several steps, two layers of buffers, fields rewritten at every hop |
| Descriptor passing (`unix.go`) | descriptors of two processes, `closed` flag, messages in the socket | `SendUnixConn`, `SendUnixHandler`, `RecvUnixConn`, `RecvUnixListener` | several owners of one connection, a failure between two steps, full tables, a late `Close` |
| Negotiation and coding (`httpx/accept.go`, `media.go`, `encoding.go`, `quote.go`) | items of a field, nested writers, header of the response | `Negotiate`, `NegotiateEncoding`, `NewEncodingHandler`, `NewEncodingTransport` | malformed items, an unstable sort, nested layers, panics, quoting |

How they interact. `netx.Server` calls a `netx.Handler` for each connection:
`httpx.Server`, `Echo`, `EchoLine` and `Proxy` are such handlers, and
`ProxyProtocol` and `Tunnel` sit in front of others. The contract between the
server and a handler is the context: it is done when the server shuts down, and
the handler must then return. `httpx.Server` in turn calls an `http.Handler`;
`ReverseProxy`, `RetryHandler` and the encoding handler are three, and the proxy sends
requests on through an `http.RoundTripper` such as `RetryTransport`. A
`SendUnixHandler` of one process hands its connections to the `RecvUnixListener`
of another. A listener given to the server may be
a `MultiListener`, which is what `Listen` makes of a name with several addresses. A module models one side of such a contract and leaves
the other free: handlers, listeners, clients and backends do whatever their
interface lets them.

`PROJECT.json` lists every component, those that are not modelled too, and under
"hazards" what in this code is hard to test, each at its line.

## 2. Modules

| Module | Models | Checked by |
|---|---|---|
| `GracefulServer` | the abstract server: it takes connections, drains, stops | refined by `Server` |
| `Server` | `server.go` | `MCServer` |
| `ServerProofs` | theorems about `Server` | tlapm |
| `MultiListener` | `Listen` of several addresses and `MultiListener` of `listen.go` | `MCMultiListener` |
| `MultiListenerProofs`, `ResponseWriterProofs`, `UnixConnProofs`, `ReverseProxyProofs`, `TunnelProofs` | theorems about the modules they are named after | tlapm |
| `HTTPConnProofs` | theorems about what is read from a connection: `HTTPConn` and `ProxyProtocol` | tlapm |
| `WrapperProofs` | theorems about what wraps handlers and transports: `RetryChain` and `Negotiation` | tlapm |
| `ResponseWriter` | response side of `httpx/server.go` | `MCResponseWriter` |
| `HTTPConn` | request side of `httpx/server.go` and `connReader` | `MCHTTPConn` |
| `Retry`, `RetryHandler`, `RetryTransport` | the two halves of `httpx/retry.go` | through `RetryChain` |
| `RetryChain` | composes `RetryHandler` and, through `ReverseProxy.ServeHTTP`, `RetryTransport` | `MCRetryChain` |
| `Tunnel` | `Tunnel`, `TunnelRaw`, `TunnelLine`, `Echo`, `EchoLine`, `readLine`, `Copy` | `MCTunnel` |
| `ProxyProtocol` | `ProxyProtocol` of `proxy.go` | `MCProxyProtocol` |
| `ReverseProxy` | `httpx/proxy.go`, the upgrade's use of `ConnTransport` | `MCReverseProxy` |
| `UnixConn` | `unix.go`, between two processes | `MCUnixConn` |
| `Accept`, `Quote`, `Forward` | operators: the items of Accept fields, quoted strings, the header of a forwarded request | through `Negotiation` |
| `Negotiation` | `encoding.go`, and requests that go through the operators above | `MCNegotiation` |

Conventions. A goroutine is a program counter (`pc`, `aPc`, `sPc`, `copy[c]`...)
and one action per step that another goroutine can observe; what happens between
two such steps is one action. A rendez-vous on an unbuffered channel is one step
of both ends. A `select` with several ready cases is a disjunction. Deferred
calls are steps in the order Go runs them. `PROJECT.json` maps every definition
to its lines. A definition whose comment begins with "Mutant" is a faulty variant of
the definition that follows it, and is not part of any specification: putting
it in that place must break the property named in `PROJECT.json`.

### Server
The three kinds of goroutines of `Serve`. `recv` says which of the local
variables `conns` and `errs` are not nil, `armed` whether `done` is not; `join`
is the counter of the WaitGroup. A connection is queued in the backlog, open,
and then closed; closing the listener resets the queued ones. `Accept` returns
a connection, a temporary or a permanent error, or EOF. `GracefulServer` is what
a user of `Serve` relies on: a set `active` of connections taken and not yet
ended that grows only while accepting, shrinks by service to the end, and is
empty when the server stops.

### MultiListener
`Listen` opens its addresses one after another, and closes them again when one
fails; clients may connect meanwhile. Then there is one goroutine per listener, any
number of callers of `Accept` and `Close`, and the `sync.Once` that makes later
callers of `Close` wait for the first. For a name with one address `Listen`
returns the listener itself and there is no `MultiListener`.

### ResponseWriter
`serveHTTP` over successive requests of one connection. The handler is free:
any sequence of setting Content-Length, `WriteHeader`, `Write`, `Flush`,
`Hijack`, and then a return or a panic. The client is an HTTP parser (marked
external) that records whether what it is sent can be parsed. Bodies are
lengths; the buffer of the chunk writer has `B` = 3 bytes instead of 512, so that
slices below, at and above its size all occur. A declared length is a number, a
text that is none, or a number above the largest uint64: `ParseUint` returns an error
for both, but zero for the one and `MaxUint64` for the other, and `WriteHeader` keeps
what it returned. With `proxy` the connection
is served by `ServeProxy`, whose handler calls `serveHTTP` again.

### HTTPConn
The loop of `ServeConn` from the side of what is read. A request is a sequence
of segments; the buffered reader holds one, `limit` counts segments where
the code counts bytes. Time is the firing of a deadline, which may come together with
the segment that was waited for. A deadline that passes after the client has left has
the effect of one that passed just before, and is not an action of its own.

### RetryHandler, RetryTransport, RetryChain
Each of the first two is one loop, with the sub-handler or sub-transport free to
read the body, answer, fail or panic. `out` records what the client got, and from
which attempt. `RetryChain` instantiates both: its `RetryHandler` calls either a free
sub-handler, or a `ReverseProxy` whose transport is a `RetryTransport`. The two
share the method, the context and the body: what the inner loop reads, the outer
one counts. `sent` counts the requests that reached the backend.

### Tunnel
`kind` selects the handler. `Echo` and `TunnelRaw` copy in goroutines of their own
(`copy`), whose writes may block for as long as their connection is open;
`EchoLine` and `TunnelLine` run `readLine` in the goroutine of the handler. Bytes
are kept, in sequences of "x" and "nl", because the properties are about
which bytes go where. `ReadPartial` is what `bufio.Reader.ReadLine` does when its
read fails before the end of the line: it returns what it has without an error,
and `readLine` then extends the line by a byte, which is one left over from an
earlier read ("stale"). The context may end by a cancellation or by its deadline: the
line handlers return after the one and are `fatal` after the other.

### UnixConn
The process S runs a `SendUnixHandler` under `netx.Server`, the process R accepts
from a `RecvUnixListener`. Each has a table of descriptors from which the kernel
hands out the lowest free number, so that a close too many would hit somebody
else's connection. The inner handler of a `SendUnixHandler` may return or panic; after a
panic the connection is not sent, as nothing in `ServeConn` is deferred. `os.File` and `net.Conn` are records that remember whether
they were closed. A message in the socket holds on to its connection. A message
that comes when R has no free number loses its descriptor, which `RecvUnixFile`
takes for the end of the stream. Another program may put messages with no
descriptor, or with two, into the socket.

### Accept, Quote, Forward, Negotiation
`Accept` has tokens as numbers in the order of the strings, with "*" as zero; an item
of a field is what the parser tells apart about it. A quality is what `ParseFloat` makes of
it, infinity and NaN included. `sort.Sort` is any order that `Less` allows, and any order at
all when there is a NaN, which `Less` does not order. `Quote` works on sequences of the kinds of characters that the
code treats differently, one of them a byte that is not UTF-8: it is written as it is and
read back as U+FFFD; `Loop` is a loop of the code over the characters of a text,
with one turn of it (`Escape`, `Unescape`, `Scan`) as its parameter. In `Forward` a header gives every field its lines, and a line
is a list. `Negotiation` chooses in `Init` what a request is about (`mode`): a
handler that calls `Negotiate`; a handler behind one or two encoding handlers, whose
writers buffer and pass on when they like, and which may set a Content-Length, answer
without a body (204, 304, or to a HEAD) or panic; a parameter that is written and parsed again in front of another item;
a chain of reverse proxies.

### ProxyProtocol
The bytes of the connection are numbered, a header is its length and what
`parseProxyProto` tells apart about its content, and a read returns any number
of bytes it may. The lengths (14, 107, 256, and those of the addresses) are
those of the code. A header is made by `appendProxyProtoV1` or `appendProxyProtoV2` from
a source and a destination (`made`), of any IP version each or without an IP; or it is one that they do
not make: a line that a peer makes up, a header of version 2 with the length field that
the format has and this code does not (`FormatV2`), or an invalid one. Addresses are
their types: that a zone of an IPv6 address is not written and that the name of a unix socket is
cut at 108 bytes is left out, as are the additional fields (TLVs) of version 2.

### ReverseProxy
One request through `ServeHTTP`, and the tunnel it may become. `wbuf` is what
the writer of the hijacked connection holds, of size `WBuf` = 2.

## 3. Runs

| Run | Instance | Shows |
|---|---|---|
| `server` | 3 connections | the inductive invariant of the proofs (`Inv`); `Serve` returns only when all it started has ended (`GracefulReturn`), blocks no sender (`NoAbandonedSend`), reports no error of its own shutdown (`NoShutdownError`), implements `GracefulServer` (`AbstractSpec`), stops when cancelled (`CancelStops`), and hands over every connection it accepted (`AcceptedIsServed`) |
| `multilistener` | 2 listeners, 3 connections, 2 callers of each method | goroutines hold and count exactly (`DrainInv`); nothing is left behind by `Close`, or by a `Listen` that failed (`CloseIsComplete`), or delivered late (`NoLateDelivery`); `Listen` returns, `Close` returns to every caller and releases those of `Accept` (`CloseSettles`) |
| `response` | 2 requests, GET and HEAD, under `ServeConn` and `ServeProxy` | writes are counted, conserved and flushed (`BufferInv`); responses can be parsed unless the declared length is out of range (`NeverGarbled`) and are complete (`FirstIsAnswered`); a panic is visible (`AbortIsVisible`); a hijack is silent (`HijackIsSilent`) |
| `http_conn` | both timeouts present or absent | the limit is for headers only, requests are read at their boundaries, and shutdown cancels none (`LimitInv`); the connection of a silent client, or of one that left, is closed (`IdleStops`, `GoneStops`) |
| `retry` | 2 methods, limits -1, 0, 1 and 2 for each loop, the statuses 200, 404, 501, 502 and 503 | one attempt answers and a failure held back is written in the end (`AnswerInv`); an error is returned exactly when the last attempt failed, and the client of the proxy sees that outcome (`OutcomeInv`); through both loops nothing is repeated unsafely or too often (`NoUnsafeRetry`) |
| `tunnel` | the four handlers, lines of 3, 3 bytes from the client and 2 from the target | connections are closed and one line is in flight (`SocketInv`); no byte is lost (`BytesConserved`); goroutines end (`CopiesEnd`); either copy or the context ends the handler unless it waits for its target (`TunnelStops`) |
| `unix` | 2 connections and a foreign one, 2 descriptors in each process | every descriptor has one owner (`FDInv`); a connection is sent once, or closed, or its handler panicked, and nothing of it is left in S (`HandOver`); it leaves S and the socket (`Settles`) |
| `negotiation` | Accept fields of up to 3 items, Accept-Encoding fields of up to 2, one or two layers, texts of up to 4 characters, 2 proxies | a body is coded once, declared, and decoded to what was written (`CodingInv`) in a coding the client accepts best (`CodingIsAccepted`); the best match is chosen in any order unless a quality is NaN (`BestIsChosen`); parameters survive quoting but for bytes that are no UTF-8 (`ParamIntact`); proxies list their hops and drop what is for one hop (`HopsAreListed`) |
| `proxy_protocol` | the headers this code makes for every two types of addresses, those with a length field, invalid ones, and lines of 12 to 108 bytes; payloads of 0, 2 and 30 | however a header is cut, the payload and the source of one that this code makes are exact, with the exceptions listed below (`PayloadInv`), and the parser waits for nothing beyond it (`HeaderSettles`) |
| `reverse_proxy` | 4 methods, with and without Upgrade, 2 bytes per side | every request is answered, no connection stays open and the copies of a CONNECT are joined (`CleanReturn`); a CONNECT tunnel conserves (`TunnelInv`), delivers (`Delivered`) and ends (`TunnelEnds`) |
| `keep_alive` | 2 GET requests | violated: `reset` keeps `status`, so the second request of a connection gets no header |
| `partial_line` | that of `tunnel` | violated: a line cut by the deadline or by the end of the connection is taken for a whole one |

The invariant of each module whose name ends in `Inv` is the conjunction of its type
invariant and of named parts. In the modules of section 4 it is the inductive
invariant of the proofs, so that every run checks on its instance what the proofs
rest on; `CodingInv` is one together with `CodingIsAccepted`.

`keep_alive` and `partial_line` state what comments of the repository say, and TLC
shows an execution of the code that contradicts them; "findings" in
`PROJECT.json` quotes the lines. `keep_alive` bears on `response`: because the
second request of a connection is left without a header, `FirstIsAnswered` is stated of
the first one, and `NeverGarbled` and the others are checked over two.

### Where else the code departs from its comments
The models have these behaviours. Each is either the exception that a property
states, so that what remains of the property can be checked, or is outside
what the properties say.

| Code | Behaviour | Where it shows |
|---|---|---|
| `httpx/server.go:489` | `chunkWriter.Write` reports fewer bytes than it took, without an error, when the buffer was not empty | exception of `WriteCounts` (in `BufferInv`) |
| `httpx/server.go:186` | a handler that writes nothing leaves a chunked response without its end | exception of `FirstIsAnswered` |
| `httpx/server.go:335` | a response to HEAD has a body | `NeverGarbled` is of GET |
| `httpx/server.go:159` | under `ServeProxy` a chunked body is ended twice, and an aborted one is ended | `NeverGarbled` and `AbortIsVisible` are of `ServeConn` |
| `httpx/server.go:357, 396-429` | after a Content-Length above the largest uint64 `remain` is that number: `Write` sends body bytes without a header and clears the error | exception of `NeverGarbled` and of `Parsing` (in `BufferInv`) |
| `httpx/server.go:236` | a client that always has a request ready outlives the shutdown | `IdleStops` supposes `Quiet` |
| `httpx/server.go:125` | a body that is late for the read deadline is read as a request | `RequestsAreAligned` (in `LimitInv`) supposes no ReadTimeout |
| `httpx/conn.go:145` | the context of a request is not cancelled when its client leaves while the handler runs | comment of `GoneStops` |
| `httpx/retry.go:136` | `RoundTrip` returns a response beside its error | `ErrorIffFailure` (in `OutcomeInv`) is about the error |
| `tunnel.go:98` | `TunnelRaw` itself closes only one of its connections | `EndsAreClosed` (in `SocketInv`) is about the return of `Tunnel` |
| `tunnel.go:120` | `TunnelLine` ignores its context while its target is silent | exception of `TunnelStops` |
| `httpx/proxy.go:243-246, 290` | an upgrade loses the bytes that follow a 101 and holds back those that do not fill its writer | `Direct` in `TunnelConserves` (in `TunnelInv`) and `Delivered` |
| `httpx/proxy.go:109-117` | the decremented value is set as Max-Forward, and a request with zero is forwarded | actions only |
| `listen.go:51` | when one of several addresses fails `Listen` returns a nil listener and a nil error | actions only (`AbortEnds`) |
| `unix.go:97` | a receiver that is out of descriptors takes the next connection for the end of the stream and stops | `RecvFile`; `Settles` holds nevertheless |
| `unix.go:182-191` | a `SendUnixHandler` sends back what its handler leaves open when it returns; when it panics the connection is closed and not sent | exception of `HandOver` |
| `proxy.go:87-89, 261-268, 354` | "Version 1 and 2 are supported", but a header of version 2 is written without the length field of the format and parsed as if it had none: the addresses of a real one are misread, and its last two bytes given to the handler as payload | `FormatV2`; exception of `PayloadExact` (in `PayloadInv`) |
| `proxy.go:249-259` | the family is that of the source: a destination that has no such form is left out, and the parser takes as many bytes of the payload for it | exception of `PayloadInv` and `HeaderSettles` |
| `proxy.go:148, 212-228` | an address without an IP is written as `<nil>` in version 1, and as ports without a family in version 2, where the parser panics | exception of `RoundTrip` (in `PayloadInv`) |
| `proxy.go:276` | for a line below 14 bytes the parser waits for bytes of the payload | exception of `HeaderSettles` |
| `httpx/retry.go:128` | the responses of failed attempts are dropped with their bodies open | not modelled |
| `httpx/accept.go:129, 269` | an item with q=0 is chosen like any other if nothing better matches; a coding has no wildcard | `BestIsChosen` and `CodingIsAccepted` state the order only |
| `httpx/accept.go:323-326` | a quality of "nan" is NaN, and `Less` is then no order: the choice depends on the order of the field | exception of `BestIsChosen` and `CodingIsAccepted` |
| `httpx/quote.go:33-59, 95-130` | a byte that is not UTF-8 is written as it is and read back as U+FFFD | exception of `ParamIntact` |
| `httpx/encoding.go:64, 120-129` | an answer without a body is declared as coded, and a client that decodes fails on it | exception of `CodingInv` |
| `httpx/media.go:74` | a quoted value with a semicolon is refused | exception of `ParamIntact` |
| `httpx/encoding.go:130` | a Content-Length that the handler sets itself stays on a coded body | exception of `CodingInv` |
| `httpx/encoding.go:69` | the length of the request is cleared, not that of the decoded response | not modelled |
| `httpx/proto.go:84-86` | with several addresses in X-Forwarded-For the other X-Forwarded fields are deleted, not passed on | `translateXForwarded`; `HopsAreListed` is about the addresses |
| `httpx/proto.go:133` | of a field with several lines only the first is kept when a value is added | exception of `HopsAreListed` |
| `httpx/upgrade.go:65` | the fallback "*" of `UpgradeMux` is stored under a key that `Handler` never looks up | not modelled |
| `httpx/conn.go:146` | a backend that closes during the handshake, or at the end of the body of a refused upgrade, causes a call of a nil `cancel` | actions only |

### Bounds and why they are enough
The theorems of section 4 need none of these bounds: what they state holds for every
value of the constants that satisfies the assumptions named there.

- `Conns`: three connections let one be queued, one held by the accept goroutine
  and one be served at once; more only repeat these.
- `N` = 2 listeners and two callers of `Accept` and of `Close`: the interference
  is between pairs. No symmetry is used, so that liveness can be checked on the same
  instance.
- `B` = 3 with `Sizes` 0, 1, 2, 5: a write that is empty, fits, fills exactly and
  exceeds the buffer; `MaxBody` = 8 bounds the bytes of one response;
  `Lengths` 0 and 2 are under and over what is written. `MaxUint64` = 11 is more than
  all that is written, as the real one is.
- `MaxHeader` = 2 and `MaxFlight` = 3: headers below, at and above the limit, with
  another request behind.
- `MaxLine` = 3 and `MaxSent` = 3 for the client: a line that fits, fills and exceeds
  the buffer of 8192; two bytes of the target are an answer and a partial one.
  `MaxRaw` = 2: a byte in flight behind another one, in either direction.
- `NFds` = 2 in S and in R: enough to serve one connection and to duplicate it, so
  that a second one meets a full table at every step; a freed number is taken again
  by the next step.
- Two layers of coding, `MaxParts` = 2 and `MaxText` = 4: the inner layer meets a field
  that the outer one took or left; four characters are an escape, a quote and
  something on both sides. Two proxies: what the first one adds is what the second
  finds.
- `MaxBytes` = 2 with `WBuf` = 2: a byte that stays in the writer and one that fills
  it.
- `LineLengths` 12, 32, 107, 108: a line below the 14 bytes that are read first, an
  ordinary one and both sides of the limit;
  payloads below and above what one read returns with the header.

What configures a component rather than bounds it (`proxy`, `kind`, `mode`,
`readTimeout`, `idleTimeout`) is a variable that `Init` chooses and no action
changes, so that one run covers every configuration.

### Fairness
- `Server`: goroutines that can run do; a handler is only required to return once
  its context is done, which is the contract of `Handler`; clients, the owner of
  the context and an open listener owe nothing.
- `MultiListener`: `Accept` on a closed listener returns; `Close` runs. Nobody has
  to call `Accept`.
- `HTTPConn`: deadlines fire, the goroutine of the connection runs and handlers
  end. A client owes nothing; `Quiet`, the hypothesis of `IdleStops`, is a client that
  eventually sends nothing more.
- `Tunnel`: in a copy, reads and writes that can only fail do fail; a peer never
  has to read, so a write may block until its connection is closed. A read of
  `readLine` ends after its second; its write, which has no deadline, ends because
  the other side reads.
- `UnixConn`: both servers run. No handler has to return, and nobody has to close
  the socket.
- `ReverseProxy`: deadlines and timeouts fire, and peers that are there read what
  they are sent.
- `ProxyProtocol`: a read returns when there is something to read.

## 4. What is proved

The proofs are checked by TLAPS. Each proof module extends the module it is about;
its theorems are of the same specification (`Spec`, `ProxySpec`, `NegotiationSpec`)
and the same definitions that the runs check, without their bounds. The assumptions are the named `ASSUME`s of the modules, which TLC
evaluates on every run.

| Module | Theorem | Statement | For every |
|---|---|---|---|
| `ServerProofs` | `Invariance` | `Spec => []Inv` | finite set `Conns`, `NoConn` not in it (`ConnsAssumption`) |
| | `TypeCorrect` | `Spec => []TypeOK` | |
| | `JoinExact` | `Spec => []JoinCounts` | |
| | `SendsAreReceived` | `Spec => []NoAbandonedSend` | |
| | `ShutdownIsSilent` | `Spec => []NoShutdownError` | |
| | `ReturnIsGraceful` | `Spec => []GracefulReturn` | |
| | `Refinement` | `Spec => AbstractSpec` | |
| `MultiListenerProofs` | `Invariance` | `Spec => []DrainInv` | number `N` of listeners (`NAssumption`), any connections with a listener each (`HomeAssumption`), any callers |
| | `CloseCompletes` | `Spec => []CloseIsComplete` | |
| | `DeliveredIsFinal` | `Spec => NoLateDelivery` | |
| `ResponseWriterProofs` | `BuffersAgree` | `Spec => []BufferInv` | size `B` > 0 of the chunk buffer, any slices, lengths and numbers of requests and bytes (`BoundsAssumption`) |
| | `GetIsNeverGarbled` | `Spec => []NeverGarbled` | |
| | `AbortIsSeen` | `Spec => []AbortIsVisible` | |
| | `FirstHasAnswer` | `Spec => []FirstIsAnswered` | |
| | `HijackSilences` | `Spec => HijackIsSilent` | |
| `HTTPConnProofs` | `LimitInvariance` | `Spec => []LimitInv` | limit `MaxHeader` > 0 and any number of segments in flight (`BoundsAssumption`) |
| | `ProxyPayload` | `ProxySpec => []PayloadInv` | set of positive lengths of a line and of a read, and any payloads (`ProxyProtocolAssumption`) |
| `WrapperProofs` | `AnswerIsOfOneAttempt` | `Spec => []AnswerInv` | set of methods, of positive statuses, and of integers as limits (`RetryAssumption`) |
| | `OutcomeIsReported` | `Spec => []OutcomeInv` | |
| | `RetriesAreSafe` | `Spec => NoUnsafeRetry` | |
| | `CodingAccepted` | `NegotiationSpec => []CodingIsAccepted` | set of fields, of offers and of nested wrappers, bodies and texts of any length, headers of any lines, and hosts (`NegotiationAssumption`) |
| | `BodyReadBack` | `NegotiationSpec => []CodingInv` | |
| | `ChoiceIsBest` | `NegotiationSpec => []BestIsChosen` | |
| | `ParamsSurvive` | `NegotiationSpec => []ParamIntact` | |
| | `HopsListed` | `NegotiationSpec => []HopsAreListed` | |
| `UnixConnProofs` | `Invariance` | `Spec => []FDInv` | number of connections, and tables of any size (`UnixAssumption`) |
| | `HandOverIsComplete` | `Spec => []HandOver` | |
| `ReverseProxyProofs` | `TunnelInvariance` | `Spec => []TunnelInv` | size `WBuf` > 0 of the writer, and any number of bytes (`ReverseProxyAssumption`) |
| | `ReturnIsClean` | `Spec => []CleanReturn` | |
| `TunnelProofs` | `SocketInvariance` | `Spec => []SocketInv` | size `MaxLine` > 0 of a reader's buffer, and any number of bytes from each side (`TunnelAssumption`) |
| | `NoByteIsLost` | `Spec => []BytesConserved` | |

All proofs have the same shape: a lemma per action, or per part of the invariant, that
says what keeps it; an invariance theorem by `PTL`; and the properties from the
invariant. Action properties are proved of a step between two states that satisfy it.

### Server
None of these invariants is inductive alone. That `Serve` returns gracefully
rests on the WaitGroup: `Wait` returned, so `join` was zero, so (`JoinCounts`) no
serve goroutine is alive and the accept goroutine has exited, and (`Waited`) none
of this changes afterwards because only the select loop adds to `join`. That
no connection is left open needs to know where each one is: held by the accept
goroutine exactly when it is about to send it, owned by its serve goroutine
from then until that goroutine closed it, never queued behind a closed
listener. These facts are the parts of `Control`, which with the types, `JoinCounts` and `Waited`
make up `Inv`: `Holding`, `Dropped`, `Leaving`,
`Owned`, `Shutdown` and `Backlog`. `NoAbandonedSend` needs that the loop is left only
with an error received from, or with both channels closed by, the accept goroutine.
The counting lemmas say what adding or removing one member does to the
cardinality of the set of live goroutines, from `FiniteSetTheorems`. The refinement
shows, action by action, that a step of `Server` under `Inv` is a step of
`GracefulServer` or leaves `phase`, `active` and `ended` unchanged.

### MultiListener
`Close` closes `x` when it has counted `N` endings. That nothing is left behind then
needs that the count is exact (`DrainCounts`): a subset of the listeners with `N`
members is all of them. A connection cannot be queued behind a closed listener
(`Backlog`) nor held by a goroutine that has ended (`Holding`). `Listening` and
`Closing` say which listeners the two loops have reached. For a `Listen` that failed
the loop that closes runs from the first listener to the one that failed, and
`Listening` says that the ones still open are those it has yet to reach.

### ResponseWriter
The invariant relates the server to the client's parser, and the key to it is
`OneHeader`: since `reset` leaves `status` alone (the finding of `keep_alive`), only the
first request of a connection ever has a header and a body. So a header is written
to a client that has parsed nothing, and `Parsing` says from then on what the
parser waits for: another chunk, exactly `remain` bytes, or the next header (nothing is
said after a declared length that is out of range, where the parser is lost). `Stages`
has the error and the flags that go with a position in `serveHTTP`, and `InLoop` what
holds between two iterations of a `Write`. `NeverGarbled` is part of the
induction: a parser that has lost its place stays lost. A repair of `reset` would
keep the structure of the proof, with `r = 1` in `OneHeader` replaced by "the status was
set by this request".

### HTTPConn
That no body is read as a request needs the whole stream (`StreamIsAligned`): what the
client has sent, from the request being served through the buffer and the network to
what it sends next, alternates as a client sends it. The limit is counted with what is
buffered (`HeaderIsCounted`), because the first read of a header is done before the
limit is set.

### ProxyProtocol
The payload is exact because at every stage the array holds what has been read and
nothing else: the bytes behind the header end where the connection goes on
(`PayloadExact`). Where the handler starts to read is stated for every header
(`PayloadStart`): at the payload for one whose addresses are as long as the parser
expects, and where exactly otherwise. That the address comes back (`RoundTrip`) is not inductive: the loop
for a line and the loop for the rest of a header must be known to run on a header of
their own version, one of version 2 already found valid (`Recognised`). The proof has a lemma
per loop, and the bounds of a read (the length of a line, of a preamble, of an array)
are those of the code.

### RetryChain
The inductive invariant is that of both loops and of how they nest (`Nested`,
`SendsCount`). The proof showed that the bound first stated for `NoUnsafeRetry`, the
product of both maxima, is wrong for a negative `MaxAttempts`, which means one
attempt: `Attempts` says so, and the run has such a limit. The bound is nonlinear;
it rests on two lemmas on products.

### Negotiation
What is inductive is the type invariant (`NegotiationTypeOK`); the rest are facts about
what is computed, and each takes an induction over a field, a text or the proxies. The library's
induction theorems cannot be instantiated by the provers. An induction is therefore
either an argument about the least counterexample, which exists because the natural
numbers are well-founded (`LeastOf`), or one over sets: a set of texts that has the empty one,
and with a text every one longer by a character, has all (`TextInduction`).

- The coding: `NegotiateEncoding` gives a coding of the highest quality among those that
  are listed and offered, and a sorted list of items has it first whatever `sort.Sort`
  does with equal ones (`CodingAccepted`). With a NaN among the qualities no order is known, and
  only that the coding is listed and offered is left. `CodingInv` needs that theorem: the transport decodes
  only codings it asked for, so what it is sent must be one of these. That no part
  is lost (`BodyIsWhole`) follows from `CodedOnce`: with one writer at most, where the parts
  are is one concatenation.
- The choice of a type: in every order of a field that `Less` allows, the first item that
  matches an offer is the one that no other such item precedes, and there is only one,
  because `Less` orders any two items that differ if none has NaN as its quality. That an order of a field has the same items takes the
  pigeonhole principle, since it is defined as an injective reordering.
- The parameter: the loops that write, read and split a text are related by what the second
  and third do to one escaped character: read, it is the character it was, or what `Rune` makes of a byte (`UnescapeFacts`);
  split, it ends the quoted string neither behind itself nor between its two characters
  (`ScanFacts`, `KeepsEscape`). From there by `TextInduction`: what is written is read back
  (`ReadAgain`), split cuts behind it and nowhere within (`CutsBehind`), and a quoted string
  that a semicolon cuts off is refused, even if what is left ends in an escaped quote or in
  spaces (`BodyIsRefused`).
- The hops: `HopsAreListed` leaves implicit which line of Forwarded the first proxy
  found or made. With that line named (`Listed`), the first hop establishes it (`FirstHop`)
  and every later one extends it by its own element (`LaterHop`).

### UnixConn
A descriptor in use has an owner, and two owners never have the same one (`OneOwnerS`,
`OneOwnerR`). This is why the second, deferred `Close` of the duplicate is harmless
though its number may be taken again: the file remembers that it was closed. In S the
position of a goroutine tells which objects are open (`SendStages`). In R the
invariant needs what is in the socket: a connection is there, or in R, at most once
(`InTransit`), so that one that is received was not known before.

### ReverseProxy
`Stages` gives for every point of the handler the connections that are open and the
copies that run. The conservation of bytes needs that a copy holds a byte exactly
between a read and a write (`CopyHolds`). `CleanReturn` follows from `Stages`.

### Tunnel
That the ends are closed when `Tunnel` returns needs to know which handler closes what
before it returns (`Stages`): only a tunnel dials, `Echo` and `TunnelRaw` come back with
the client's end closed, and the other two leave it to `netx.Server`. `Stages` also says
where bytes cannot be, which the conservation of bytes is built on: a copy holds nothing
while it reads, a line reader has no line while it reads one. `BytesConserved` is stated of
every state, those after a failure too: what was not sent on is what the handler held when
it gave up, and what it had not read. The action lemmas (`BytesFill`, `BytesPass`...)
regroup one concatenation. Stale bytes are taken out of it by `Sent`, which is recursive;
that `Sent` of two sequences in a row is the concatenation of both (`SentConcat`), and what
it does to bytes and to stale bytes (`SentBytes`, `SentStale`), holds for sequences of any
length. What takes an induction is shown of the shortest sequence for which it would
fail, which exists because the natural numbers are well-founded (`Shortest`, from `WFMin`).

### Only model-checked
- Liveness: `CancelStops`, `AcceptedIsServed`, `CloseSettles`, `IdleStops`, `GoneStops`,
  `CopiesEnd`, `TunnelStops`, `Settles`, `HeaderSettles`, `TunnelEnds` and `Delivered`.
  Liveness under fairness is out of this prover's reach.
- `EveryIsAnswered` and `WholeLines`, which do not hold.

## 5. What is not modelled

- Header fields other than those that `Negotiation` and `Forward` name; the quoting of
  addresses in Forwarded, the guessing of a scheme from a port, and the table of token
  characters.
- The lengths of timeouts and backoffs. (The comments of `retry.go` speak of an
  exponential backoff; the code's is quadratic.)
- `WriteTimeout` other than as a connection that fails.
- The compression formats: a coded body is its parts and an end.
- `resolveListen`, which parses an address, and `ListenPacket`; `UpgradeMux`, whose
  operations are one critical section each; system calls (`proxy_linux.go`,
  `pair_linux.go`...), accessors and the test suites: see the notes in `PROJECT.json`.
- Half-closed connections: the end of either direction ends a tunnel, in the
  code and in the models.

## 6. Plan

Done: the server, `Listen` and the multi-listener, both sides of the HTTP server,
the retries and their composition, tunnels and line protocols, the PROXY
protocol, the reverse proxy and what it does to headers, descriptor passing,
content negotiation and coding; the proofs of section 4.

Next, in this order:
1. Shorter proofs of `ResponseWriter`, for the steps that change only the position.
2. An abstract specification of what `Listen` and `MultiListener` promise together (a
   listener that loses no connection), and the proof that they implement it.
3. A composition of `Server` and `HTTPConn`: a connection served by `httpx.Server`
   under the shutdown of `netx.Server`, and what a client that always has a request
   ready does to it.
4. The dispatch of `serveHTTP` (Expect, Upgrade) with `UpgradeMux`; `ConnTransport` on
   its own; `resolveListen`.
