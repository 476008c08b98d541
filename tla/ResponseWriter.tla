--------------------------- MODULE ResponseWriter ---------------------------
(***************************************************************************)
(* The response side of httpx.Server (src/httpx/server.go): serveHTTP, the *)
(* responseWriter that a handler writes to, and its chunkWriter, over the  *)
(* requests that ServeConn reads from one connection.                      *)
(*                                                                         *)
(* The handler is supplied by the program: it may set Content-Length, call *)
(* WriteHeader, Write, Flush and Hijack in any order, return or panic.     *)
(* What is written goes through a bufio.Writer to a client that parses it  *)
(* as HTTP; the connection may break at any time.  Bodies are lengths.     *)
(***************************************************************************)
EXTENDS Integers

CONSTANTS
  MaxReq,    \* how many requests the client sends
  Methods,   \* the methods of its requests
  Proxies,   \* whether the connection is served by ServeProxy
  B,         \* the size of the chunkWriter's buffer
  Sizes,     \* the lengths of the slices given to Write
  Lengths,   \* the values a handler may set as Content-Length
  MaxUint64, \* the largest uint64, given by ParseUint for larger numbers
  MaxBody    \* bound on the bytes a handler writes in a response

ASSUME BoundsAssumption ==
  /\ MaxReq \in Nat /\ MaxBody \in Nat /\ B \in Nat \ {0}
  /\ Methods \subseteq {"GET", "HEAD"} /\ Proxies \subseteq BOOLEAN
  /\ Sizes \subseteq Nat /\ MaxUint64 \in Nat /\ Lengths \subseteq 0..MaxUint64

NoLength  == -1    \* the header has no Content-Length
BadLength == -2    \* it has one that is not a number
BigLength == -3    \* it has a number that is no uint64

Invalid == {BadLength, BigLength}

VARIABLES
  proxy,     \* the connection is served by ServeProxy, not by ServeConn
  r,         \* the number of the current request
  method,    \* its method
  pc,        \* where the goroutine of the connection is
  level,     \* how many calls of serveHTTP it is in
  length,    \* the Content-Length in the response header
  status,    \* res.status, "unset" for 0
  hasBody,   \* res.hasBody
  chunked,   \* res.chunked
  remain,    \* res.remain
  err,       \* res.err
  n,         \* res.cw.n
  closed,    \* the client asked to close the connection after it
  reqClose,  \* req.Close, as set by serveHTTP
  left,      \* len(b) in the loops of Write
  call,      \* the last Write: the bytes asked for, its results n and err
  given,     \* how many bytes of the response the chunkWriter took
  spoke,     \* the handler called WriteHeader, Write or Flush
  unsent,    \* the bufio.Writer holds bytes
  link,      \* "up", "down", or "failed" once the bufio.Writer saw it
  client     \* what the client makes of all that was written

reqVars   == <<proxy, r, method, closed, level, reqClose, spoke>>
resVars   == <<length, status, hasBody, chunked, remain, err, n>>
writeVars == <<left, call, given>>
outVars   == <<unsent, link, client>>
vars == <<pc, reqVars, resVars, writeVars, outVars>>

-----------------------------------------------------------------------------
(* Running the handler; in the loop of chunkWriter.Write or of a Write     *)
(* with a Content-Length; in the deferred call of serveHTTP, at res.close  *)
(* and at res.Flush; back in ServeConn; reading the next request; done.    *)
Pc == {"handler", "chunk", "direct", "close", "flush", "after", "next", "over"}

(* An informational status, one without a body (204, 304), another one. *)
Status == {"unset", "info", "empty", "body"}

Err == {"nil", "io", "badLength", "hijacked"}

WriteErr == Err \cup {"bodyNotAllowed", "contentLength"}

Call(asked, cn, ce) == [asked |-> asked, n |-> cn, err |-> ce]
NoCall == Call(0, 0, "nil")

-----------------------------------------------------------------------------
(* The client: an HTTP parser.  It wants a header, the next chunk or the   *)
(* rest of a body of known length; anything else it cannot parse.  What it *)
(* was is kept in garbled: the method of the request that this answers, or *)
(* that the handler had declared a length which is no uint64.              *)
Parser(w, l, b, a, g) ==
  [want |-> w, left |-> l, body |-> b, answered |-> a, garbled |-> g]

Client0 == Parser("header", 0, 0, 0, {})

Cause == IF length = BigLength THEN "bigLength" ELSE method

Garbled(c)  == Parser(c.want, c.left, c.body, c.answered, c.garbled \cup {Cause})
Complete(c) == Parser("header", c.left, c.body, c.answered + 1, c.garbled)

ParseHeader(c, st, len) ==
  IF c.want # "header" THEN Garbled(c)
  ELSE IF st = "info" THEN c
  ELSE IF method = "HEAD" \/ st = "empty" \/ len = 0 THEN Complete(c)
  ELSE IF len = NoLength THEN Parser("chunks", c.left, 0, c.answered, c.garbled)
  ELSE Parser("bytes", len, c.body, c.answered, c.garbled)

ParseChunk(c, k) ==
  IF c.want # "chunks" THEN Garbled(c)
  ELSE Parser(c.want, c.left, c.body + k, c.answered, c.garbled)

ParseEnd(c) == IF c.want # "chunks" THEN Garbled(c) ELSE Complete(c)

ParseBytes(c, k) ==
  IF c.want # "bytes" \/ k > c.left THEN Garbled(c)
  ELSE IF k = c.left THEN Parser("header", 0, c.body, c.answered + 1, c.garbled)
  ELSE Parser("bytes", c.left - k, c.body, c.answered, c.garbled)

(* A write to the bufio.Writer: it is kept, or sent with all that was kept. *)
Written(c) ==
  /\ link # "failed"
  /\ unsent' \in (IF link = "up" THEN BOOLEAN ELSE {TRUE})
  /\ client' = c
  /\ UNCHANGED link

(* writeChunk: an empty chunk is not written. *)
ChunkWritten(k) ==
  IF k = 0 THEN UNCHANGED outVars ELSE Written(ParseChunk(client, k))

(* A flush that reaches the client, after c was written. *)
Sent(c) ==
  /\ link = "up"
  /\ unsent' = FALSE /\ client' = c
  /\ UNCHANGED link

(* A write or a flush that fails; the bufio.Writer remembers it. *)
Failed ==
  /\ link # "up"
  /\ link' = "failed"
  /\ UNCHANGED <<unsent, client>>

-----------------------------------------------------------------------------
Init ==
  /\ proxy \in Proxies
  /\ r = 0 /\ method = "GET" /\ closed = FALSE /\ pc = "next" /\ level = 0
  /\ length = NoLength /\ status = "unset" /\ hasBody = FALSE
  /\ chunked = FALSE /\ remain = 0 /\ err = "nil" /\ n = 0
  /\ reqClose = FALSE /\ spoke = FALSE
  /\ left = 0 /\ call = NoCall /\ given = 0
  /\ unsent = FALSE /\ link = "up" /\ client = Client0

Break ==
  /\ link = "up" /\ link' = "down"
  /\ UNCHANGED <<pc, reqVars, resVars, writeVars, unsent, client>>

(* ServeConn reads a request and calls serveHTTP, which calls the handler: *)
(* the program's, or one that only sets a status when the request expects  *)
(* or upgrades what the server cannot.  ServeProxy's handler calls         *)
(* serveHTTP again.                                                        *)
StartRequest(m) ==
  /\ pc = "next" /\ r < MaxReq
  /\ r' = r + 1 /\ method' = m /\ closed' \in BOOLEAN /\ pc' = "handler"
  /\ level' = IF proxy THEN 2 ELSE 1
  /\ reqClose' = FALSE /\ spoke' = FALSE
  /\ given' = 0 /\ left' = 0 /\ call' = NoCall
  /\ UNCHANGED <<proxy, resVars, outVars>>

(* No more requests: waitReadyRead or readRequest fails. *)
NoRequest ==
  /\ pc = "next" /\ pc' = "over"
  /\ UNCHANGED <<reqVars, resVars, writeVars, outVars>>

-----------------------------------------------------------------------------
(* The responseWriter. *)

SetContentLength(len) ==
  /\ pc = "handler" /\ status = "unset" /\ length = NoLength
  /\ length' = len
  /\ UNCHANGED <<pc, reqVars, status, hasBody, chunked, remain, err, n,
                 writeVars, outVars>>

(* strconv.ParseUint: what it returns besides an error is kept too. *)
ParseUint(len) ==
  IF len = BadLength THEN 0 ELSE IF len = BigLength THEN MaxUint64 ELSE len

(* WriteHeader once it has a status to write. *)
SendHeader(st) ==
  /\ status' = st
  /\ hasBody' = (st = "body")
  /\ chunked' = (chunked \/ (st = "body" /\ length = NoLength))
  /\ n' = IF st = "body" /\ length = NoLength THEN 0 ELSE n
  /\ remain' = IF st = "body" /\ length # NoLength THEN ParseUint(length) ELSE remain
  /\ length' = IF st = "body" THEN length ELSE NoLength
  /\ IF st = "body" /\ length \in Invalid
     THEN err' = "badLength" /\ UNCHANGED outVars
     ELSE \/ Written(ParseHeader(client, st, length)) /\ UNCHANGED err
          \/ Failed /\ err' = "io"

(* Mutant: every call writes a header. *)
WriteHeaderAgain(st) == SendHeader(st)

(* WriteHeader does nothing when the status is set already. *)
WriteHeader(st) ==
  IF status = "unset" THEN SendHeader(st) ELSE UNCHANGED <<resVars, outVars>>

CallWriteHeader(st) ==
  /\ pc = "handler"
  /\ WriteHeader(st)
  /\ spoke' = TRUE
  /\ UNCHANGED <<pc, proxy, r, method, closed, level, reqClose, writeVars>>

(* Write, up to its loop; an error met earlier is returned at once. *)
CallWrite(k) ==
  /\ pc = "handler" /\ err = "nil" /\ given + k <= MaxBody
  /\ WriteHeader("body")
  /\ pc' = IF ~hasBody' THEN "handler"
           ELSE IF chunked' THEN "chunk" ELSE "direct"
  /\ left' = k
  /\ call' = Call(k, 0, IF hasBody' THEN "nil" ELSE "bodyNotAllowed")
  /\ spoke' = TRUE
  /\ UNCHANGED <<proxy, r, method, closed, level, reqClose, given>>

(* Write returns cn and ce, and keeps ce in res.err. *)
WriteReturns(cn, ce) ==
  /\ pc' = "handler" /\ err' = ce
  /\ call' = Call(call.asked, cn, ce)

(* The chunkWriter, if it is used, and the bufio.Writer are flushed.       *)
FlushBuffers ==
  \/ /\ Sent(IF chunked /\ n # 0 THEN ParseChunk(client, n) ELSE client)
     /\ n' = IF chunked THEN 0 ELSE n
     /\ UNCHANGED err
  \/ Failed /\ err' = "io" /\ UNCHANGED n

CallFlush ==
  /\ pc = "handler" /\ err = "nil"
  /\ IF status = "unset"
     THEN /\ SendHeader("body")
          /\ err' = "nil" => (unsent' = FALSE)
     ELSE /\ UNCHANGED <<length, status, hasBody, chunked, remain>>
          /\ FlushBuffers
  /\ spoke' = TRUE
  /\ UNCHANGED <<pc, proxy, r, method, closed, level, reqClose, writeVars>>

(* Hijack: the connection is the handler's from here on. *)
CallHijack ==
  /\ pc = "handler" /\ err = "nil"
  /\ \/ /\ IF chunked THEN ChunkWritten(n) /\ n' = 0
                       ELSE UNCHANGED <<n, outVars>>
        /\ status' = "info" /\ err' = "hijacked"
     \/ chunked /\ n # 0 /\ Failed /\ err' = "io" /\ UNCHANGED <<n, status>>
  /\ UNCHANGED <<pc, reqVars, length, hasBody, chunked, remain, writeVars>>

-----------------------------------------------------------------------------
(* One iteration of the loop of chunkWriter.Write, or its end. *)

ChunkDone ==
  /\ pc = "chunk" /\ left = 0
  /\ WriteReturns(call.n, "nil")
  /\ UNCHANGED <<reqVars, length, status, hasBody, chunked, remain, n, left,
                 given, outVars>>

(* Mutant: the count of the bytes is left as it was. *)
ChunkBypassUncounted ==
  /\ pc = "chunk" /\ left # 0 /\ left >= B - n /\ n = 0
  /\ \/ /\ Written(ParseChunk(client, left))
        /\ WriteReturns(call.n, "nil")
        /\ given' = given + left
     \/ Failed /\ WriteReturns(0, "io") /\ UNCHANGED given
  /\ UNCHANGED <<reqVars, length, status, hasBody, chunked, remain, n, left>>

(* Nothing is buffered and the rest fills the buffer: it is one chunk. *)
ChunkBypass ==
  /\ pc = "chunk" /\ left # 0 /\ left >= B - n /\ n = 0
  /\ \/ /\ Written(ParseChunk(client, left))
        /\ WriteReturns(left, "nil")
        /\ given' = given + left
     \/ Failed /\ WriteReturns(0, "io") /\ UNCHANGED given
  /\ UNCHANGED <<reqVars, length, status, hasBody, chunked, remain, n, left>>

(* Copy what fits; when bytes are left, flush the buffer. *)
ChunkFill ==
  /\ pc = "chunk" /\ left # 0 /\ ~(left >= B - n /\ n = 0)
  /\ LET m == IF left >= B - n THEN B - n ELSE left
     IN  /\ left' = left - m /\ given' = given + m
         /\ IF left' = 0
            THEN /\ n' = n + m
                 /\ call' = Call(call.asked, call.n + m, call.err)
                 /\ UNCHANGED <<pc, err, outVars>>
            ELSE \/ /\ Written(ParseChunk(client, n + m))
                    /\ n' = 0
                    /\ call' = Call(call.asked, call.n + m, call.err)
                    /\ UNCHANGED <<pc, err>>
                 \/ Failed /\ n' = n + m /\ WriteReturns(call.n + m, "io")
  /\ UNCHANGED <<reqVars, length, status, hasBody, chunked, remain>>

-----------------------------------------------------------------------------
(* One iteration of the loop of a Write with a Content-Length, or its end. *)

DirectDone ==
  /\ pc = "direct" /\ left = 0
  /\ WriteReturns(call.n, "nil")
  /\ UNCHANGED <<reqVars, length, status, hasBody, chunked, remain, n, left,
                 given, outVars>>

(* More bytes than declared: the error is returned and not kept. *)
DirectOverrun ==
  /\ pc = "direct" /\ left # 0 /\ remain = 0
  /\ pc' = "handler" /\ call' = Call(call.asked, call.n, "contentLength")
  /\ UNCHANGED <<reqVars, resVars, left, given, outVars>>

DirectWrite ==
  /\ pc = "direct" /\ left # 0 /\ remain # 0
  /\ LET m == IF left > remain THEN remain ELSE left
     IN  \/ /\ Written(ParseBytes(client, m))
            /\ call' = Call(call.asked, m, call.err)
            /\ left' = left - m /\ remain' = remain - m
            /\ UNCHANGED <<pc, err>>
         \/ Failed /\ WriteReturns(0, "io") /\ UNCHANGED <<left, remain>>
  /\ UNCHANGED <<reqVars, length, status, hasBody, chunked, n, given>>

-----------------------------------------------------------------------------
(* The end of serveHTTP, and ServeConn after it. *)

Return ==
  /\ pc = "handler" /\ pc' = "close"
  /\ UNCHANGED <<reqVars, resVars, writeVars, outVars>>

(* Mutant: the response is ended after a panic too. *)
PanicCloses ==
  /\ pc = "handler"
  /\ IF status = "unset"
     THEN SendHeader("body") /\ UNCHANGED reqClose
     ELSE reqClose' = TRUE /\ UNCHANGED <<resVars, outVars>>
  /\ pc' = "close"
  /\ UNCHANGED <<proxy, r, method, closed, level, spoke, writeVars>>

(* A panic before the header is a 500; after it the connection is dropped. *)
Panic ==
  /\ pc = "handler"
  /\ IF status = "unset"
     THEN SendHeader("body") /\ pc' = "close" /\ UNCHANGED reqClose
     ELSE /\ pc' = "after" /\ reqClose' = TRUE
          /\ UNCHANGED <<resVars, outVars>>
  /\ UNCHANGED <<proxy, r, method, closed, level, spoke, writeVars>>

(* Mutants: the end is not written; an error is no reason to stop. *)
CloseWithoutEnd ==
  /\ pc = "close" /\ pc' = "flush"
  /\ IF chunked /\ err = "nil"
     THEN \/ ChunkWritten(n) /\ n' = 0 /\ UNCHANGED err
          \/ Failed /\ err' = "io" /\ UNCHANGED n
     ELSE UNCHANGED <<n, err, outVars>>
  /\ UNCHANGED <<reqVars, length, status, hasBody, chunked, remain, writeVars>>

CloseIgnoresErr ==
  /\ pc = "close" /\ pc' = "flush"
  /\ IF chunked
     THEN Written(ParseEnd(client)) /\ UNCHANGED <<n, err>>
     ELSE UNCHANGED <<n, err, outVars>>
  /\ UNCHANGED <<reqVars, length, status, hasBody, chunked, remain, writeVars>>

(* res.close(): the buffered chunk and the empty one that ends the body. *)
Close ==
  /\ pc = "close" /\ pc' = "flush"
  /\ IF chunked /\ err = "nil"
     THEN \/ /\ Written(ParseEnd(IF n = 0 THEN client ELSE ParseChunk(client, n)))
             /\ n' = 0 /\ UNCHANGED err
          \/ Failed /\ err' = "io" /\ UNCHANGED n
     ELSE UNCHANGED <<n, err, outVars>>
  /\ UNCHANGED <<reqVars, length, status, hasBody, chunked, remain, writeVars>>

(* res.Flush() *)
EndFlush ==
  /\ pc = "flush" /\ pc' = "after"
  /\ IF err # "nil" THEN UNCHANGED <<resVars, outVars>>
     ELSE IF status = "unset"
     THEN /\ SendHeader("body")
          /\ err' = "nil" => (unsent' = FALSE)
     ELSE /\ UNCHANGED <<length, status, hasBody, chunked, remain>>
          /\ FlushBuffers
  /\ UNCHANGED <<reqVars, writeVars>>

(* The serveHTTP called by ServeProxy's handler returns to the outer one.  *)
EndInner ==
  /\ pc = "after" /\ level > 1
  /\ level' = level - 1 /\ pc' = "close"
  /\ UNCHANGED <<proxy, r, method, closed, reqClose, spoke, resVars, writeVars, outVars>>

(* The connection was hijacked or lost, or must not be used again. *)
EndConn ==
  /\ pc = "after" /\ level = 1 /\ (err # "nil" \/ closed \/ reqClose)
  /\ pc' = "over"
  /\ UNCHANGED <<reqVars, resVars, writeVars, outVars>>

(* res.reset(baseHeader): the status is not reset. *)
Reset ==
  /\ pc = "after" /\ level = 1 /\ err = "nil" /\ ~closed /\ ~reqClose
  /\ pc' = "next"
  /\ length' = NoLength /\ remain' = 0 /\ hasBody' = FALSE
  /\ chunked' = FALSE /\ n' = 0
  /\ UNCHANGED <<reqVars, status, err, writeVars, outVars>>

-----------------------------------------------------------------------------
Over == pc = "over" /\ UNCHANGED vars

HandlerNext ==
  \/ \E len \in Lengths \cup Invalid : SetContentLength(len)
  \/ \E st \in Status \ {"unset"} : CallWriteHeader(st)
  \/ \E k \in Sizes : CallWrite(k)
  \/ CallFlush \/ CallHijack \/ Return \/ Panic

WriteNext ==
  \/ ChunkDone \/ ChunkBypass \/ ChunkFill
  \/ DirectDone \/ DirectOverrun \/ DirectWrite

ServeNext ==
  \/ \E m \in Methods : StartRequest(m)
  \/ NoRequest \/ Close \/ EndFlush \/ EndInner \/ EndConn \/ Reset

Next == Break \/ HandlerNext \/ WriteNext \/ ServeNext \/ Over

Spec == Init /\ [][Next]_vars

-----------------------------------------------------------------------------
(* The buffer of the chunkWriter is never overfilled and remain, which is  *)
(* unsigned, never underflows (server.go:291, 402-426, 480-505).           *)
TypeOK ==
  /\ proxy \in Proxies /\ r \in 0..MaxReq /\ method \in {"GET", "HEAD"}
  /\ closed \in BOOLEAN
  /\ pc \in Pc /\ level \in 0..2
  /\ length \in Lengths \cup Invalid \cup {NoLength} /\ status \in Status
  /\ hasBody \in BOOLEAN /\ chunked \in BOOLEAN /\ err \in Err
  /\ remain \in 0..MaxUint64 /\ n \in 0..B
  /\ reqClose \in BOOLEAN /\ spoke \in BOOLEAN
  /\ left \in Nat /\ given \in 0..MaxBody
  /\ call \in [asked : Nat, n : Nat, err : WriteErr]
  /\ unsent \in BOOLEAN /\ link \in {"up", "down", "failed"}
  /\ client \in [want : {"header", "chunks", "bytes"}, left : Nat, body : Nat,
                 answered : Nat, garbled : SUBSET {"GET", "HEAD", "bigLength"}]

(* Whatever a handler calls, in whatever order, the client of a GET can    *)
(* parse what it gets: one header before any body, no more bytes than      *)
(* declared, nothing after the end of a response (server.go:326-548).      *)
(* Not so for a HEAD, which is answered with a body (335-337), nor under   *)
(* ServeProxy, where each serveHTTP ends the body (159, 186), nor after a  *)
(* Content-Length that is no uint64: ParseUint leaves MaxUint64 in remain  *)
(* (357), and a Write sends its bytes without a header and forgets the     *)
(* error (396-429).  A length that is no number leaves 0 and sends none.   *)
NeverGarbled == ~proxy => "GET" \notin client.garbled

(* No byte given to the chunkWriter is lost, repeated or out of place: it  *)
(* is in a chunk or still in the buffer (server.go:480-548).               *)
ChunksConserved == chunked /\ method = "GET" => given = client.body + n

(* A chunked response to a GET, cut short by a panic, is never ended       *)
(* properly, so the client can tell (server.go:175-183).  Not so under     *)
(* ServeProxy, where the outer serveHTTP has seen no panic and ends it     *)
(* (159, 186).                                                             *)
AbortIsVisible ==
  reqClose /\ chunked /\ method = "GET" /\ ~proxy => client.answered < r

(* ServeConn waits for the next request only when the response was sent    *)
(* entirely (server.go:187, 445).                                          *)
FlushedBeforeNext == pc = "next" => ~unsent

(* A handler that responded, with as many bytes as it declared, is back.   *)
Responded ==
  /\ pc = "after" /\ level = 1 /\ err = "nil" /\ ~reqClose
  /\ spoke /\ status # "info" /\ length \notin Invalid /\ remain = 0

(* The first request that a handler responded to is answered: the client   *)
(* has a whole response (server.go:186-187, 450-458).  A handler that says *)
(* nothing is not in this: the header comes from Flush, after close.       *)
FirstIsAnswered == Responded /\ r = 1 => client.answered = 1

(* Write counts the bytes it was given, unless it returns an error.  When  *)
(* the chunk buffer was filled first and the rest of the slice bypassed it *)
(* the count is that of the rest, less than one buffer short               *)
(* (server.go:394-432, 480-505).                                           *)
WriteCounts ==
  pc = "handler" /\ call.err = "nil" =>
    call.asked - call.n \in 0..(IF chunked THEN B - 1 ELSE 0)

(* In the loops of Write the count and the rest make up the slice; only    *)
(* the first bytes of a slice fill a buffer that was not empty             *)
(* (server.go:394-432, 480-505).                                           *)
InLoop ==
  /\ pc = "chunk" =>
       /\ call.err = "nil" /\ call.n + left = call.asked /\ given + left <= MaxBody
       /\ left # 0 => call.n = 0 \/ (n = 0 /\ call.n < B)
  /\ pc = "direct" =>
       /\ call.err = "nil"
       /\ IF left = 0 THEN call.n = call.asked
          ELSE remain = 0 \/ (left = call.asked /\ call.n = 0)

(* Nothing is written before the status is set. *)
NoHeaderYet ==
  /\ r = 0 => pc \in {"next", "over"} /\ status = "unset"
  /\ status = "unset" =>
       /\ r <= 1 /\ pc \in {"next", "handler", "close", "flush", "over"}
       /\ pc = "next" => r = 0
       /\ err = "nil" /\ ~hasBody /\ ~spoke /\ ~reqClose /\ given = 0
       /\ ~unsent /\ client = Client0

HeaderOfBody ==
  /\ hasBody => r = 1 /\ (status = "body" \/ err = "hijacked")
  /\ status = "body" /\ r = 1 => hasBody \/ pc \in {"next", "over"}
  /\ chunked => hasBody /\ length = NoLength
  /\ ~chunked => n = 0
  /\ hasBody /\ ~chunked => length # NoLength

(* A connection has one header: the status is set once and never reset, so *)
(* that from the second request on there is no body either                 *)
(* (server.go:298-348, 460-469).                                           *)
OneHeader == NoHeaderYet /\ HeaderOfBody

(* Where the goroutine of the connection is (server.go:87-190, 298-319).   *)
Stages ==
  /\ pc \in {"chunk", "direct"} =>
       hasBody /\ status = "body" /\ err # "hijacked" /\ (chunked <=> pc = "chunk")
  /\ pc = "next" => err = "nil" /\ ~hasBody /\ ~chunked /\ ~reqClose
  /\ err = "hijacked" => status = "info"
  /\ reqClose => proxy \/ pc \in {"after", "over"}
  /\ level > 1 => proxy
  /\ pc = "after" /\ err = "nil" /\ ~reqClose => ~unsent /\ link # "failed"

(* How far the client has parsed a chunked response to a GET.  One that it *)
(* has parsed to the end is followed by another end under ServeProxy only. *)
InChunks ==
  \/ client.answered = 0 /\ (client.want = "chunks" \/ link = "failed")
  \/ /\ client.answered = 1 /\ client.want = "header" /\ n = 0
     /\ pc \in {"flush", "after", "over"} \/ (pc = "close" /\ proxy)
     /\ reqClose => proxy

(* And one with a Content-Length: it waits for the bytes that remain.  No  *)
(* bytes may follow one that is no number, anything one that is no uint64. *)
InBytes ==
  \/ link = "failed"
  \/ length = BadLength /\ remain = 0
  \/ length = BigLength
  \/ remain = 0 /\ client.want = "header" /\ client.answered = 1
  \/ remain # 0 /\ client.want = "bytes" /\ client.left = remain /\ client.answered = 0

GetIsParsed == hasBody /\ method = "GET" => IF chunked THEN InChunks ELSE InBytes

HeadIsParsed ==
  hasBody /\ method = "HEAD" =>
    \/ link = "failed" \/ length \in Invalid
    \/ client.want = "header" /\ client.answered = 1

EmptyIsParsed == status = "empty" /\ r = 1 /\ err = "nil" => client.answered = 1

EndIsParsed ==
  chunked /\ method = "GET" /\ pc \in {"flush", "after"} /\ err = "nil" /\ ~reqClose /\ spoke
    => client.answered = 1

(* The client and the server agree on where they are in a response         *)
(* (server.go:175-187, 326-548).                                           *)
Parsing == GetIsParsed /\ HeadIsParsed /\ EmptyIsParsed /\ EndIsParsed

(* The counters and buffers of a response agree: they have their types, a  *)
(* Write is counted, its bytes are in a chunk or in the buffer, once, and  *)
(* nothing waits there while the next request is awaited (server.go:187,   *)
(* 394-548).                                                               *)
BufferInv ==
  /\ TypeOK /\ WriteCounts /\ ChunksConserved /\ FlushedBeforeNext
  /\ InLoop /\ OneHeader /\ Stages /\ Parsing

(* Every request of a connection that is kept is answered, not only the    *)
(* first (server.go:128, 460-469).                                         *)
EveryIsAnswered == Responded => client.answered # r - 1

-----------------------------------------------------------------------------
(* Action property: after Hijack the server writes nothing to the          *)
(* connection, which is the handler's (server.go:298-319).                 *)
HijackIsSilent ==
  [][err = "hijacked" => UNCHANGED <<err, client, unsent>>]_vars
=============================================================================
