------------------------------ MODULE HTTPConn ------------------------------
(***************************************************************************)
(* The request side of httpx.Server (src/httpx/server.go): the loop of     *)
(* ServeConn over the requests of one connection, with waitReadyRead,      *)
(* readRequest and the connReader (src/httpx/conn.go).  What is written in *)
(* answer is the subject of ResponseWriter; here a handler reads as much   *)
(* of the body as it likes and ends in one of the ways ServeConn tells     *)
(* apart.                                                                  *)
(*                                                                         *)
(* The client sends a stream of segments.  A request is any number of      *)
(* "part" segments, the "end" of the header, or "endBody" and a "body".    *)
(* Time is the firing of a read deadline.                                  *)
(***************************************************************************)
EXTENDS Integers, Sequences

CONSTANTS
  MaxHeader,     \* maxHeaderBytes, in segments
  MaxFlight      \* bound on the segments in flight

ASSUME BoundsAssumption ==
  MaxHeader \in Nat \ {0} /\ MaxFlight \in Nat \ {0}

VARIABLES
  readTimeout,   \* s.ReadTimeout is not zero
  idleTimeout,   \* s.IdleTimeout is not zero
  ctx,      \* the context given to ServeConn: "live" or "done"
  reqctx,   \* the context of the requests: "live" or "done"
  pc,       \* what ServeConn does next
  peer,     \* the client: "open" or "gone"
  sends,    \* what the client is in the middle of sending
  net,      \* the segments that were sent and not read
  buf,      \* the segment in the bufio.Reader, or "none"
  limit,    \* the limit of the connReader, -1 for none
  size,     \* how many segments the header being read has
  bodyLeft, \* the body of the request was not read to its end
  stray     \* a body was taken for a request

config     == <<readTimeout, idleTimeout>>
clientVars == <<peer, sends>>
others     == <<config, clientVars>>   \* what ServeConn never changes
vars == <<others, ctx, reqctx, pc, net, buf, limit, size, bodyLeft, stray>>

Segments == {"part", "end", "endBody", "body"}

(* In Peek, after its timeout, in http.ReadRequest, in the handler, in the *)
(* Copy that discards the body, returned.                                  *)
Pc == {"peek", "poll", "read", "handler", "discard", "closed"}

Init ==
  /\ readTimeout \in BOOLEAN /\ idleTimeout \in BOOLEAN
  /\ ctx \in {"live", "done"} /\ reqctx = "live" /\ pc = "peek"
  /\ peer = "open" /\ sends = "header" /\ net = <<>> /\ buf = "none"
  /\ limit = -1 /\ size = 0 /\ bodyLeft = FALSE /\ stray = FALSE

-----------------------------------------------------------------------------
(* The client, and the server it talks to. *)

Send(s) ==
  /\ peer = "open" /\ pc # "closed" /\ Len(net) < MaxFlight
  /\ IF sends = "header" THEN s # "body" ELSE s = "body"
  /\ sends' = IF s = "endBody" THEN "body" ELSE "header"
  /\ net' = Append(net, s)
  /\ UNCHANGED <<config, ctx, reqctx, pc, peer, buf, limit, size, bodyLeft, stray>>

Leave ==
  /\ peer = "open" /\ peer' = "gone"
  /\ UNCHANGED <<config, ctx, reqctx, pc, sends, net, buf, limit, size, bodyLeft, stray>>

Shutdown ==
  /\ ctx = "live" /\ ctx' = "done"
  /\ UNCHANGED <<reqctx, pc, others, net, buf, limit, size, bodyLeft, stray>>

-----------------------------------------------------------------------------
(* connReader.Read, called by the bufio.Reader when it is empty. *)

(* A segment is read and counted against the limit. *)
ReadOK ==
  /\ buf = "none" /\ limit # 0 /\ net # <<>>
  /\ buf' = Head(net) /\ net' = Tail(net)
  /\ limit' = IF limit > 0 THEN limit - 1 ELSE limit
  /\ UNCHANGED reqctx

(* The client is gone: the context of its requests is canceled. *)
ReadGone ==
  /\ buf = "none" /\ limit # 0 /\ net = <<>> /\ peer = "gone"
  /\ reqctx' = "done"
  /\ UNCHANGED <<buf, net, limit>>

(* The limit is reached: io.EOF, and the context is left alone. *)
ReadLimit ==
  /\ buf = "none" /\ limit = 0
  /\ UNCHANGED <<reqctx, buf, net, limit>>

(* A read that can never succeed. *)
ReadErr == ReadGone \/ ReadLimit

(* The deadline passes, perhaps as a segment arrives; a timeout is         *)
(* temporary and cancels nothing.                                          *)
ReadExpires ==
  /\ buf = "none" /\ limit # 0 /\ peer = "open"
  /\ UNCHANGED <<reqctx, buf, net, limit>>

-----------------------------------------------------------------------------
(* waitReadyRead *)

(* A byte is there: on to readRequest, which sets the limit. *)
PeekReady ==
  /\ pc = "peek" /\ buf # "none"
  /\ pc' = "read" /\ limit' = MaxHeader /\ size' = 0
  /\ UNCHANGED <<ctx, reqctx, others, net, buf, bodyLeft, stray>>

PeekFill ==
  /\ pc = "peek" /\ ReadOK
  /\ UNCHANGED <<ctx, pc, others, size, bodyLeft, stray>>

(* Mutant: every error is taken for a timeout. *)
PeekFailsRetries ==
  /\ pc = "peek" /\ ReadErr
  /\ UNCHANGED <<ctx, pc, others, size, bodyLeft, stray>>

PeekFails ==
  /\ pc = "peek" /\ ReadErr
  /\ pc' = "closed"
  /\ UNCHANGED <<ctx, others, size, bodyLeft, stray>>

PeekExpires ==
  /\ pc = "peek" /\ ReadExpires
  /\ pc' = "poll"
  /\ UNCHANGED <<ctx, others, size, bodyLeft, stray>>

(* Mutant: the context is not looked at. *)
PollIgnoresContext ==
  /\ pc = "poll"
  /\ \/ idleTimeout /\ pc' = "closed"
     \/ pc' = "peek"
  /\ UNCHANGED <<ctx, reqctx, others, net, buf, limit, size, bodyLeft, stray>>

(* After a second without a byte: the connection is idle for too long, or  *)
(* the server is shutting down, or the wait goes on.                       *)
Poll ==
  /\ pc = "poll"
  /\ \/ idleTimeout /\ pc' = "closed"
     \/ pc' = IF ctx = "done" THEN "closed" ELSE "peek"
  /\ UNCHANGED <<ctx, reqctx, others, net, buf, limit, size, bodyLeft, stray>>

-----------------------------------------------------------------------------
(* readRequest *)

ReadFill ==
  /\ pc = "read" /\ ReadOK
  /\ UNCHANGED <<ctx, pc, others, size, bodyLeft, stray>>

ReadFails ==
  /\ pc = "read" /\ (ReadErr \/ (readTimeout /\ ReadExpires))
  /\ pc' = "closed"
  /\ UNCHANGED <<ctx, others, size, bodyLeft, stray>>

ParsePart ==
  /\ pc = "read" /\ buf = "part"
  /\ buf' = "none" /\ size' = size + 1
  /\ UNCHANGED <<ctx, reqctx, pc, others, net, limit, bodyLeft, stray>>

(* Mutant: the limit stays for the body. *)
ParseEndKeepsLimit ==
  /\ pc = "read" /\ buf \in {"end", "endBody"}
  /\ bodyLeft' = (buf = "endBody")
  /\ buf' = "none" /\ size' = size + 1 /\ pc' = "handler"
  /\ UNCHANGED <<ctx, reqctx, others, net, limit, stray>>

(* The header is complete; the limit is dropped for the body. *)
ParseEnd ==
  /\ pc = "read" /\ buf \in {"end", "endBody"}
  /\ bodyLeft' = (buf = "endBody")
  /\ buf' = "none" /\ size' = size + 1 /\ limit' = -1 /\ pc' = "handler"
  /\ UNCHANGED <<ctx, reqctx, others, net, stray>>

(* The rest of an earlier body, taken for a header: it is malformed or,    *)
(* when it looks like a request, it is served.                             *)
ParseStray ==
  /\ pc = "read" /\ buf = "body"
  /\ buf' = "none"
  /\ \/ pc' = "closed" /\ UNCHANGED <<limit, size, stray>>
     \/ pc' = "handler" /\ stray' = TRUE /\ limit' = -1 /\ size' = size + 1
  /\ bodyLeft' = FALSE
  /\ UNCHANGED <<ctx, reqctx, others, net>>

-----------------------------------------------------------------------------
(* The handler, and what follows it. *)

(* The reads of the body, by the handler or to discard it. *)
BodyFill(at) ==
  /\ pc = at /\ bodyLeft /\ ReadOK
  /\ UNCHANGED <<ctx, pc, others, size, bodyLeft, stray>>

BodyRead(at) ==
  /\ pc = at /\ bodyLeft /\ buf = "body"
  /\ buf' = "none" /\ bodyLeft' = FALSE
  /\ UNCHANGED <<ctx, reqctx, pc, others, net, limit, size, stray>>

(* The handler sees the error and goes on. *)
HandlerReadFails ==
  /\ pc = "handler" /\ bodyLeft
  /\ ReadErr \/ (readTimeout /\ ReadExpires)
  /\ UNCHANGED <<ctx, pc, others, size, bodyLeft, stray>>

(* res.err is set, the request asked to close the connection, or a panic   *)
(* came too late: ServeConn returns.                                       *)
HandlerEndsConn ==
  /\ pc = "handler" /\ pc' = "closed"
  /\ UNCHANGED <<ctx, reqctx, others, net, buf, limit, size, bodyLeft, stray>>

HandlerReturns ==
  /\ pc = "handler" /\ pc' = "discard"
  /\ UNCHANGED <<ctx, reqctx, others, net, buf, limit, size, bodyLeft, stray>>

(* The body was read to its end. *)
DiscardEnds ==
  /\ pc = "discard" /\ ~bodyLeft
  /\ pc' = "peek"
  /\ UNCHANGED <<ctx, reqctx, others, net, buf, limit, size, bodyLeft, stray>>

(* The error of netx.Copy is ignored and the loop goes on. *)
DiscardFails ==
  /\ pc = "discard" /\ bodyLeft
  /\ ReadErr \/ (readTimeout /\ ReadExpires)
  /\ pc' = "peek" /\ bodyLeft' = FALSE
  /\ UNCHANGED <<ctx, others, size, stray>>

-----------------------------------------------------------------------------
Closed == pc = "closed" /\ UNCHANGED vars

Serving ==
  \/ PeekReady \/ PeekFill \/ PeekFails \/ PeekExpires \/ Poll
  \/ ReadFill \/ ReadFails \/ ParsePart \/ ParseEnd \/ ParseStray
  \/ BodyFill("discard") \/ BodyRead("discard")
  \/ DiscardEnds \/ DiscardFails

HandlerReads == BodyFill("handler") \/ BodyRead("handler") \/ HandlerReadFails

HandlerEnds == HandlerEndsConn \/ HandlerReturns

Next ==
  \/ \E s \in Segments : Send(s)
  \/ Leave \/ Shutdown \/ Serving \/ HandlerReads \/ HandlerEnds \/ Closed

Spec == Init /\ [][Next]_vars

(* The goroutine of the connection runs, deadlines fire and handlers end.  *)
FairSpec == Spec /\ WF_vars(Serving) /\ WF_vars(HandlerEnds)

-----------------------------------------------------------------------------
(* The limit of the connReader never falls below -1, the value that means  *)
(* no limit, and never skips zero (conn.go:128-143).                       *)
TypeOK ==
  /\ readTimeout \in BOOLEAN /\ idleTimeout \in BOOLEAN
  /\ ctx \in {"live", "done"} /\ reqctx \in {"live", "done"} /\ pc \in Pc
  /\ peer \in {"open", "gone"} /\ sends \in {"header", "body"}
  /\ net \in Seq(Segments) /\ Len(net) <= MaxFlight
  /\ buf \in Segments \cup {"none"}
  /\ limit \in -1..MaxHeader /\ size \in Nat
  /\ bodyLeft \in BOOLEAN /\ stray \in BOOLEAN

(* A header takes no more of the connection than the limit and the first   *)
(* read that found it (server.go:236, 258-275; conn.go:128-143).           *)
HeaderIsBounded == size <= MaxHeader + 1

(* The limit is only for headers: no body is ever cut by it                *)
(* (server.go:273-275; conn.go:129-132).                                   *)
LimitIsForHeaders == pc \in {"peek", "poll", "handler", "discard"} => limit = -1

(* The server's shutdown never cancels a request in flight: only a client  *)
(* that is gone does (server.go:75-81; conn.go:145-147).                   *)
InFlightCompletes == reqctx = "done" => peer = "gone"

(* Every request that is served was sent as a request: ServeConn reads     *)
(* headers at the boundary between two requests only, unless a ReadTimeout *)
(* may fire in a body, whose rest is then taken for a request              *)
(* (server.go:125-126).                                                    *)
RequestsAreAligned == ~readTimeout => ~stray

(* What was read of a header, what is buffered and what may still be read  *)
(* are together no more than the limit and the first read (server.go:236,  *)
(* 258-275).                                                               *)
HeaderIsCounted ==
  pc = "read" =>
    /\ limit >= 0
    /\ size + limit + (IF buf = "none" THEN 0 ELSE 1) <= MaxHeader + 1

(* A request is awaited or read only when no body is (server.go:125-126). *)
BodyIsPending == pc \in {"peek", "poll", "read"} => ~bodyLeft

(* What the client sent from the request being served on, in the request,  *)
(* in the buffer and in the network: a body comes right after the header   *)
(* that announces it, and nowhere else, unless the client is gone and all  *)
(* it sent was read (server.go:125-126, 236-275).                          *)
StreamIsAligned ==
  \/ peer = "gone" /\ buf = "none" /\ net = <<>>
  \/ LET awaited == IF buf = "none" THEN bodyLeft ELSE buf = "endBody"
     IN  /\ buf # "none" => (buf = "body" <=> bodyLeft)
         /\ net # <<>> => (net[1] = "body" <=> awaited)
         /\ \A j \in 1..(Len(net) - 1) : net[j + 1] = "body" <=> net[j] = "endBody"
         /\ sends = "body" <=> IF net = <<>> THEN awaited ELSE net[Len(net)] = "endBody"

(* The limit, the body and the context are those of one request: the limit *)
(* bounds every header and nothing else, no body is read as a header, and  *)
(* no timeout or shutdown ends a request (server.go:75-81, 125-126,        *)
(* 236-275; conn.go:128-147).                                              *)
LimitInv ==
  /\ TypeOK
  /\ HeaderIsBounded /\ LimitIsForHeaders /\ HeaderIsCounted
  /\ RequestsAreAligned /\ BodyIsPending /\ (~readTimeout => StreamIsAligned)
  /\ InFlightCompletes

(* Liveness, of FairSpec. *)

(* The client sends nothing more, after some time. *)
Quiet == <>[][\A s \in Segments : ~Send(s)]_vars

(* Once the server shuts down, the connection of a client that falls       *)
(* silent is closed, with or without an IdleTimeout (server.go:244-253).   *)
(* One that always has a request ready keeps its connection (236), and so  *)
(* does one that stops within a request when there is no ReadTimeout.      *)
IdleStops ==
  Quiet => (ctx = "done" /\ readTimeout ~> pc = "closed")

(* A client that is gone frees its connection as soon as no handler runs   *)
(* (server.go:240-242).  The handler is not told: nothing reads from the   *)
(* connection while it runs, and so nothing cancels its context.           *)
GoneStops == peer = "gone" ~> pc = "closed"
=============================================================================
