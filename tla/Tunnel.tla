------------------------------- MODULE Tunnel -------------------------------
(***************************************************************************)
(* The handlers that pass bytes on until someone stops (src/tunnel.go,     *)
(* src/handler.go, src/copy.go).  Tunnel.ServeProxy dials a target and     *)
(* gives both connections to TunnelRaw or to TunnelLine; Echo and EchoLine *)
(* send what a connection says back to it.                                 *)
(*                                                                         *)
(* Echo and TunnelRaw copy in goroutines that nothing waits for: each      *)
(* cancels the handler's context when it ends, and the handler closes the  *)
(* connections under them.                                                 *)
(*                                                                         *)
(* EchoLine and TunnelLine read with readLine: a select on the context, a  *)
(* Peek(1) under a deadline of one second, then bufio.Reader.ReadLine      *)
(* under what is left of that second.  ReadLine returns what it has,       *)
(* without an error, when a read fails before the end of the line.         *)
(* readLine takes what it gets for a line and extends it by the newline    *)
(* that ReadLine cut off: after a partial line that is a byte left in the  *)
(* buffer by an earlier read, and, if it is a carriage return, a second.   *)
(***************************************************************************)
EXTENDS Integers, Sequences, SequencesExt

CONSTANTS
  MaxLine,   \* the size of the buffer of a reader (8192)
  MaxSent,   \* bound on what the client, and the target, send by lines
  MaxRaw     \* bound on what each of them sends otherwise

ASSUME TunnelAssumption ==
  MaxLine \in Nat \ {0} /\ MaxSent \in [{"from", "to"} -> Nat] /\ MaxRaw \in Nat

Kinds   == {"Echo", "EchoLine", "TunnelRaw", "TunnelLine"}
Tunnels == {"TunnelRaw", "TunnelLine"}
ByLine  == {"EchoLine", "TunnelLine"}

Ends == {"from", "to"}

(* A byte of a line, the newline, and a byte nobody sent. *)
Bytes == {"x", "nl"}
Stale == "stale"

VARIABLES
  kind,   \* which handler it is
  ctx,    \* the context given to it: "live" or "done"
  inner,  \* the context that Echo and TunnelRaw derive from it
  pc,     \* what the goroutine of the handler does next
  sock,   \* our side of every connection
  peer,   \* the other side: "open", "eof" after its last byte, "reset"
  net,    \* what waits to be read from it
  copy,   \* what the goroutine that reads from an end does next
  held,   \* what it has read and not written
  side,   \* the end that readLine reads from
  line,   \* the line about to be written
  buf,    \* what every bufio.Reader has buffered
  high,   \* how much of every buffer was ever filled
  in,     \* history: all that every other side has sent
  out     \* history: all that was written to every end

lineVars == <<side, line, buf, high>>
copyVars == <<copy, held>>
vars == <<kind, ctx, inner, pc, sock, peer, net, copyVars, lineVars, in, out>>

(* Where the bytes read from e go. *)
Other(e) == IF kind \in Tunnels THEN CHOOSE o \in Ends : o # e ELSE e

(* Dialing the target; waiting for the context; in readLine; writing the   *)
(* line; the handler is back; ServeProxy is; netx.Server has closed from.  *)
Pc == {"dial", "wait", "select", "peek", "read", "write", "returned", "panicked",
       "server", "done"}

CopyPc == {"idle", "read", "write", "cancel", "exited"}

(* Echo starts its goroutine at once. *)
Start(k) == IF k \in ByLine THEN "select" ELSE "wait"
Copying(k) ==
  [e \in Ends |-> IF k = "TunnelRaw" \/ (k = "Echo" /\ e = "from") THEN "read" ELSE "idle"]

Init ==
  /\ kind \in Kinds
  /\ ctx \in {"live", "done"} /\ inner = "live"
  /\ pc = IF kind \in Tunnels THEN "dial" ELSE Start(kind)
  /\ sock = [e \in Ends |-> IF e = "from" THEN "open" ELSE "none"]
  /\ copy = IF kind \in Tunnels THEN [e \in Ends |-> "idle"] ELSE Copying(kind)
  /\ peer = [e \in Ends |-> "open"] /\ side = "from" /\ line = <<>>
  /\ high = [e \in Ends |-> 0]
  /\ LET none == [e \in Ends |-> <<>>]
     IN  net = none /\ held = none /\ buf = none /\ in = none /\ out = none

-----------------------------------------------------------------------------
(* The other sides, and the server. *)

(* A copy does not look at the bytes: it is enough that two in a row       *)
(* differ.                                                                 *)
MaySend(e) ==
  IF kind \in ByLine THEN Bytes ELSE {IF Len(in[e]) % 2 = 0 THEN "x" ELSE "nl"}

PeerSends(e) ==
  /\ peer[e] = "open" /\ sock[e] = "open"
  /\ Len(in[e]) < IF kind \in ByLine THEN MaxSent[e] ELSE MaxRaw
  /\ \E b \in MaySend(e) : /\ net' = [net EXCEPT ![e] = Append(@, b)]
                      /\ in' = [in EXCEPT ![e] = Append(@, b)]
  /\ UNCHANGED <<kind, ctx, inner, pc, sock, peer, copyVars, lineVars, out>>

PeerEnds(e) ==
  /\ peer[e] = "open" /\ sock[e] = "open"
  /\ \E how \in {"eof", "reset"} : peer' = [peer EXCEPT ![e] = how]
  /\ UNCHANGED <<kind, ctx, inner, pc, sock, net, copyVars, lineVars, in, out>>

Cancel ==
  /\ ctx = "live" /\ pc # "done" /\ ctx' = "done"
  /\ UNCHANGED <<kind, inner, pc, sock, peer, net, copyVars, lineVars, in, out>>

(* Nothing more can be read from e. *)
AtEnd(e) ==
  sock[e] = "closed" \/ peer[e] = "reset" \/ (peer[e] = "eof" /\ net[e] = <<>>)

-----------------------------------------------------------------------------
(* Tunnel.ServeProxy, and netx.Server around it. *)

DialOK ==
  /\ pc = "dial" /\ pc' = Start(kind)
  /\ sock' = [sock EXCEPT !["to"] = "open"] /\ copy' = Copying(kind)
  /\ UNCHANGED <<kind, ctx, inner, peer, net, held, lineVars, in, out>>

DialFails ==
  /\ pc = "dial" /\ pc' = "panicked"
  /\ UNCHANGED <<kind, ctx, inner, sock, peer, net, copyVars, lineVars, in, out>>

(* Mutant: ServeProxy does not close the connection it dialed. *)
ReturnKeepsTo ==
  /\ pc \in {"returned", "panicked"} /\ pc' = "server"
  /\ UNCHANGED <<kind, ctx, inner, sock, peer, net, copyVars, lineVars, in, out>>

(* The deferred to.Close() of ServeProxy. *)
Return ==
  /\ pc \in {"returned", "panicked"} /\ pc' = "server"
  /\ sock' = [sock EXCEPT !["to"] = IF @ = "open" THEN "closed" ELSE @]
  /\ UNCHANGED <<kind, ctx, inner, peer, net, copyVars, lineVars, in, out>>

ServerCloses ==
  /\ pc = "server" /\ pc' = "done"
  /\ sock' = [sock EXCEPT !["from"] = "closed"]
  /\ UNCHANGED <<kind, ctx, inner, peer, net, copyVars, lineVars, in, out>>

-----------------------------------------------------------------------------
(* tunnelRaw and echo, and their copies. *)

(* Mutant: the handler does not close from. *)
WaitDoneNoClose ==
  /\ pc = "wait" /\ (ctx = "done" \/ inner = "done")
  /\ pc' = "returned"
  /\ UNCHANGED <<kind, ctx, inner, sock, peer, net, copyVars, lineVars, in, out>>

(* <-ctx.Done(), then from.Close(). *)
WaitDone ==
  /\ pc = "wait" /\ (ctx = "done" \/ inner = "done")
  /\ sock' = [sock EXCEPT !["from"] = "closed"]
  /\ pc' = "returned"
  /\ UNCHANGED <<kind, ctx, inner, peer, net, copyVars, lineVars, in, out>>

CopyRead(e) ==
  /\ copy[e] = "read" /\ sock[e] = "open"
  /\ \E k \in 1..Len(net[e]) :
       /\ held' = [held EXCEPT ![e] = SubSeq(net[e], 1, k)]
       /\ net' = [net EXCEPT ![e] = SubSeq(@, k + 1, Len(@))]
  /\ copy' = [copy EXCEPT ![e] = "write"]
  /\ UNCHANGED <<kind, ctx, inner, pc, sock, peer, lineVars, in, out>>

CopyReadEnds(e) ==
  /\ copy[e] = "read" /\ AtEnd(e)
  /\ copy' = [copy EXCEPT ![e] = "cancel"]
  /\ UNCHANGED <<kind, ctx, inner, pc, sock, peer, net, held, lineVars, in, out>>

(* What a write moves from the copy to the other side. *)
Pass(e, k) ==
  /\ out' = [out EXCEPT ![Other(e)] = @ \o SubSeq(held[e], 1, k)]
  /\ held' = [held EXCEPT ![e] = SubSeq(@, k + 1, Len(@))]

CopyWrite(e) ==
  /\ copy[e] = "write" /\ sock[Other(e)] = "open" /\ peer[Other(e)] # "reset"
  /\ Pass(e, Len(held[e])) /\ copy' = [copy EXCEPT ![e] = "read"]
  /\ UNCHANGED <<kind, ctx, inner, pc, sock, peer, net, lineVars, in>>

(* A write that blocks in the middle is ended by the close. *)
CopyWriteFails(e) ==
  /\ copy[e] = "write" /\ (sock[Other(e)] = "closed" \/ peer[Other(e)] = "reset")
  /\ \E k \in 0..Len(held[e]) : Pass(e, k)
  /\ copy' = [copy EXCEPT ![e] = "cancel"]
  /\ UNCHANGED <<kind, ctx, inner, pc, sock, peer, net, lineVars, in>>

(* Mutant: the goroutine ends without canceling. *)
CopyCancelMissing(e) ==
  /\ copy[e] = "cancel"
  /\ copy' = [copy EXCEPT ![e] = "exited"]
  /\ UNCHANGED <<kind, ctx, inner, pc, sock, peer, net, held, lineVars, in, out>>

(* The deferred cancel(). *)
CopyCancel(e) ==
  /\ copy[e] = "cancel" /\ inner' = "done"
  /\ copy' = [copy EXCEPT ![e] = "exited"]
  /\ UNCHANGED <<kind, ctx, pc, sock, peer, net, held, lineVars, in, out>>

-----------------------------------------------------------------------------
(* readLine. *)

Goto(l) ==
  /\ pc' = l
  /\ UNCHANGED <<kind, ctx, inner, sock, peer, net, copyVars, lineVars, in, out>>

(* fatal(from, err). *)
Fatal ==
  /\ pc' = "panicked" /\ sock' = [sock EXCEPT !["from"] = "closed"]
  /\ UNCHANGED <<kind, ctx, inner, peer, net, copyVars, lineVars, in, out>>

(* Only the read of the client is given the context of the handler: the    *)
(* read of the target runs under context.Background().                     *)
Canceled == side = "from" /\ ctx = "done"

(* readLine returns the error of the context: it ends the handler quietly  *)
(* when the context was cancelled, and is fatal when its deadline passed.  *)
SelectDone ==
  pc = "select" /\ Canceled /\ (Goto("returned") \/ Fatal)

SelectDefault == pc = "select" /\ ~Canceled /\ Goto("peek")

HasLine == "nl" \in Range(buf[side])

(* A read that ReadLine, or Peek, needs. *)
MayRead ==
  \/ pc = "peek"
  \/ pc = "read" /\ ~HasLine /\ Len(buf[side]) < MaxLine

(* External: bufio.Reader.fill. *)
Fill ==
  /\ MayRead
  /\ \E k \in 1..Len(net[side]) :
       /\ Len(buf[side]) + k <= MaxLine
       /\ buf' = [buf EXCEPT ![side] = @ \o SubSeq(net[side], 1, k)]
       /\ net' = [net EXCEPT ![side] = SubSeq(@, k + 1, Len(@))]
       /\ high' = [high EXCEPT ![side] = IF @ < Len(buf'[side]) THEN Len(buf'[side]) ELSE @]
  /\ pc' = "read"
  /\ UNCHANGED <<kind, ctx, inner, sock, peer, copyVars, side, line, in, out>>

PeekTimeout == pc = "peek" /\ Goto("select")

(* The error of Peek is dropped; ReadLine will meet it again. *)
PeekFails == pc = "peek" /\ AtEnd(side) /\ Goto("read")

(* Nothing is buffered and the read fails, perhaps because the second has  *)
(* passed since.  The end of the client is no error.                       *)
ReadFails ==
  /\ pc = "read" /\ buf[side] = <<>>
  /\ \/ peer[side] = "eof" /\ side = "from" /\ Goto("returned")
     \/ Fatal

(* Mutant: what was read of the line so far is dropped. *)
ReadPartialDrops ==
  /\ pc = "read" /\ MayRead /\ buf[side] # <<>>
  /\ line' = <<Stale>>
  /\ buf' = [buf EXCEPT ![side] = <<>>] /\ pc' = "write"
  /\ UNCHANGED <<kind, ctx, inner, sock, peer, net, copyVars, side, high, in, out>>

(* A read fails in the middle of a line.  The line goes on by one stale    *)
(* byte, or by two if the first is a carriage return, which an earlier     *)
(* read must have left there.  A slice past the end of the buffer panics.  *)
ReadPartial ==
  /\ pc = "read" /\ MayRead /\ buf[side] # <<>>
  /\ \E k \in 1..2 :
       /\ (k = 2) => (high[side] > Len(buf[side]))
       /\ IF Len(buf[side]) + k <= MaxLine
          THEN /\ line' = buf[side] \o [i \in 1..k |-> Stale]
               /\ buf' = [buf EXCEPT ![side] = <<>>] /\ pc' = "write"
          ELSE /\ pc' = "panicked" /\ UNCHANGED <<line, buf>>
  /\ UNCHANGED <<kind, ctx, inner, sock, peer, net, copyVars, side, high, in, out>>

(* ErrLineTooLong. *)
ReadTooLong ==
  pc = "read" /\ ~HasLine /\ Len(buf[side]) = MaxLine /\ Fatal

FirstLine == SubSeq(buf[side], 1, SelectInSeq(buf[side], LAMBDA b : b = "nl"))

(* ErrNoPipeline: there is more in the buffer than the line. *)
ReadPipelined == pc = "read" /\ HasLine /\ buf[side] # FirstLine /\ Fatal

ReadWhole ==
  /\ pc = "read" /\ HasLine /\ buf[side] = FirstLine
  /\ line' = FirstLine /\ pc' = "write"
  /\ buf' = [buf EXCEPT ![side] = <<>>]
  /\ UNCHANGED <<kind, ctx, inner, sock, peer, net, copyVars, side, high, in, out>>

-----------------------------------------------------------------------------
(* echoLine and tunnelLine. *)

Write ==
  /\ pc = "write" /\ peer[Other(side)] # "reset"
  /\ out' = [out EXCEPT ![Other(side)] = @ \o line]
  /\ line' = <<>> /\ side' = Other(side) /\ pc' = "select"
  /\ UNCHANGED <<kind, ctx, inner, sock, peer, net, copyVars, buf, high, in>>

WriteFails == pc = "write" /\ peer[Other(side)] # "open" /\ Fatal

-----------------------------------------------------------------------------
HandlerNext ==
  \/ DialOK \/ DialFails \/ Return \/ ServerCloses \/ WaitDone
  \/ SelectDone \/ SelectDefault
  \/ Fill \/ PeekTimeout \/ PeekFails
  \/ ReadFails \/ ReadPartial \/ ReadTooLong \/ ReadPipelined \/ ReadWhole
  \/ Write \/ WriteFails

CopyNext(e) ==
  \/ CopyRead(e) \/ CopyReadEnds(e) \/ CopyWrite(e) \/ CopyWriteFails(e)
  \/ CopyCancel(e)

CopyOver(e) == copy[e] \in {"idle", "exited"}

Ended == pc = "done" /\ (\A e \in Ends : CopyOver(e)) /\ UNCHANGED vars

Next ==
  \/ \E e \in Ends : PeerSends(e) \/ PeerEnds(e) \/ CopyNext(e)
  \/ Cancel \/ HandlerNext \/ Ended

Spec == Init /\ [][Next]_vars

(* The handler runs, a dial ends, and a read of readLine ends after a      *)
(* second at the latest; a write of it has no deadline and ends because    *)
(* the other side reads.  A copy whose read or write can only fail fails:  *)
(* nothing makes the other sides of it read, write or leave, so that its   *)
(* write may block for as long as its connection is open.                  *)
FairSpec ==
  /\ Spec
  /\ WF_vars(HandlerNext)
  /\ \A e \in Ends :
       WF_vars(CopyReadEnds(e)) /\ WF_vars(CopyWriteFails(e)) /\ WF_vars(CopyCancel(e))

-----------------------------------------------------------------------------
(* Every byte comes from one of the other sides, or is stale, and no slice *)
(* of a buffer goes past its end (handler.go:101-134).                     *)
TypeOK ==
  /\ kind \in Kinds /\ ctx \in {"live", "done"} /\ inner \in {"live", "done"}
  /\ pc \in Pc /\ side \in Ends
  /\ sock \in [Ends -> {"none", "open", "closed"}]
  /\ peer \in [Ends -> {"open", "eof", "reset"}]
  /\ copy \in [Ends -> CopyPc]
  /\ line \in Seq(Bytes \cup {Stale}) /\ Len(line) <= MaxLine
  /\ buf \in [Ends -> Seq(Bytes)] /\ \A e \in Ends : Len(buf[e]) <= MaxLine
  /\ high \in [Ends -> 0..MaxLine]
  /\ net \in [Ends -> Seq(Bytes)] /\ held \in [Ends -> Seq(Bytes)]
  /\ in \in [Ends -> Seq(Bytes)] /\ out \in [Ends -> Seq(Bytes \cup {Stale})]

(* When ServeProxy is back it has closed what it dialed, and a raw tunnel  *)
(* or Echo has closed both; netx.Server closes the client of the others    *)
(* (tunnel.go:61, 98; handler.go:69, 97).                                  *)
EndsAreClosed ==
  pc \in {"server", "done"} =>
    /\ sock["to"] # "open"
    /\ \/ pc = "done" \/ kind = "Echo"
       \/ kind = "TunnelRaw" /\ sock["to"] = "closed"
       => sock["from"] = "closed"

(* One line is on its way at a time: while a line is written, or the       *)
(* answer to it awaited, the handler has read nothing beyond it from the   *)
(* client (handler.go:124-125, ErrNoPipeline).                             *)
OneLineInFlight ==
  (pc = "write" \/ side # "from") => buf["from"] = <<>>

(* What a handler has opened, closed and holds at every point of it: only  *)
(* a tunnel dials; Echo and a raw tunnel return with the client's end      *)
(* closed, and copy in goroutines that hold nothing while they read; the   *)
(* others alone have buffers and lines, and no line while they read one    *)
(* (tunnel.go:44-128, handler.go:52-134).                                  *)
Stages ==
  /\ kind \in ByLine =>
       /\ pc # "wait"
       /\ pc \in {"dial", "select", "peek", "read"} => line = <<>>
       /\ \A e \in Ends : copy[e] = "idle" /\ held[e] = <<>>
  /\ kind \notin ByLine =>
       /\ pc \notin {"select", "peek", "read", "write"} /\ line = <<>>
       /\ pc = "returned" => sock["from"] = "closed"
       /\ \A e \in Ends : buf[e] = <<>>
       /\ \A e \in Ends : copy[e] \in {"idle", "read"} => held[e] = <<>>
  /\ kind \in Tunnels /\ (pc = "dial" \/ (kind = "TunnelRaw" /\ pc = "panicked"))
       => sock["to"] = "none" /\ \A e \in Ends : copy[e] = "idle"
  /\ kind \notin Tunnels => pc # "dial" /\ sock["to"] = "none"
  /\ kind = "Echo" => pc # "panicked"

(* The buffers stay within their bounds and hold one line, and no          *)
(* connection is left open (tunnel.go:44-128, handler.go:60-134).          *)
SocketInv == TypeOK /\ EndsAreClosed /\ OneLineInFlight /\ Stages

(* The bytes of s that somebody sent. *)
Sent(s) ==
  LET sent[i \in 0..Len(s)] ==
        IF i = 0 THEN <<>>
        ELSE IF s[i] = Stale THEN sent[i - 1] ELSE Append(sent[i - 1], s[i])
  IN  sent[Len(s)]

(* However the reads are cut by the network and by the deadline, no byte   *)
(* that an end sends is lost, sent on twice or out of order: what was not  *)
(* sent on is what the handler held, in its line, copy or buffer, when it  *)
(* gave up, and what it had not read (handler.go:101-134, copy.go:10-26).  *)
BytesConserved ==
  \A e \in Ends :
    in[e] = Sent(out[Other(e)]) \o (IF side = e THEN Sent(line) ELSE <<>>)
              \o held[e] \o buf[e] \o net[e]

(* The goroutines that nobody waits for do not outlive the handler for     *)
(* ever, even one blocked in a write (tunnel.go:86-99, handler.go:60-70).  *)
CopiesEnd ==
  \A e \in Ends : pc = "done" ~> CopyOver(e)

(* Cancelling the context ends the handler, and so does the end of either  *)
(* of its copies (tunnel.go:69, 79, 89-98; handler.go:50, 68), but for a   *)
(* TunnelLine that waits for its target: the answer is read without the    *)
(* context (tunnel.go:120).                                                *)
TunnelStops ==
  (ctx = "done" \/ \E e \in Ends : copy[e] = "cancel")
    ~> [](pc = "done" \/ (kind = "TunnelLine" /\ side = "to"))

(* "ensures that no partial lines are read from the connection"            *)
(* (handler.go:50-51): a line that is about to be written is all there.    *)
WholeLines ==
  pc = "write" => Last(line) = "nl"
=============================================================================
