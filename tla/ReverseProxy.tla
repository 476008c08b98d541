---------------------------- MODULE ReverseProxy ----------------------------
(***************************************************************************)
(* ReverseProxy.ServeHTTP (src/httpx/proxy.go): a request is answered,     *)
(* forwarded, or turned into a tunnel.  A CONNECT dials the target and     *)
(* copies both ways between the hijacked connection and the target.  An    *)
(* upgrade first sends the request on a connection of its own, through     *)
(* ConnTransport (src/httpx/conn.go), and becomes a tunnel if the backend  *)
(* switches protocols.                                                     *)
(*                                                                         *)
(* Two details of package bufio carry the behaviour of the upgrade.  The   *)
(* reader that ConnTransport makes may take more from the backend than the *)
(* response.  The writer of the hijacked connection, when bytes are copied *)
(* into it, sends them on whenever it is full and only then; what it holds *)
(* when the copy ends is not sent.                                         *)
(***************************************************************************)
EXTENDS Integers

CONSTANTS
  Methods,   \* the methods of the requests
  Upgrades,  \* whether they ask for an upgrade
  Early,     \* whether the backend may speak before the tunnel is up
  WBuf,      \* the size of the writer of the hijacked connection
  MaxBytes   \* bound on the bytes that each side sends

ASSUME ReverseProxyAssumption ==
  /\ Methods \subseteq {"GET", "CONNECT", "TRACE", "OPTIONS"}
  /\ Upgrades \subseteq BOOLEAN /\ Early \in BOOLEAN
  /\ WBuf \in Nat \ {0} /\ MaxBytes \in Nat

Missing == -1   \* no Max-Forwards
Invalid == -2   \* one that is not a number

VARIABLES
  method,    \* the method of the request
  upgrade,   \* whether it asks for an upgrade
  host,      \* whether the request names a host
  maxf,      \* its Max-Forwards, or Missing or Invalid
  pc,        \* what ServeHTTP does next
  status,    \* the status it has written, 0 before
  front,     \* the hijacked connection: "none", "open" or "closed"
  back,      \* the connection to the backend
  ctx,       \* "done" once the request is cancelled or a copy has ended
  client,    \* the client: "here" or "gone"
  target,    \* the backend
  sent,      \* how many bytes each of them has sent into the tunnel
  net,       \* how many wait to be read from their connections
  held,      \* how many each copy holds
  wbuf,      \* how many bytes the writer of the hijacked connection holds
  got,       \* how many bytes of each side the other side has received
  copy       \* what the copy of the bytes of each side does next

vars == <<method, upgrade, host, maxf, pc, status, front, back, ctx, client, target,
          sent, net, held, wbuf, got, copy>>

Request == <<method, upgrade, host, maxf>>
Bytes   == <<sent, net, held, wbuf, got>>
Peers   == <<client, target>>

Sides == {"client", "target"}

(* The switch; the transport; dialing for a CONNECT and for an upgrade;    *)
(* the round trip of an upgrade; hijacking; waiting for the copies; the    *)
(* deferred calls up to join.Wait; returned; panicked.                     *)
Pc == {"switch", "forward", "dial", "upgrade", "roundTrip", "hijack", "wait",
       "join", "done", "panicked"}

CopyPc == {"idle", "flush", "read", "write", "ending", "exited"}

Gone(s) == IF s = "client" THEN client = "gone" ELSE target = "gone"

(* The connection that the bytes of s come from, and where they go.        *)
Conn(s)  == IF s = "client" THEN front ELSE back
Other(s) == IF s = "client" THEN "target" ELSE "client"

Init ==
  /\ method \in Methods /\ upgrade \in Upgrades
  /\ host \in BOOLEAN /\ maxf \in {Missing, Invalid, 0, 1, 2}
  /\ pc = "switch" /\ status = 0 /\ front = "none" /\ back = "none"
  /\ ctx = "live" /\ client = "here" /\ target = "here"
  /\ sent = [s \in Sides |-> 0] /\ net = [s \in Sides |-> 0]
  /\ held = [s \in Sides |-> 0] /\ got = [s \in Sides |-> 0]
  /\ wbuf = 0 /\ copy = [s \in Sides |-> "idle"]

-----------------------------------------------------------------------------
(* The client and the backend. *)

MaySpeak(s) ==
  \/ pc = "wait"
  \/ Early /\ s = "target" /\ pc \in {"roundTrip", "hijack"}

Speak(s) ==
  /\ MaySpeak(s) /\ ~Gone(s) /\ sent[s] < MaxBytes
  /\ sent' = [sent EXCEPT ![s] = @ + 1] /\ net' = [net EXCEPT ![s] = @ + 1]
  /\ UNCHANGED <<Request, pc, status, front, back, ctx, Peers, held, wbuf, got, copy>>

Leave(s) ==
  /\ ~Gone(s) /\ pc \in {"roundTrip", "hijack", "wait"}
  /\ client' = IF s = "client" THEN "gone" ELSE client
  /\ target' = IF s = "target" THEN "gone" ELSE target
  /\ UNCHANGED <<Request, pc, status, front, back, ctx, Bytes, copy>>

-----------------------------------------------------------------------------
(* ServeHTTP. *)

Idle == UNCHANGED <<Request, ctx, Peers, Bytes, copy>>

(* The handler writes a header and returns; nothing is open. *)
Answer(st) ==
  /\ pc' = "done" /\ status' = st /\ Idle /\ UNCHANGED <<front, back>>

SwitchNoHost == pc = "switch" /\ ~host /\ Answer(400)

(* TRACE and OPTIONS are answered here when the decremented Max-Forwards   *)
(* is zero, or when it is no number.                                       *)
AnsweredHere == method \in {"TRACE", "OPTIONS"} /\ (maxf = Invalid \/ maxf - 1 = 0)

SwitchLocal == pc = "switch" /\ host /\ AnsweredHere /\ Answer(200)

(* A TRACE whose body cannot be read has no dump: serveTRACE panics, and   *)
(* the server answers 500.                                                 *)
SwitchPanics ==
  /\ pc = "switch" /\ host /\ AnsweredHere /\ method = "TRACE"
  /\ pc' = "panicked" /\ status' = 500 /\ Idle /\ UNCHANGED <<front, back>>

(* The decremented value is set in a field of another name, "Max-Forward": *)
(* Max-Forwards goes on as it came, and zero, decremented to -1, goes on.  *)
SwitchOn ==
  /\ pc = "switch" /\ host /\ ~AnsweredHere
  /\ pc' = CASE method = "CONNECT"              -> "dial"
             [] method # "CONNECT" /\ upgrade   -> "upgrade"
             [] method # "CONNECT" /\ ~upgrade  -> "forward"
  /\ Idle /\ UNCHANGED <<status, front, back>>

(* The transport's response, or 502. *)
Forward == pc = "forward" /\ \E st \in {200, 502} : Answer(st)

DialFails == pc \in {"dial", "upgrade"} /\ Answer(502)

(* serveCONNECT writes 200 before it hijacks. *)
DialOK ==
  /\ pc \in {"dial", "upgrade"} /\ back' = "open"
  /\ pc' = IF pc = "dial" THEN "hijack" ELSE "roundTrip"
  /\ status' = IF pc = "dial" THEN 200 ELSE 0
  /\ Idle /\ UNCHANGED <<front>>

-----------------------------------------------------------------------------
(* serveUpgrade: ConnTransport.RoundTrip. *)

(* An error that connReader does not take for the end of the connection: a *)
(* timeout, a malformed or too long response, a request that cannot be     *)
(* written.                                                                *)
RoundTripFails ==
  /\ pc = "roundTrip" /\ pc' = "done" /\ status' = 502 /\ back' = "closed"
  /\ Idle /\ UNCHANGED <<front>>

(* The backend is gone: connReader calls its cancel function, which is nil *)
(* here.  The server recovers and answers 500.                             *)
RoundTripPanics ==
  /\ pc = "roundTrip" /\ target = "gone"
  /\ pc' = "panicked" /\ status' = 500 /\ back' = "closed"
  /\ Idle /\ UNCHANGED <<front>>

(* Mutant: the connection of a refused upgrade stays open. *)
RoundTripRefusedLeaks ==
  /\ pc = "roundTrip" /\ pc' = "done" /\ status' = 200
  /\ Idle /\ UNCHANGED <<front, back>>

(* A response that does not switch protocols is the answer.  Its body may  *)
(* end with the connection, which makes connReader panic once again, after *)
(* the status was written.                                                 *)
RoundTripRefused ==
  /\ pc = "roundTrip" /\ status' = 200 /\ back' = "closed"
  /\ pc' = "done" \/ (target = "gone" /\ pc' = "panicked")
  /\ Idle /\ UNCHANGED <<front>>

(* 101: what the reader of ConnTransport took beyond it is gone with it.   *)
RoundTripSwitches ==
  /\ pc = "roundTrip" /\ pc' = "hijack" /\ status' = 101
  /\ \E k \in 0..net["target"] : net' = [net EXCEPT !["target"] = @ - k]
  /\ UNCHANGED <<Request, front, back, ctx, Peers, sent, held, wbuf, got, copy>>

-----------------------------------------------------------------------------
(* The tunnel. *)

(* The client is gone: serveCONNECT panics on an error of Hijack; on one   *)
(* of Hijack or of the flush that follows, serveUpgrade returns.           *)
HijackFails ==
  /\ pc = "hijack" /\ client = "gone" /\ back' = "closed"
  /\ pc' = IF method = "CONNECT" THEN "panicked" ELSE "done"
  /\ Idle /\ UNCHANGED <<status, front>>

HijackOK ==
  /\ pc = "hijack" /\ pc' = "wait" /\ front' = "open"
  /\ copy' = [s \in Sides |-> IF method = "CONNECT" /\ s = "target" THEN "flush" ELSE "read"]
  /\ UNCHANGED <<Request, status, back, ctx, Peers, Bytes>>

(* ctx.Done(), or a copy of serveUpgrade has ended; then the deferred      *)
(* frontend.Close(), backend.Close() and cancel().                         *)
WaitDone ==
  /\ pc = "wait" /\ ctx = "done" /\ pc' = "join"
  /\ front' = "closed" /\ back' = "closed"
  /\ UNCHANGED <<Request, status, ctx, Peers, Bytes, copy>>

(* serveCONNECT waits for both copies, serveUpgrade for none. *)
Join ==
  /\ pc = "join" /\ pc' = "done"
  /\ method = "CONNECT" => \A s \in Sides : copy[s] = "exited"
  /\ UNCHANGED <<Request, status, front, back, ctx, Peers, Bytes, copy>>

-----------------------------------------------------------------------------
(* The two copies: Copy*("client") passes what the client sends on to the  *)
(* backend, Copy*("target") what the backend sends.                        *)

Step(s, from, to) == copy[s] = from /\ copy' = [copy EXCEPT ![s] = to]

Static == <<Request, pc, status, front, back, Peers>>

(* serveCONNECT: the header is flushed before the first byte. *)
CopyFlush(s) ==
  /\ Step(s, "flush", "read") \/ (client = "gone" /\ Step(s, "flush", "ending"))
  /\ UNCHANGED <<Static, ctx, Bytes>>

CopyRead(s) ==
  /\ Step(s, "read", "write") /\ Conn(s) = "open" /\ net[s] > 0
  /\ net' = [net EXCEPT ![s] = @ - 1] /\ held' = [held EXCEPT ![s] = @ + 1]
  /\ UNCHANGED <<Static, ctx, sent, wbuf, got>>

(* The client is read through connReader, which cancels the request. *)
CopyReadEnds(s) ==
  /\ Step(s, "read", "ending") /\ (Conn(s) = "closed" \/ (Gone(s) /\ net[s] = 0))
  /\ ctx' = IF s = "client" THEN "done" ELSE ctx
  /\ UNCHANGED <<Static, Bytes>>

(* What the writer of an upgraded connection holds after one more byte,    *)
(* and what it sends.                                                      *)
Buffered == IF wbuf + 1 = WBuf THEN 0 ELSE wbuf + 1
Flushed  == IF wbuf + 1 = WBuf THEN WBuf ELSE 0

(* Mutant: a byte is written twice. *)
CopyWriteTwice(s) ==
  /\ Step(s, "write", "read") /\ Conn(Other(s)) = "open" /\ ~Gone(Other(s))
  /\ held' = [held EXCEPT ![s] = 0]
  /\ got' = [got EXCEPT ![s] = @ + 2]
  /\ UNCHANGED <<Static, ctx, sent, net, wbuf>>

(* Mutant: serveCONNECT, too, copies into the buffered writer. *)
CopyWriteBuffered(s) ==
  /\ Step(s, "write", "read") /\ Conn(Other(s)) = "open" /\ ~Gone(Other(s))
  /\ held' = [held EXCEPT ![s] = 0]
  /\ IF s = "target"
     THEN wbuf' = Buffered /\ got' = [got EXCEPT ![s] = @ + Flushed]
     ELSE wbuf' = wbuf     /\ got' = [got EXCEPT ![s] = @ + 1]
  /\ UNCHANGED <<Static, ctx, sent, net>>

(* serveUpgrade copies the bytes of the backend into a buffered writer. *)
CopyWrite(s) ==
  /\ Step(s, "write", "read") /\ Conn(Other(s)) = "open" /\ ~Gone(Other(s))
  /\ held' = [held EXCEPT ![s] = 0]
  /\ IF s = "target" /\ method # "CONNECT"
     THEN wbuf' = Buffered /\ got' = [got EXCEPT ![s] = @ + Flushed]
     ELSE wbuf' = wbuf     /\ got' = [got EXCEPT ![s] = @ + 1]
  /\ UNCHANGED <<Static, ctx, sent, net>>

CopyWriteFails(s) ==
  /\ Step(s, "write", "ending") /\ (Conn(Other(s)) = "closed" \/ Gone(Other(s)))
  /\ UNCHANGED <<Static, ctx, Bytes>>

(* Mutant: the end of a copy is not told. *)
CopyExitsSilent(s) ==
  /\ Step(s, "ending", "exited")
  /\ UNCHANGED <<Static, ctx, Bytes>>

(* cancel() and join.Done(), or done <- struct{}{}. *)
CopyExits(s) ==
  /\ Step(s, "ending", "exited") /\ ctx' = "done"
  /\ UNCHANGED <<Static, Bytes>>

-----------------------------------------------------------------------------
Ended ==
  /\ pc \in {"done", "panicked"} /\ \A s \in Sides : copy[s] \in {"idle", "exited"}
  /\ UNCHANGED vars

HandlerNext ==
  \/ SwitchNoHost \/ SwitchLocal \/ SwitchPanics \/ SwitchOn \/ Forward
  \/ DialFails \/ DialOK
  \/ RoundTripFails \/ RoundTripPanics \/ RoundTripRefused \/ RoundTripSwitches
  \/ HijackFails \/ HijackOK \/ WaitDone \/ Join

CopyNext(s) ==
  \/ CopyFlush(s) \/ CopyRead(s) \/ CopyReadEnds(s)
  \/ CopyWrite(s) \/ CopyWriteFails(s) \/ CopyExits(s)

Next ==
  \/ \E s \in Sides : Speak(s) \/ Leave(s) \/ CopyNext(s)
  \/ HandlerNext \/ Ended

Spec == Init /\ [][Next]_vars

(* Dials and round trips end, they have timeouts; the copies run, and the  *)
(* peers that are there read what they are sent.  Nobody has to speak or   *)
(* to leave.                                                               *)
FairSpec == Spec /\ WF_vars(HandlerNext) /\ \A s \in Sides : WF_vars(CopyNext(s))

-----------------------------------------------------------------------------
(* The state of the request, of both connections and of both copies; a     *)
(* side receives no more than the other one sends (httpx/proxy.go:181-205, *)
(* 289-291).                                                               *)
TypeOK ==
  /\ method \in Methods /\ upgrade \in Upgrades /\ host \in BOOLEAN
  /\ maxf \in Invalid..2
  /\ pc \in Pc /\ status \in {0, 101, 200, 400, 500, 502}
  /\ {front, back} \subseteq {"none", "open", "closed"}
  /\ ctx \in {"live", "done"} /\ {client, target} \subseteq {"here", "gone"}
  /\ sent \in [Sides -> 0..MaxBytes] /\ net \in [Sides -> 0..MaxBytes]
  /\ held \in [Sides -> 0..1] /\ wbuf \in 0..(WBuf - 1)
  /\ got \in [Sides -> 0..MaxBytes] /\ copy \in [Sides -> CopyPc]

(* On every way out, whichever of the dials, round trips and hijacks fail, *)
(* the request has a status and no connection outlives the handler; nor    *)
(* does a copy outlive serveCONNECT, which would use the connection after  *)
(* the server has taken it back                                            *)
(* (httpx/proxy.go:90-93, 158-169, 179, 233-250, 283).                     *)
CleanReturn ==
  pc \in {"done", "panicked"} =>
    /\ status # 0
    /\ front # "open" /\ back # "open"
    /\ pc = "done" /\ method = "CONNECT" =>
         \A s \in Sides : copy[s] \in {"idle", "exited"}

(* The copies that keep every byte: all but the one of the backend's bytes *)
(* in an upgrade, which loses those that came with the 101 response        *)
(* (httpx/proxy.go:243-246) and holds back those that do not fill the      *)
(* writer of the hijacked connection (290).                                *)
Direct(s) == s = "client" \/ method = "CONNECT"

(* The bytes of s that are known: on their way, or received. *)
Known(s) == net[s] + held[s] + got[s] + (IF s = "target" THEN wbuf ELSE 0)

(* No copy ever invents a byte, and none loses one but the one of the      *)
(* backend's bytes in an upgrade, from the first byte to the last and      *)
(* whichever connection fails (httpx/proxy.go:182-205, 243-246, 289-290).  *)
TunnelConserves ==
  \A s \in Sides : Known(s) <= sent[s] /\ (Direct(s) => Known(s) = sent[s])

(* A copy holds a byte exactly while it writes, or when a write failed; an *)
(* upgrade alone fills the writer of the hijacked connection               *)
(* (httpx/proxy.go:182-205, 289-290).                                      *)
CopyHolds ==
  /\ \A s \in Sides : /\ copy[s] = "write" => held[s] = 1
                      /\ copy[s] \in {"idle", "flush", "read"} => held[s] = 0
  /\ method = "CONNECT" => wbuf = 0

(* The status, the connections and the copies are those of one stage of    *)
(* the handler (httpx/proxy.go:56-150, 152-209, 225-301).                  *)
Stages ==
  /\ status = 0 <=> pc \in {"switch", "forward", "dial", "upgrade", "roundTrip"}
  /\ front = "open" <=> pc = "wait"
  /\ back = "open" <=> pc \in {"roundTrip", "hijack", "wait"}
  /\ pc = "dial" => method = "CONNECT"
  /\ pc \in {"forward", "upgrade", "roundTrip"} => method # "CONNECT"
  /\ pc \notin {"wait", "join", "done"} => \A s \in Sides : copy[s] = "idle"
  /\ pc = "done" /\ method = "CONNECT" => \A s \in Sides : copy[s] \in {"idle", "exited"}

(* The state has its types, a tunnel accounts for its bytes and what is    *)
(* open follows from the stage (httpx/proxy.go:56-209, 225-301).           *)
TunnelInv == TypeOK /\ TunnelConserves /\ CopyHolds /\ Stages

(* A tunnel that is up delivers all that is sent into it, without waiting  *)
(* for more to be sent (httpx/proxy.go:191, 204, 291).                     *)
Delivered ==
  \A s \in Sides :
    (pc = "wait" /\ Direct(s) /\ sent[s] > 0) ~> (got[s] = sent[s] \/ pc # "wait")

(* The end of a copy, or of the request, ends the handler: join.Wait does  *)
(* not wait for a copy that waits for its peer (httpx/proxy.go:158-209).   *)
TunnelEnds ==
  (\E s \in Sides : copy[s] = "ending") ~> pc = "done"
=============================================================================
