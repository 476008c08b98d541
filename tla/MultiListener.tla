---------------------------- MODULE MultiListener ----------------------------
(***************************************************************************)
(* netx.MultiListener (src/listen.go): a listener made of N listeners, as  *)
(* netx.Listen opens it for a name with N addresses.  Listen opens the     *)
(* addresses one after another and, when one cannot be listened on, closes *)
(* the listeners it has and returns no listener (and no error).            *)
(* One goroutine per listener accepts connections and publishes them, its  *)
(* errors and its end on the unbuffered channels c, e and d.  Any number   *)
(* of callers may be in Accept and in Close at the same time; Close runs   *)
(* once, closes the listeners, drains the channels until every goroutine   *)
(* has ended and then closes the channel x.                                *)
(*                                                                         *)
(* A rendez-vous on a channel is one step of both ends.  The listeners are *)
(* net.Listeners supplied by the program: Accept may fail at any time and  *)
(* returns a permanent error once its listener is closed.                  *)
(***************************************************************************)
EXTENDS Integers, FiniteSets

CONSTANTS
  N,           \* how many listeners there are
  Conns,       \* the connections that clients may open
  Home,        \* the listener each connection is made to
  Acceptors,   \* the goroutines that call Accept
  Closers,     \* the goroutines that call Close
  NoConn       \* a goroutine holds no connection

Listeners == 1..N

ASSUME NAssumption == N \in Nat
ASSUME HomeAssumption == Home \in [Conns -> Listeners] /\ NoConn \notin Conns

VARIABLES
  listen,    \* what Listen does next
  li,        \* the index of its loops
  open,      \* which of the listeners are open
  conn,      \* where every connection is
  g,         \* what the goroutine of every listener does next
  held,      \* the connection it holds
  accept,    \* what every caller of Accept does: "idle" or "waiting"
  close,     \* what every caller of Close does next
  once,      \* the sync.Once: "new", "busy" or "done"
  ci,        \* the index of the loop that closes the listeners
  i,         \* the counter of the loop that drains the channels
  x          \* the channel x is closed

vars == <<listen, li, open, conn, g, held, accept, close, once, ci, i, x>>

-----------------------------------------------------------------------------
(* Absent, in the backlog of its listener, accepted by the goroutine of    *)
(* the listener, returned by Accept, closed by Close, reset by the kernel. *)
ConnState == {"absent", "queued", "held", "delivered", "closed", "reset"}

(* In the loop that opens the listeners, in the one that closes what was   *)
(* opened, back with a MultiListener, back without.                        *)
ListenPc == {"opening", "aborting", "up", "failed"}

(* Not started; in l.Accept; on a send to c, to e (a temporary error, the  *)
(* last error) or to d; ended.                                             *)
GoroutinePc ==
  {"none", "accept", "sendConn", "sendErr", "sendLast", "sendDone", "exited"}

(* Not called; in once.Do; in its two loops and its end; back. *)
ClosePc == {"idle", "called", "closing", "draining", "unlocking", "returned"}

(* Close counts no more listeners and goroutines than there are, and every *)
(* goroutine holds one connection at most (listen.go:225-309).             *)
TypeOK ==
  /\ listen \in ListenPc /\ li \in 1..(N + 1)
  /\ open \in SUBSET Listeners
  /\ conn \in [Conns -> ConnState]
  /\ g \in [Listeners -> GoroutinePc]
  /\ held \in [Listeners -> Conns \cup {NoConn}]
  /\ accept \in [Acceptors -> {"idle", "waiting"}]
  /\ close \in [Closers -> ClosePc]
  /\ once \in {"new", "busy", "done"}
  /\ ci \in 1..(N + 1)
  /\ i \in 0..N
  /\ x \in BOOLEAN

Init ==
  /\ listen = "opening" /\ li = 1
  /\ open = {}
  /\ conn = [c \in Conns |-> "absent"]
  /\ g = [l \in Listeners |-> "none"]
  /\ held = [l \in Listeners |-> NoConn]
  /\ accept = [a \in Acceptors |-> "idle"]
  /\ close = [k \in Closers |-> "idle"]
  /\ once = "new" /\ ci = 1 /\ i = 0 /\ x = FALSE

Arrive(c) ==
  /\ conn[c] = "absent" /\ Home[c] \in open
  /\ conn' = [conn EXCEPT ![c] = "queued"]
  /\ UNCHANGED <<listen, li, open, g, held, accept, close, once, ci, i, x>>

(* l.Close() of a listener: what it has queued is reset. *)
CloseNet(l) ==
  /\ open' = open \ {l}
  /\ conn' = [c \in Conns |-> IF conn[c] = "queued" /\ Home[c] = l
                              THEN "reset" ELSE conn[c]]

-----------------------------------------------------------------------------
(* Listen, of a name with N addresses. *)

ListenOne ==
  /\ listen = "opening" /\ li \in Listeners
  /\ open' = open \cup {li} /\ li' = li + 1
  /\ UNCHANGED <<listen, conn, g, held, accept, close, once, ci, i, x>>

ListenFails ==
  /\ listen = "opening" /\ li \in Listeners
  /\ listen' = "aborting" /\ li' = 1
  /\ UNCHANGED <<open, conn, g, held, accept, close, once, ci, i, x>>

AbortOne ==
  /\ listen = "aborting" /\ li \in open
  /\ CloseNet(li) /\ li' = li + 1
  /\ UNCHANGED <<listen, g, held, accept, close, once, ci, i, x>>

AbortEnds ==
  /\ listen = "aborting" /\ li \notin open
  /\ listen' = "failed"
  /\ UNCHANGED <<li, open, conn, g, held, accept, close, once, ci, i, x>>

(* MultiListener(lstns...) starts its goroutines. *)
StartAll ==
  /\ listen = "opening" /\ li = N + 1
  /\ listen' = "up"
  /\ g' = [l \in Listeners |-> "accept"]
  /\ UNCHANGED <<li, open, conn, held, accept, close, once, ci, i, x>>

-----------------------------------------------------------------------------
(* The goroutine of listener l. *)

AcceptConn(l, c) ==
  /\ g[l] = "accept" /\ l \in open
  /\ conn[c] = "queued" /\ Home[c] = l
  /\ conn' = [conn EXCEPT ![c] = "held"]
  /\ held' = [held EXCEPT ![l] = c]
  /\ g' = [g EXCEPT ![l] = "sendConn"]
  /\ UNCHANGED <<listen, li, open, accept, close, once, ci, i, x>>

AcceptTemporary(l) ==
  /\ g[l] = "accept" /\ l \in open
  /\ g' = [g EXCEPT ![l] = "sendErr"]
  /\ UNCHANGED <<listen, li, open, conn, held, accept, close, once, ci, i, x>>

AcceptPermanent(l) ==
  /\ g[l] = "accept"
  /\ g' = [g EXCEPT ![l] = "sendLast"]
  /\ UNCHANGED <<listen, li, open, conn, held, accept, close, once, ci, i, x>>

(* Mutant: the goroutine goes on after a permanent error. *)
AfterErrForever(pc) == "accept"

(* What the goroutine does after a send: it goes on, or breaks. *)
AfterErr(pc) == IF pc = "sendLast" THEN "sendDone" ELSE "accept"

(* The connection held by l is received and becomes what the receiver      *)
(* makes of it.                                                            *)
ReceiveConn(l, state) ==
  /\ g[l] = "sendConn"
  /\ conn' = [conn EXCEPT ![held[l]] = state]
  /\ held' = [held EXCEPT ![l] = NoConn]
  /\ g' = [g EXCEPT ![l] = "accept"]

ReceiveErr(l) ==
  /\ g[l] \in {"sendErr", "sendLast"}
  /\ g' = [g EXCEPT ![l] = AfterErr(g[l])]

-----------------------------------------------------------------------------
(* Accept: its select waits for c, e and x. *)

CallAccept(a) ==
  /\ accept[a] = "idle" /\ listen = "up"
  /\ accept' = [accept EXCEPT ![a] = "waiting"]
  /\ UNCHANGED <<listen, li, open, conn, g, held, close, once, ci, i, x>>

ReturnConn(a, l) ==
  /\ accept[a] = "waiting"
  /\ ReceiveConn(l, "delivered")
  /\ accept' = [accept EXCEPT ![a] = "idle"]
  /\ UNCHANGED <<listen, li, open, close, once, ci, i, x>>

ReturnErr(a, l) ==
  /\ accept[a] = "waiting"
  /\ ReceiveErr(l)
  /\ accept' = [accept EXCEPT ![a] = "idle"]
  /\ UNCHANGED <<listen, li, open, conn, held, close, once, ci, i, x>>

ReturnClosedPipe(a) ==
  /\ accept[a] = "waiting" /\ x
  /\ accept' = [accept EXCEPT ![a] = "idle"]
  /\ UNCHANGED <<listen, li, open, conn, g, held, close, once, ci, i, x>>

-----------------------------------------------------------------------------
(* Close. *)

CallClose(k) ==
  /\ close[k] = "idle" /\ listen = "up"
  /\ close' = [close EXCEPT ![k] = "called"]
  /\ UNCHANGED <<listen, li, open, conn, g, held, accept, once, ci, i, x>>

OnceFirst(k) ==
  /\ close[k] = "called" /\ once = "new"
  /\ once' = "busy"
  /\ close' = [close EXCEPT ![k] = "closing"]
  /\ UNCHANGED <<listen, li, open, conn, g, held, accept, ci, i, x>>

(* Mutant: a flag instead of a Once lets later callers through. *)
OnceLaterEarly(k) ==
  /\ close[k] = "called" /\ once # "new"
  /\ close' = [close EXCEPT ![k] = "returned"]
  /\ UNCHANGED <<listen, li, open, conn, g, held, accept, once, ci, i, x>>

(* Every later caller of once.Do waits for the first to be back. *)
OnceLater(k) ==
  /\ close[k] = "called" /\ once = "done"
  /\ close' = [close EXCEPT ![k] = "returned"]
  /\ UNCHANGED <<listen, li, open, conn, g, held, accept, once, ci, i, x>>

CloseListener(k) ==
  /\ close[k] = "closing" /\ ci \in Listeners
  /\ CloseNet(ci) /\ ci' = ci + 1
  /\ UNCHANGED <<listen, li, g, held, accept, close, once, i, x>>

CloseLoopEnds(k) ==
  /\ close[k] = "closing" /\ ci = N + 1
  /\ close' = [close EXCEPT ![k] = "draining"]
  /\ UNCHANGED <<listen, li, open, conn, g, held, accept, once, ci, i, x>>

DrainConn(k, l) ==
  /\ close[k] = "draining" /\ i # N
  /\ ReceiveConn(l, "closed")
  /\ UNCHANGED <<listen, li, open, accept, close, once, ci, i, x>>

(* Mutant: an error counts as the end of its goroutine. *)
DrainErrCounts(k, l) ==
  /\ close[k] = "draining" /\ i # N
  /\ ReceiveErr(l)
  /\ i' = i + 1
  /\ UNCHANGED <<listen, li, open, conn, held, accept, close, once, ci, x>>

DrainErr(k, l) ==
  /\ close[k] = "draining" /\ i # N
  /\ ReceiveErr(l)
  /\ UNCHANGED <<listen, li, open, conn, held, accept, close, once, ci, i, x>>

DrainDone(k, l) ==
  /\ close[k] = "draining" /\ i # N
  /\ g[l] = "sendDone"
  /\ g' = [g EXCEPT ![l] = "exited"]
  /\ i' = i + 1
  /\ UNCHANGED <<listen, li, open, conn, held, accept, close, once, ci, x>>

(* Mutant: the drain loop stops one goroutine early. *)
CloseXEarly(k) ==
  /\ close[k] = "draining" /\ i >= N - 1
  /\ x' = TRUE
  /\ close' = [close EXCEPT ![k] = "unlocking"]
  /\ UNCHANGED <<listen, li, open, conn, g, held, accept, once, ci, i>>

CloseX(k) ==
  /\ close[k] = "draining" /\ i = N
  /\ x' = TRUE
  /\ close' = [close EXCEPT ![k] = "unlocking"]
  /\ UNCHANGED <<listen, li, open, conn, g, held, accept, once, ci, i>>

OnceDone(k) ==
  /\ close[k] = "unlocking"
  /\ once' = "done"
  /\ close' = [close EXCEPT ![k] = "returned"]
  /\ UNCHANGED <<listen, li, open, conn, g, held, accept, ci, i, x>>

-----------------------------------------------------------------------------
ListenNext == ListenOne \/ ListenFails \/ AbortOne \/ AbortEnds \/ StartAll

GoroutineNext(l) ==
  (\E c \in Conns : AcceptConn(l, c)) \/ AcceptTemporary(l) \/ AcceptPermanent(l)

AcceptNext(a) ==
  \/ CallAccept(a) \/ ReturnClosedPipe(a)
  \/ \E l \in Listeners : ReturnConn(a, l) \/ ReturnErr(a, l)

CloseNext(k) ==
  \/ CallClose(k) \/ OnceFirst(k) \/ OnceLater(k)
  \/ CloseListener(k) \/ CloseLoopEnds(k) \/ CloseX(k) \/ OnceDone(k)
  \/ \E l \in Listeners : DrainConn(k, l) \/ DrainErr(k, l) \/ DrainDone(k, l)

Next ==
  \/ ListenNext
  \/ \E c \in Conns : Arrive(c)
  \/ \E l \in Listeners : GoroutineNext(l)
  \/ \E a \in Acceptors : AcceptNext(a)
  \/ \E k \in Closers : CloseNext(k)

Spec == Init /\ [][Next]_vars

(* Listen runs; Accept on a closed listener returns; a caller that can     *)
(* leave once.Do, close a listener, receive from a channel or leave Accept *)
(* does so.  Nothing makes clients connect, listeners fail or callers call.*)
Fairness ==
  /\ WF_vars(ListenNext)
  /\ \A l \in Listeners : WF_vars(l \notin open /\ AcceptPermanent(l))
  /\ \A a \in Acceptors : WF_vars(ReturnClosedPipe(a))
  /\ \A k \in Closers :
       /\ WF_vars(OnceFirst(k)) /\ WF_vars(OnceLater(k))
       /\ WF_vars(CloseListener(k)) /\ WF_vars(CloseLoopEnds(k))
       /\ WF_vars(CloseX(k)) /\ WF_vars(OnceDone(k))
       /\ \A l \in Listeners :
            WF_vars(DrainConn(k, l) \/ DrainErr(k, l) \/ DrainDone(k, l))

FairSpec == Spec /\ Fairness

-----------------------------------------------------------------------------
(* Safety. *)

(* Every listener is closed, no goroutine runs, and no connection is       *)
(* queued or held.                                                         *)
NothingLeft ==
  /\ open = {}
  /\ \A l \in Listeners : g[l] \in {"none", "exited"}
  /\ \A c \in Conns : conn[c] \notin {"queued", "held"}

(* Once x is closed nothing is left behind, and whoever Close returns to,  *)
(* first caller or not, x is closed by then; and nothing is left behind by *)
(* a Listen that could not listen on one of its addresses, the connections *)
(* made meanwhile to the others included (listen.go:43-58, 283-309).       *)
CloseIsComplete ==
  /\ x \/ listen = "failed" => NothingLeft
  /\ \A k \in Closers : close[k] = "returned" => x

(* An accepted connection is held by exactly one goroutine, the one of its *)
(* listener, so it is delivered or closed once (listen.go:243-245).        *)
HeldOnce ==
  \A c \in Conns :
    conn[c] = "held" <=> {l \in Listeners : held[l] = c} = {Home[c]}

(* The drain loop counts the goroutines that have ended (listen.go:292-300). *)
DrainCounts == i = Cardinality({l \in Listeners : g[l] = "exited"})

(* A goroutine holds a connection of its own listener, and only while it   *)
(* sends it; what is accepted is held (listen.go:235-262).                 *)
Holding ==
  /\ \A l \in Listeners :
       IF g[l] = "sendConn"
       THEN held[l] \in Conns /\ Home[held[l]] = l /\ conn[held[l]] = "held"
       ELSE held[l] = NoConn
  /\ \A c \in Conns : conn[c] = "held" => held[Home[c]] = c

(* A closed listener has nobody queued. *)
Backlog == \A c \in Conns : conn[c] = "queued" => Home[c] \in open

(* Until Listen is back nothing else runs; its loops open and close the    *)
(* listeners from the first on (listen.go:43-58).                          *)
Listening ==
  /\ listen # "up" =>
       /\ \A l \in Listeners : g[l] = "none"
       /\ \A k \in Closers : close[k] = "idle"
       /\ ~x /\ once = "new" /\ ci = 1
  /\ listen = "opening" => open = 1..(li - 1)
  /\ listen = "aborting" => \A l \in open : l >= li /\ \A m \in li..l : m \in open
  /\ listen = "failed" => open = {}
  /\ listen = "up" => \A l \in Listeners : g[l] # "none"

(* How far Close has come: the listeners before ci are closed, it drains   *)
(* when all are, and x is closed when all goroutines were counted          *)
(* (listen.go:282-309).                                                    *)
Closing ==
  /\ listen = "up" => \A l \in open : l >= ci
  /\ \A k \in Closers :
       /\ close[k] \in {"draining", "unlocking", "returned"} => ci = N + 1
       /\ close[k] \in {"unlocking", "returned"} => x
  /\ once = "done" => x
  /\ x => i = N /\ ci = N + 1

(* The bookkeeping of Close and of the goroutines it drains: the state has *)
(* its type, connections are held once and endings are counted once, and   *)
(* the loops are where their counters say (listen.go:43-58, 235-309).      *)
DrainInv ==
  TypeOK /\ HeldOnce /\ DrainCounts /\ Holding /\ Backlog /\ Listening /\ Closing

(* Action property: after Close, Accept hands out no connection, and one   *)
(* that was handed out is the caller's for good (listen.go:272-280, 306).  *)
NoLateDelivery ==
  [][\A c \in Conns :
       /\ x /\ conn'[c] = "delivered" => conn[c] = "delivered"
       /\ conn[c] = "delivered" => conn'[c] = "delivered"]_vars

-----------------------------------------------------------------------------
(* Liveness, of FairSpec. *)

(* Close returns to every caller, whatever the goroutines and the callers  *)
(* of Accept were doing, and releases whoever is blocked in Accept; Listen *)
(* returns (listen.go:43-58, 272-309).                                     *)
CloseSettles ==
  /\ <>(listen \in {"up", "failed"})
  /\ \A k \in Closers : close[k] = "called" ~> close[k] = "returned"
  /\ \A a \in Acceptors, k \in Closers :
       accept[a] = "waiting" /\ close[k] = "called" ~> accept[a] = "idle"
=============================================================================
