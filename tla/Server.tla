------------------------------- MODULE Server -------------------------------
(***************************************************************************)
(* netx.Server (src/server.go): the goroutine that runs Serve, the accept  *)
(* goroutine it starts, and one serve goroutine per accepted connection.   *)
(*                                                                         *)
(* The goroutines meet on the unbuffered channels conns and errs, on the   *)
(* WaitGroup join and on the context ctx.  A rendez-vous on an unbuffered  *)
(* channel is one step of both ends.  The listener is a net.Listener and   *)
(* the handler is a netx.Handler, both supplied by the program: Accept may *)
(* return a connection, a temporary error, a permanent one or EOF, and a   *)
(* handler may return, or panic, whenever it likes.                        *)
(***************************************************************************)
EXTENDS Integers, FiniteSets

CONSTANTS
  Conns,     \* the connections that clients may open
  NoConn     \* the accept goroutine holds no connection

ASSUME ConnsAssumption == IsFiniteSet(Conns) /\ NoConn \notin Conns

VARIABLES
  lstn,    \* the listener: "open" or "closed"
  conn,    \* the socket of every connection
  ctx,     \* the context derived in Serve: "live" or "done"
  aPc,     \* what the accept goroutine does next
  aConn,   \* its local variable conn
  aErr,    \* its local variable err
  sPc,     \* what the goroutine running Serve does next
  armed,   \* Serve's local variable done is not nil
  recv,    \* which of Serve's local variables conns and errs are not nil
  join,    \* the counter of the WaitGroup
  h,       \* what the serve goroutine of every connection does next
  result   \* what Serve returns, "none" until it knows

acceptVars  == <<aPc, aConn, aErr>>
serveVars   == <<sPc, armed, recv, result>>
vars == <<lstn, conn, ctx, acceptVars, serveVars, join, h>>

-----------------------------------------------------------------------------
(* A connection is absent, then queued in the backlog of the listener; the *)
(* server that accepts it holds it open until it is closed.  Closing the   *)
(* listener resets what is still queued.                                   *)
ConnState == {"absent", "queued", "open", "closed", "reset"}

(* In lstn.Accept, in the backoff after a temporary error, deciding whether *)
(* to report a permanent one, blocked on a channel, in its deferred calls.  *)
AcceptPc == {"accept", "backoff", "check", "sendErr", "sendConn",
             "closeConns", "closeErrs", "joinDone", "exited"}

(* In the select loop, then in its deferred calls. *)
ServePc == {"loop", "cancel", "wait", "closeLstn", "returned"}

(* Not started, in the handler, then in its deferred calls. *)
HandlerPc == {"none", "running", "closing", "joining", "exited"}

(* Errors of Accept that are not temporary: a failure of the listener, or  *)
(* the use of a listener that was closed.                                  *)
Errors == {"perm", "useOfClosed"}

(* The type invariant; join never goes negative, which would panic.        *)
TypeOK ==
  /\ lstn \in {"open", "closed"}
  /\ conn \in [Conns -> ConnState]
  /\ ctx \in {"live", "done"}
  /\ aPc \in AcceptPc
  /\ aConn \in Conns \cup {NoConn}
  /\ aErr \in Errors \cup {"nil"}
  /\ sPc \in ServePc
  /\ armed \in BOOLEAN
  /\ recv \in SUBSET {"conns", "errs"}
  /\ join \in Nat
  /\ h \in [Conns -> HandlerPc]
  /\ result \in Errors \cup {"none", "nil"}

(* Serve up to its loop: the WaitGroup counts the accept goroutine. *)
Init ==
  /\ lstn = "open"
  /\ conn = [c \in Conns |-> "absent"]
  /\ ctx \in {"live", "done"}      \* s.Context may be canceled already
  /\ aPc = "accept" /\ aConn = NoConn /\ aErr = "nil"
  /\ sPc = "loop" /\ armed = TRUE /\ recv = {"conns", "errs"} /\ result = "none"
  /\ join = 1
  /\ h = [c \in Conns |-> "none"]

-----------------------------------------------------------------------------
(* The clients and the owner of s.Context. *)

Arrive(c) ==
  /\ lstn = "open" /\ conn[c] = "absent"
  /\ conn' = [conn EXCEPT ![c] = "queued"]
  /\ UNCHANGED <<lstn, ctx, acceptVars, serveVars, join, h>>

ParentCancel ==
  /\ ctx = "live"
  /\ ctx' = "done"
  /\ UNCHANGED <<lstn, conn, acceptVars, serveVars, join, h>>

-----------------------------------------------------------------------------
(* The accept goroutine. *)

AcceptConn(c) ==
  /\ aPc = "accept" /\ lstn = "open" /\ conn[c] = "queued"
  /\ conn' = [conn EXCEPT ![c] = "open"]
  /\ aConn' = c /\ aErr' = "nil" /\ aPc' = "sendConn"
  /\ UNCHANGED <<lstn, ctx, serveVars, join, h>>

AcceptTemporary ==
  /\ aPc = "accept" /\ lstn = "open"
  /\ aPc' = "backoff"
  /\ UNCHANGED <<lstn, conn, ctx, aConn, aErr, serveVars, join, h>>

AcceptPermanent ==
  /\ aPc = "accept"
  /\ aErr' = IF lstn = "open" THEN "perm" ELSE "useOfClosed"
  /\ aPc' = "check"
  /\ UNCHANGED <<lstn, conn, ctx, aConn, serveVars, join, h>>

(* An *OpError around io.EOF is a normal end of the listener. *)
AcceptEOF ==
  /\ aPc = "accept" /\ lstn = "open"
  /\ aPc' = "closeConns"
  /\ UNCHANGED <<lstn, conn, ctx, aConn, aErr, serveVars, join, h>>

Backoff ==
  /\ aPc = "backoff"
  /\ \/ aPc' = "accept"                          \* <-time.After(backoff)
     \/ ctx = "done" /\ aPc' = "closeConns"      \* <-ctx.Done()
  /\ UNCHANGED <<lstn, conn, ctx, aConn, aErr, serveVars, join, h>>

(* Mutant: the error is reported whatever the context. *)
CheckErrAlwaysSends ==
  /\ aPc = "check"
  /\ aPc' = "sendErr"
  /\ UNCHANGED <<lstn, conn, ctx, aConn, aErr, serveVars, join, h>>

(* The error is reported unless the context was canceled. *)
CheckErr ==
  /\ aPc = "check"
  /\ aPc' = IF ctx = "done" THEN "closeConns" ELSE "sendErr"
  /\ UNCHANGED <<lstn, conn, ctx, aConn, aErr, serveVars, join, h>>

(* The deferred close(conns), close(errs) and join.Done(). *)
CloseConns ==
  /\ aPc = "closeConns" /\ aPc' = "closeErrs"
  /\ UNCHANGED <<lstn, conn, ctx, aConn, aErr, serveVars, join, h>>

CloseErrs ==
  /\ aPc = "closeErrs" /\ aPc' = "joinDone"
  /\ UNCHANGED <<lstn, conn, ctx, aConn, aErr, serveVars, join, h>>

AcceptJoinDone ==
  /\ aPc = "joinDone" /\ aPc' = "exited"
  /\ join' = join - 1
  /\ UNCHANGED <<lstn, conn, ctx, aConn, aErr, serveVars, h>>

connsClosed == aPc \in {"closeErrs", "joinDone", "exited"}
errsClosed  == aPc \in {"joinDone", "exited"}

-----------------------------------------------------------------------------
(* The goroutine that runs Serve. *)

(* lstn.Close(): what is queued is reset by the kernel. *)
CloseListener ==
  /\ lstn' = "closed"
  /\ conn' = [c \in Conns |-> IF conn[c] = "queued" THEN "reset" ELSE conn[c]]

(* Mutants: the done case returns; it forgets lstn.Close(); it stops       *)
(* reading conns.                                                          *)
SelectDoneReturns ==
  /\ sPc = "loop" /\ armed /\ ctx = "done"
  /\ CloseListener
  /\ armed' = FALSE /\ sPc' = "cancel" /\ result' = "nil"
  /\ UNCHANGED <<ctx, acceptVars, recv, join, h>>

SelectDoneKeepsListener ==
  /\ sPc = "loop" /\ armed /\ ctx = "done"
  /\ armed' = FALSE
  /\ UNCHANGED <<lstn, conn, ctx, acceptVars, sPc, recv, result, join, h>>

SelectDoneDropsConns ==
  /\ sPc = "loop" /\ armed /\ ctx = "done"
  /\ CloseListener
  /\ armed' = FALSE /\ recv' = recv \ {"conns"}
  /\ UNCHANGED <<ctx, acceptVars, sPc, result, join, h>>

SelectDone ==
  /\ sPc = "loop" /\ armed /\ ctx = "done"
  /\ CloseListener
  /\ armed' = FALSE
  /\ UNCHANGED <<ctx, acceptVars, sPc, recv, result, join, h>>

SelectErr ==
  /\ sPc = "loop" /\ "errs" \in recv /\ aPc = "sendErr"
  /\ result' = aErr /\ sPc' = "cancel"
  /\ aPc' = "closeConns"
  /\ UNCHANGED <<lstn, conn, ctx, aConn, aErr, armed, recv, join, h>>

(* Mutant: the serve goroutine is not counted. *)
SelectConnWithoutAdd ==
  /\ sPc = "loop" /\ "conns" \in recv /\ aPc = "sendConn"
  /\ h' = [h EXCEPT ![aConn] = "running"]
  /\ aConn' = NoConn /\ aPc' = "accept"
  /\ UNCHANGED <<lstn, conn, ctx, aErr, serveVars, join>>

SelectConn ==
  /\ sPc = "loop" /\ "conns" \in recv /\ aPc = "sendConn"
  /\ join' = join + 1
  /\ h' = [h EXCEPT ![aConn] = "running"]
  /\ aConn' = NoConn /\ aPc' = "accept"
  /\ UNCHANGED <<lstn, conn, ctx, aErr, serveVars>>

(* A closed channel is dropped from the select; the loop ends with both.   *)
DropChannel(ch) ==
  /\ sPc = "loop" /\ ch \in recv
  /\ recv' = recv \ {ch}
  /\ IF recv' = {} THEN sPc' = "cancel" /\ result' = "nil"
                   ELSE UNCHANGED <<sPc, result>>
  /\ UNCHANGED <<lstn, conn, ctx, acceptVars, armed, join, h>>

SelectErrsClosed  == errsClosed /\ DropChannel("errs")
SelectConnsClosed == connsClosed /\ DropChannel("conns")

(* The deferred cancel(), join.Wait() and lstn.Close(). *)
DeferCancel ==
  /\ sPc = "cancel" /\ sPc' = "wait"
  /\ ctx' = "done"
  /\ UNCHANGED <<lstn, conn, acceptVars, armed, recv, result, join, h>>

(* Mutants: no join.Wait(); a wait that misses the last goroutine. *)
DeferWaitMissing ==
  /\ sPc = "wait"
  /\ sPc' = "closeLstn"
  /\ UNCHANGED <<lstn, conn, ctx, acceptVars, armed, recv, result, join, h>>

DeferWaitOffByOne ==
  /\ sPc = "wait" /\ join \in {0, 1}
  /\ sPc' = "closeLstn"
  /\ UNCHANGED <<lstn, conn, ctx, acceptVars, armed, recv, result, join, h>>

DeferWait ==
  /\ sPc = "wait" /\ join = 0
  /\ sPc' = "closeLstn"
  /\ UNCHANGED <<lstn, conn, ctx, acceptVars, armed, recv, result, join, h>>

DeferClose ==
  /\ sPc = "closeLstn" /\ sPc' = "returned"
  /\ CloseListener
  /\ UNCHANGED <<ctx, acceptVars, armed, recv, result, join, h>>

-----------------------------------------------------------------------------
(* The serve goroutine of a connection.  It has "exited" once it called   *)
(* join.Done(): the Recover deferred first runs after it and only logs.    *)

(* A handler may close the connection itself, as Echo does. *)
HandlerCloses(c) ==
  /\ h[c] = "running" /\ conn[c] = "open"
  /\ conn' = [conn EXCEPT ![c] = "closed"]
  /\ UNCHANGED <<lstn, ctx, acceptVars, serveVars, join, h>>

(* The handler returns or panics; either way the deferred calls follow and *)
(* Recover ends the panic.                                                 *)
HandlerEnds(c) ==
  /\ h[c] = "running"
  /\ h' = [h EXCEPT ![c] = "closing"]
  /\ UNCHANGED <<lstn, conn, ctx, acceptVars, serveVars, join>>

ServeClose(c) ==
  /\ h[c] = "closing"
  /\ h' = [h EXCEPT ![c] = "joining"]
  /\ conn' = [conn EXCEPT ![c] = "closed"]
  /\ UNCHANGED <<lstn, ctx, acceptVars, serveVars, join>>

ServeJoinDone(c) ==
  /\ h[c] = "joining"
  /\ h' = [h EXCEPT ![c] = "exited"]
  /\ join' = join - 1
  /\ UNCHANGED <<lstn, conn, ctx, acceptVars, serveVars>>

-----------------------------------------------------------------------------
Terminated ==
  /\ sPc = "returned"
  /\ UNCHANGED vars

AcceptNext ==
  \/ \E c \in Conns : AcceptConn(c)
  \/ AcceptTemporary \/ AcceptPermanent \/ AcceptEOF
  \/ Backoff \/ CheckErr
  \/ CloseConns \/ CloseErrs \/ AcceptJoinDone

ServeNext ==
  \/ SelectDone \/ SelectErr \/ SelectConn
  \/ SelectErrsClosed \/ SelectConnsClosed
  \/ DeferCancel \/ DeferWait \/ DeferClose

HandlerNext(c) ==
  HandlerCloses(c) \/ HandlerEnds(c) \/ ServeClose(c) \/ ServeJoinDone(c)

Next ==
  \/ \E c \in Conns : Arrive(c) \/ HandlerNext(c)
  \/ ParentCancel
  \/ AcceptNext
  \/ ServeNext
  \/ Terminated

Spec == Init /\ [][Next]_vars

(* Goroutines that can run do run, and a select whose done case stays      *)
(* ready takes it in the end (the runtime picks a ready case at random).   *)
(* Lstn.Accept on a closed listener returns.  A handler is only asked to   *)
(* return once its context is done: that is the contract of Handler.       *)
Fairness ==
  /\ WF_vars(SelectDone) /\ WF_vars(SelectErr) /\ WF_vars(SelectConn)
  /\ WF_vars(SelectErrsClosed) /\ WF_vars(SelectConnsClosed)
  /\ WF_vars(DeferCancel) /\ WF_vars(DeferWait) /\ WF_vars(DeferClose)
  /\ WF_vars(lstn = "closed" /\ AcceptPermanent)
  /\ WF_vars(Backoff) /\ WF_vars(CheckErr)
  /\ WF_vars(CloseConns) /\ WF_vars(CloseErrs) /\ WF_vars(AcceptJoinDone)
  /\ \A c \in Conns :
       /\ WF_vars(ctx = "done" /\ HandlerEnds(c))
       /\ WF_vars(ServeClose(c)) /\ WF_vars(ServeJoinDone(c))

FairSpec == Spec /\ Fairness

-----------------------------------------------------------------------------
(* Safety. *)

(* When Serve returns nothing it started is left: the listener is closed,  *)
(* the accept goroutine and every serve goroutine have ended and no        *)
(* connection it accepted, or that was queued, is open (server.go:56-57).  *)
GracefulReturn ==
  sPc = "returned" =>
    /\ lstn = "closed" /\ aPc = "exited"
    /\ \A c \in Conns : h[c] \in {"none", "exited"}
                        /\ conn[c] \notin {"queued", "open"}

(* The accept goroutine is never blocked on a channel Serve has stopped    *)
(* reading: join.Wait would then wait forever (server.go:146-158).         *)
NoAbandonedSend ==
  sPc # "loop" => aPc \notin {"sendErr", "sendConn"}

(* Closing the listener because the context was canceled is never reported *)
(* as an error of the server (server.go:147-153).                          *)
NoShutdownError == result # "useOfClosed"

(* The goroutines that serve a connection and have yet to call Done. *)
Live(c) == h[c] \in {"running", "closing", "joining"}

(* The WaitGroup counts exactly the goroutines that have yet to call Done, *)
(* so Wait cannot return early nor Done panic (server.go:76,97,106,165).   *)
JoinCounts ==
  join = Cardinality({c \in Conns : Live(c)})
           + (IF aPc = "exited" THEN 0 ELSE 1)

-----------------------------------------------------------------------------
(* Liveness, of FairSpec. *)

(* Once the context is canceled Serve returns (server.go:81-83, 133, 148). *)
CancelStops == ctx = "done" ~> sPc = "returned"

(* A connection the server accepted is always given to the handler, even   *)
(* when the server is already stopping (server.go:92-98, 158).             *)
AcceptedIsServed == \A c \in Conns : conn[c] = "open" ~> h[c] # "none"

-----------------------------------------------------------------------------
(* The refinement mapping: the connections being served are those that a   *)
(* goroutine still answers for.                                            *)
Taken(c) == aPc = "sendConn" /\ aConn = c

Accepting == lstn = "open" /\ aPc \in {"accept", "backoff", "sendConn"}

Phase  == IF sPc = "returned" THEN "stopped"
          ELSE IF Accepting THEN "accepting" ELSE "draining"
Active == {c \in Conns : Taken(c) \/ Live(c)}
Ended  == {c \in Conns : h[c] = "exited"}

Abstract == INSTANCE GracefulServer
              WITH phase <- Phase, active <- Active, ended <- Ended

(* What a graceful server promises (GracefulServer) is implemented by      *)
(* Serve: what it takes is served once and to its end, and it stops when   *)
(* nothing is left (server.go:58-172).                                     *)
AbstractSpec == Abstract!Spec

-----------------------------------------------------------------------------
(* The inductive invariant that the proofs rest on, in named parts. *)

(* Serve passes join.Wait() only when nothing is counted. *)
Waited == sPc \in {"closeLstn", "returned"} => join = 0

(* The accept goroutine holds a connection exactly while it sends it, and  *)
(* that connection is open and has no handler yet.                         *)
Holding ==
  /\ aPc = "sendConn" <=> aConn \in Conns
  /\ aConn \in Conns => h[aConn] = "none" /\ conn[aConn] = "open"

(* Serve forgets a channel only after the accept goroutine closed it. *)
Dropped ==
  /\ "conns" \notin recv => connsClosed
  /\ "errs" \notin recv => errsClosed

(* Serve leaves its loop only when the accept goroutine is in its deferred *)
(* calls.                                                                  *)
Leaving ==
  sPc # "loop" => aPc \in {"closeConns", "closeErrs", "joinDone", "exited"}

(* An open connection has a goroutine that answers for it. *)
Owned ==
  \A c \in Conns :
    /\ conn[c] = "open" => h[c] \in {"running", "closing"} \/ Taken(c)
    /\ h[c] # "none" => conn[c] \in {"open", "closed"}

(* The listener is closed only after the context is done, so the error a   *)
(* closed listener returns is seen with the context done.                  *)
Shutdown ==
  /\ lstn = "closed" => ctx = "done"
  /\ aPc = "check" => aErr \in Errors
  /\ aPc = "check" /\ aErr = "useOfClosed" => ctx = "done"
  /\ aPc = "sendErr" => aErr = "perm"
  /\ sPc \in {"wait", "closeLstn", "returned"} => ctx = "done"
  /\ result # "useOfClosed"

(* A closed listener has nothing queued, and Serve returns with it closed. *)
Backlog ==
  /\ lstn = "closed" => \A c \in Conns : conn[c] # "queued"
  /\ sPc = "returned" => lstn = "closed"

(* All the parts but the one on the WaitGroup. *)
Control ==
  Holding /\ Dropped /\ Leaving /\ Owned /\ Shutdown /\ Backlog

(* The inductive invariant: the WaitGroup counts the goroutines that are   *)
(* left, and each goroutine knows what the others have done by now         *)
(* (server.go:58-172).                                                     *)
Inv == TypeOK /\ JoinCounts /\ Waited /\ Control
=============================================================================
