------------------------------ MODULE UnixConn ------------------------------
(***************************************************************************)
(* Connections handed from one process to another over a unix domain       *)
(* socket (src/unix.go).  In the process S a netx.Server runs a            *)
(* SendUnixHandler: a connection that its handler leaves open is sent with *)
(* SendUnixConn.  In the process R a netx.Server accepts from a            *)
(* RecvUnixListener.  Another program at the same end as S may send a      *)
(* message with no descriptor, or with two.                                *)
(*                                                                         *)
(* Every process has a table of descriptors; a number is taken again as    *)
(* soon as it is free, so that a close too many closes somebody else's     *)
(* connection.  The objects of Go that own a number (net.Conn, os.File)    *)
(* remember that they were closed.                                         *)
(***************************************************************************)
EXTENDS Integers, Sequences, FiniteSetsExt

CONSTANTS
  Conns,  \* the connections that S serves
  Extra,  \* a connection that another program sends to R
  NFds    \* how many descriptors S and R may have open

Procs == {"S", "R"}

ASSUME UnixAssumption ==
  /\ Extra \notin Conns /\ "none" \notin Conns \cup {Extra}
  /\ NFds \in [Procs -> Nat \ {0}]

Fds(p) == 0..(NFds[p] - 1)
None   == "none"

VARIABLES
  tab,     \* the connection behind every descriptor of every process
  conn,    \* the net.Conn of every connection of S
  file,    \* the os.File that SendUnixConn makes of it
  closed,  \* sendUnixConn.closed
  pc,      \* where the goroutine that serves a connection is, in S
  err,     \* SendUnixConn failed
  panicked, \* the handler that SendUnixHandler wraps panicked
  socket,  \* the two ends of the unix domain socket
  queue,   \* the messages in it: the connections each carries
  rpc,     \* where the goroutine that accepts is, in R
  rfile,   \* the os.File of RecvUnixConn
  rconn,   \* the net.Conn of every connection that R has got
  sent     \* history: how often S has sent a connection

sendVars == <<conn, file, closed, pc, err, panicked, sent>>
recvVars == <<rpc, rfile, rconn>>
vars == <<tab, socket, queue, sendVars, recvVars>>

(* An object that owns a descriptor, or did. *)
Object == [fd : Nat, open : BOOLEAN]
Nil    == [fd |-> 0, open |-> FALSE]
New(n) == [fd |-> n, open |-> TRUE]
Shut(o) == [fd |-> o.fd, open |-> FALSE]

Pc == {"accept", "handler", "file", "send", "closeFile", "closeConn", "deferred",
       "server", "done"}

RPc == {"accept", "fileConn", "deferred", "failed", "stopped"}

Init ==
  /\ tab = [p \in Procs |-> [n \in Fds(p) |-> None]]
  /\ conn = [c \in Conns |-> Nil] /\ file = [c \in Conns |-> Nil]
  /\ closed = [c \in Conns |-> FALSE] /\ pc = [c \in Conns |-> "accept"]
  /\ err = [c \in Conns |-> FALSE] /\ panicked = [c \in Conns |-> FALSE]
  /\ sent = [c \in Conns |-> 0]
  /\ socket = [p \in Procs |-> "open"] /\ queue = <<>>
  /\ rpc = "accept" /\ rfile = Nil /\ rconn = [c \in Conns \cup {Extra} |-> Nil]

Free(p) == {n \in Fds(p) : tab[p][n] = None}

(* The kernel hands out the lowest number that is free. *)
Open(p, c) == tab' = [tab EXCEPT ![p][Min(Free(p))] = c]

(* Mutant: the object does not know that it was closed already. *)
CloseAgain(p, o) == tab' = [tab EXCEPT ![p][o.fd] = None]

(* os.File.Close and net.Conn.Close: only the first has an effect. *)
Close(p, o) == tab' = IF o.open THEN [tab EXCEPT ![p][o.fd] = None] ELSE tab

Goto(c, l) == pc' = [pc EXCEPT ![c] = l]

-----------------------------------------------------------------------------
(* S: netx.Server gives a connection to SendUnixHandler.ServeConn. *)

Accept(c) ==
  /\ pc[c] = "accept" /\ Free("S") # {}
  /\ Open("S", c) /\ conn' = [conn EXCEPT ![c] = New(Min(Free("S")))]
  /\ Goto(c, "handler")
  /\ UNCHANGED <<file, closed, err, panicked, sent, socket, queue, recvVars>>

(* A Read or a Write of the handler fails for good. *)
HandlerIOFails(c) ==
  /\ pc[c] = "handler" /\ ~closed[c]
  /\ closed' = [closed EXCEPT ![c] = TRUE]
  /\ UNCHANGED <<tab, socket, queue, conn, file, pc, err, panicked, sent, recvVars>>

(* The handler closes the connection, perhaps in a goroutine that outlives *)
(* it, as the copies of Echo and of a tunnel do.                           *)
HandlerCloses(c) ==
  /\ conn[c].open
  /\ closed' = [closed EXCEPT ![c] = TRUE]
  /\ Close("S", conn[c]) /\ conn' = [conn EXCEPT ![c] = Shut(@)]
  /\ UNCHANGED <<socket, queue, file, pc, err, panicked, sent, recvVars>>

HandlerReturns(c) ==
  /\ pc[c] = "handler"
  /\ Goto(c, IF closed[c] THEN "server" ELSE "file")
  /\ UNCHANGED <<tab, socket, queue, conn, file, closed, err, panicked, sent, recvVars>>

(* The handler panics, as that of a tunnel does when it cannot dial.       *)
(* Nothing in ServeConn is deferred: the connection is not sent, even if   *)
(* it was left open, and netx.Server recovers and closes it.               *)
HandlerPanics(c) ==
  /\ pc[c] = "handler" /\ panicked' = [panicked EXCEPT ![c] = TRUE]
  /\ Goto(c, "server")
  /\ UNCHANGED <<tab, socket, queue, conn, file, closed, err, sent, recvVars>>

(* conn.File() duplicates the descriptor. *)
File(c) ==
  /\ pc[c] = "file" /\ conn[c].open /\ Free("S") # {}
  /\ Open("S", c) /\ file' = [file EXCEPT ![c] = New(Min(Free("S")))]
  /\ Goto(c, "send")
  /\ UNCHANGED <<socket, queue, conn, closed, err, panicked, sent, recvVars>>

FileFails(c) ==
  /\ pc[c] = "file" /\ (~conn[c].open \/ Free("S") = {})
  /\ err' = [err EXCEPT ![c] = TRUE] /\ Goto(c, "server")
  /\ UNCHANGED <<tab, socket, queue, conn, file, closed, panicked, sent, recvVars>>

(* The message holds on to the connection until it is received. *)
WriteMsg(c) ==
  /\ pc[c] = "send" /\ socket = [p \in Procs |-> "open"]
  /\ queue' = Append(queue, <<c>>) /\ sent' = [sent EXCEPT ![c] = @ + 1]
  /\ Goto(c, "closeFile")
  /\ UNCHANGED <<tab, socket, conn, file, closed, err, panicked, recvVars>>

WriteMsgFails(c) ==
  /\ pc[c] = "send"
  /\ err' = [err EXCEPT ![c] = TRUE] /\ Goto(c, "deferred")
  /\ UNCHANGED <<tab, socket, queue, conn, file, closed, panicked, sent, recvVars>>

(* file.Close() of SendUnixFile. *)
CloseFile(c) ==
  /\ pc[c] = "closeFile"
  /\ Close("S", file[c]) /\ file' = [file EXCEPT ![c] = Shut(@)]
  /\ Goto(c, "closeConn")
  /\ UNCHANGED <<socket, queue, conn, closed, err, panicked, sent, recvVars>>

(* close.Close() of sendUnixFileConn. *)
CloseConn(c) ==
  /\ pc[c] = "closeConn"
  /\ Close("S", conn[c]) /\ conn' = [conn EXCEPT ![c] = Shut(@)]
  /\ Goto(c, "deferred")
  /\ UNCHANGED <<socket, queue, file, closed, err, panicked, sent, recvVars>>

(* Mutant: the duplicate is only closed by SendUnixFile. *)
DeferredMissing(c) ==
  /\ pc[c] = "deferred" /\ Goto(c, "server")
  /\ UNCHANGED <<tab, socket, queue, conn, file, closed, err, panicked, sent, recvVars>>

(* The deferred f.Close(), a second one when the file was sent. *)
Deferred(c) ==
  /\ pc[c] = "deferred"
  /\ Close("S", file[c]) /\ file' = [file EXCEPT ![c] = Shut(@)]
  /\ Goto(c, "server")
  /\ UNCHANGED <<socket, queue, conn, closed, err, panicked, sent, recvVars>>

(* ServeConn has returned, or panicked with err or because its handler     *)
(* did: the deferred conn.Close() of netx.Server runs.                     *)
ServerCloses(c) ==
  /\ pc[c] = "server"
  /\ Close("S", conn[c]) /\ conn' = [conn EXCEPT ![c] = Nil]
  /\ file' = [file EXCEPT ![c] = IF @.open THEN @ ELSE Nil]
  /\ Goto(c, "done")
  /\ UNCHANGED <<socket, queue, closed, err, panicked, sent, recvVars>>

(* The program closes its end; what is in the socket can still be read. *)
SendClose ==
  /\ socket["S"] = "open" /\ socket' = [socket EXCEPT !["S"] = "closed"]
  /\ UNCHANGED <<tab, queue, sendVars, recvVars>>

(* Messages that this package never sends: one without a descriptor, and   *)
(* one with two.                                                           *)
Others == {<<>>, <<Extra, Extra>>}

(* Another program that has the same end sends one, to an empty socket. *)
SendOther(m) ==
  /\ socket = [p \in Procs |-> "open"] /\ queue = <<>>
  /\ Extra \notin Range(tab["R"])
  /\ queue' = Append(queue, m)
  /\ UNCHANGED <<tab, socket, sendVars, recvVars>>

-----------------------------------------------------------------------------
(* R: RecvUnixListener under netx.Server. *)

(* External: the kernel gives the descriptors of a message the lowest free *)
(* numbers and drops the connections for which there are none left.        *)
Numbers == {n \in Free("R") : Cardinality({k \in Free("R") : k < n}) < Len(Head(queue))}
Nth(n)  == Cardinality({k \in Free("R") : k <= n})

(* RecvUnixFile.  No descriptor at all is taken for the end of the stream; *)
(* two are closed again.                                                   *)
RecvFile ==
  /\ rpc = "accept" /\ socket["R"] = "open" /\ queue # <<>>
  /\ queue' = Tail(queue)
  /\ IF Cardinality(Numbers) = 1
     THEN LET n == CHOOSE n \in Numbers : TRUE
          IN  /\ tab' = [tab EXCEPT !["R"][n] = Head(queue)[Nth(n)]]
              /\ rfile' = New(n) /\ rpc' = "fileConn"
     ELSE UNCHANGED <<tab, rfile>> /\ rpc' = "failed"
  /\ UNCHANGED <<socket, sendVars, rconn>>

RecvEnds ==
  /\ rpc = "accept"
  /\ \/ socket["R"] = "closed"
     \/ socket["S"] = "closed" /\ queue = <<>>
  /\ rpc' = "failed"
  /\ UNCHANGED <<tab, socket, queue, sendVars, rfile, rconn>>

Received == tab["R"][rfile.fd]

(* net.FileConn duplicates the descriptor once more. *)
FileConn ==
  /\ rpc = "fileConn" /\ Free("R") # {}
  /\ Open("R", Received)
  /\ rconn' = [rconn EXCEPT ![Received] = New(Min(Free("R")))]
  /\ rpc' = "deferred"
  /\ UNCHANGED <<socket, queue, sendVars, rfile>>

(* Running out of descriptors is a temporary error: R accepts again. *)
FileConnFails ==
  /\ rpc = "fileConn" /\ Free("R") = {} /\ rpc' = "deferred"
  /\ UNCHANGED <<tab, socket, queue, sendVars, rfile, rconn>>

(* The deferred f.Close() of RecvUnixConn. *)
RecvDeferred ==
  /\ rpc = "deferred" /\ rpc' = "accept"
  /\ Close("R", rfile) /\ rfile' = Nil
  /\ UNCHANGED <<socket, queue, sendVars, rconn>>

(* The last descriptor of an end: what was not received is dropped. *)
RecvClose ==
  /\ socket["R"] = "open"
  /\ socket' = [socket EXCEPT !["R"] = "closed"] /\ queue' = <<>>
  /\ UNCHANGED <<tab, sendVars, recvVars>>

(* Mutant: the listener is left open. *)
StopKeepsSocket ==
  /\ rpc = "failed" /\ rpc' = "stopped"
  /\ UNCHANGED <<tab, socket, queue, sendVars, rfile, rconn>>

(* Any other error ends netx.Server, which closes the listener. *)
Stop ==
  /\ rpc = "failed" /\ rpc' = "stopped"
  /\ socket' = [socket EXCEPT !["R"] = "closed"] /\ queue' = <<>>
  /\ UNCHANGED <<tab, sendVars, rfile, rconn>>

(* R is done with a connection. *)
ServeEnds(c) ==
  /\ rconn[c].open
  /\ Close("R", rconn[c]) /\ rconn' = [rconn EXCEPT ![c] = Nil]
  /\ UNCHANGED <<socket, queue, sendVars, rpc, rfile>>

-----------------------------------------------------------------------------
SendStep(c) ==
  \/ File(c) \/ FileFails(c) \/ WriteMsg(c) \/ WriteMsgFails(c)
  \/ CloseFile(c) \/ CloseConn(c) \/ Deferred(c) \/ ServerCloses(c)

RecvStep ==
  RecvFile \/ RecvEnds \/ FileConn \/ FileConnFails \/ RecvDeferred \/ Stop

Ended ==
  /\ \A c \in Conns : pc[c] = "done"
  /\ rpc = "stopped"
  /\ UNCHANGED vars

Next ==
  \/ \E c \in Conns : Accept(c) \/ HandlerIOFails(c) \/ HandlerCloses(c)
                      \/ HandlerReturns(c) \/ HandlerPanics(c) \/ SendStep(c)
  \/ SendClose \/ (\E m \in Others : SendOther(m))
  \/ RecvStep \/ RecvClose \/ (\E c \in Conns \cup {Extra} : ServeEnds(c))
  \/ Ended

Spec == Init /\ [][Next]_vars

(* Both servers run.  Nothing makes a handler return, or a program close   *)
(* its end of the socket.                                                  *)
FairSpec ==
  Spec /\ WF_vars(RecvStep) /\ \A c \in Conns : WF_vars(SendStep(c))

-----------------------------------------------------------------------------
Messages == Others \cup {<<c>> : c \in Conns}

(* The state has its types (unix.go). *)
TypeOK ==
  /\ tab = [p \in Procs |-> tab[p]]
  /\ tab["S"] \in [Fds("S") -> Conns \cup {None}]
  /\ tab["R"] \in [Fds("R") -> Conns \cup {Extra} \cup {None}]
  /\ conn \in [Conns -> Object] /\ file \in [Conns -> Object]
  /\ closed \in [Conns -> BOOLEAN] /\ err \in [Conns -> BOOLEAN]
  /\ panicked \in [Conns -> BOOLEAN]
  /\ pc \in [Conns -> Pc] /\ rpc \in RPc /\ rfile \in Object
  /\ rconn \in [Conns \cup {Extra} -> Object] /\ sent \in [Conns -> Nat]
  /\ socket \in [Procs -> {"open", "closed"}]
  /\ queue \in Seq(Messages)

(* Every descriptor in use has one owner, which means the connection that  *)
(* is behind it, and no object owns a descriptor that is not in use: none  *)
(* leaks, and no Close reaches somebody else's connection, though numbers  *)
(* are taken again between the two closes of a file (unix.go:35-65,        *)
(* 68-86).                                                                 *)
Owns(o, n) == o.open /\ o.fd = n

OneOwnerS ==
  /\ \A n \in Fds("S") : tab["S"][n] # None =>
       Owns(conn[tab["S"][n]], n) \/ Owns(file[tab["S"][n]], n)
  /\ \A c \in Conns :
       /\ conn[c].open => conn[c].fd \in Fds("S") /\ tab["S"][conn[c].fd] = c
       /\ file[c].open => file[c].fd \in Fds("S") /\ tab["S"][file[c].fd] = c
       /\ conn[c].open /\ file[c].open => conn[c].fd # file[c].fd

OneOwnerR ==
  /\ \A n \in Fds("R") : tab["R"][n] # None =>
       Owns(rfile, n) \/ Owns(rconn[tab["R"][n]], n)
  /\ \A c \in Conns \cup {Extra} : rconn[c].open =>
       /\ rconn[c].fd \in Fds("R") /\ tab["R"][rconn[c].fd] = c
       /\ rfile.open => rconn[c].fd # rfile.fd
  /\ rfile.open => rfile.fd \in Fds("R") /\ Received # None

(* Where the goroutine that serves a connection is tells whether the       *)
(* duplicate is open and whether the connection was sent: only one that    *)
(* was closed or whose handler panicked was not tried (unix.go:35-65,      *)
(* 182-191).                                                               *)
SendStages ==
  \A c \in Conns :
    /\ file[c].open => pc[c] \in {"send", "closeFile", "deferred"}
    /\ conn[c].open => pc[c] \notin {"accept", "done"}
    /\ pc[c] \in {"accept", "handler", "file", "send"} =>
         sent[c] = 0 /\ ~err[c] /\ ~panicked[c]
    /\ pc[c] \in {"closeFile", "closeConn"} =>
         sent[c] = 1 /\ ~err[c] /\ ~panicked[c]
    /\ pc[c] \in {"deferred", "server", "done"} =>
         \/ sent[c] = 1 /\ ~err[c] /\ ~panicked[c]
         \/ sent[c] = 0 /\ (err[c] \/ closed[c] \/ panicked[c])

(* A connection that was sent is in the socket or in R, and not in both:   *)
(* what R takes from the socket is new to it (unix.go:51-86).              *)
InTransit ==
  /\ rfile.open <=> rpc \in {"fileConn", "deferred"}
  /\ rpc = "fileConn" => ~rconn[Received].open
  /\ \A i \in DOMAIN queue : \A c \in Range(queue[i]) :
       /\ c \notin Range(tab["R"])
       /\ \A j \in DOMAIN queue : c \in Range(queue[j]) => i = j
  /\ \A c \in Conns : sent[c] = 0 =>
       /\ c \notin Range(tab["R"])
       /\ \A i \in DOMAIN queue : c \notin Range(queue[i])

(* Descriptors have one owner each (unix.go:35-86). *)
FDInv == TypeOK /\ OneOwnerS /\ OneOwnerR /\ SendStages /\ InTransit

(* "On success conn is closed because the owner is now the process that    *)
(* received the file descriptor" (unix.go:15-16): when a connection has    *)
(* been served S holds no descriptor of it, whether it was sent or not; it *)
(* was sent once at most, and not at all if SendUnixConn failed; one that  *)
(* a handler leaves open when it returns is not just dropped (unix.go:     *)
(* 35-49, 182-191).  One that it leaves open when it panics is: ServeConn  *)
(* defers nothing, so it is closed by netx.Server and never sent.          *)
HandOver ==
  \A c \in Conns :
    /\ sent[c] <= 1 /\ (err[c] => sent[c] = 0)
    /\ pc[c] = "done" => /\ c \notin Range(tab["S"])
                         /\ panicked[c] \/ sent[c] = 1 \/ err[c] \/ closed[c]
    /\ panicked[c] => sent[c] = 0
    /\ rconn[c].open => sent[c] = 1

(* A connection that its handler is done with is soon out of S and out of  *)
(* the socket: either R has it, or it is closed, whoever stops and         *)
(* whatever table is full (unix.go:35-49, 68-86, 182-191).                 *)
Settles ==
  \A c \in Conns :
    pc[c] \in {"file", "server"} ~>
      /\ c \notin Range(tab["S"])
      /\ \A m \in Range(queue) : c \notin Range(m)
      /\ rpc \in {"fileConn", "deferred"} => tab["R"][rfile.fd] # c
=============================================================================
